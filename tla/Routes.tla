-------------------------------- MODULE Routes --------------------------------
(***************************************************************************)
(* The route manager of the desktop client: the routes it installs so that *)
(* traffic enters the tunnel and the tunnel's own packets do not, the      *)
(* update of the server route when the default route moves, and the removal*)
(* of the routes when their owner is dropped.  Each call into the kernel is*)
(* an await: the task that owns the routes can be aborted at any of them.  *)
(***************************************************************************)
EXTENDS Naturals, Sequences, FiniteSets, SequencesExt

CONSTANTS Gateways,         \* the uplinks of the host
          MaxRouteEvents    \* bound on changes of the uplinks

NoVia == "none"
Tun == "tun"
ASSUME RouteBounds ==
  Gateways # {} /\ IsFiniteSet(Gateways) /\ Gateways \cap {Tun, NoVia} = {} /\ MaxRouteEvents \in Nat

VARIABLES
  routing_mode, \* "default", "lan" or "noexec"
  table,        \* the kernel's routes to the destinations below: a via, or NoVia
  uplinks,      \* the default routes listed, the best first
  todo,         \* routes still to be added, in order; the first is being added
  applied,      \* the kernel has added it, and the task has not resumed yet
  server_route, \* server_route, or NoVia
  taken,        \* the server's old route, taken and being deleted, or NoVia
  owned,        \* destinations of vpn_routes and lan_routes
  foreign,      \* routes that were in the table before
  changed,      \* a route event the coordinator has not seen
  updates,      \* changes of the uplinks so far
  excuse,       \* why the server may have no route: see Excuses
  stuck,        \* destinations whose route the kernel refused to delete
  routes        \* "off", "installing", "idle", "deleting", "replacing", "gone"

routeVars == <<routing_mode, table, uplinks, todo, applied, server_route, taken, owned, foreign, changed, updates,
               excuse, stuck, routes>>

Vias == Gateways \cup {Tun, NoVia}
Destinations == {"server", "lan", "halves", "dns"}   \* halves: TUNNEL_ROUTES

(* An add failed after the old route was taken; the uplink of the server's *)
(* route vanished and the kernel dropped the route; the task was aborted   *)
(* between taking the old route and its deletion, or between the kernel's  *)
(* add and its record.                                                     *)
Excuses == {"failed", "lost", "cut"}

Orders == UNION {SetToSeqs(s) : s \in SUBSET Gateways}

RouteInit ==
  /\ routing_mode \in {"default", "lan", "noexec"}
  /\ foreign \in SUBSET {"lan"}
  /\ table = [d \in Destinations |-> IF d \in foreign THEN CHOOSE g \in Gateways : TRUE ELSE NoVia]
  /\ uplinks \in Orders
  /\ todo = <<>> /\ applied = FALSE /\ server_route = NoVia /\ owned = {} /\ excuse = {}
  /\ taken = NoVia /\ stuck = {}
  /\ changed = FALSE /\ updates = 0 /\ routes = "off"

(* find_route for the server: its host route, else the best default route. *)
find_route == IF table["server"] # NoVia THEN table["server"]
              ELSE IF uplinks # <<>> THEN Head(uplinks) ELSE NoVia

(* cleanup_sync: every recorded route is deleted from the kernel, which may*)
(* refuse any of them.                                                     *)
Deletes == {d \in Destinations : d \in owned \/ (d = "server" /\ table[d] = server_route)}
Cleanup(refused) == [d \in Destinations |-> IF d \in Deletes \ refused THEN NoVia ELSE table[d]]
DropInner(refused) ==
  /\ table' = Cleanup(refused) /\ stuck' = stuck \cup (Deletes \cap refused)
  /\ owned' = {} /\ server_route' = NoVia /\ taken' = NoVia
  /\ todo' = <<>> /\ applied' = FALSE /\ routes' = "gone"

(* RouteManager::start, install_routes: what there is to add.  The server  *)
(* comes first, the routes into the tunnel after it.                       *)
TunnelFirst(via) ==
  <<[dst |-> "halves", via |-> Tun], [dst |-> "dns", via |-> Tun], [dst |-> "server", via |-> via]>>
Planned(via) ==
  <<[dst |-> "server", via |-> via]>>
    \o (IF routing_mode = "lan" THEN <<[dst |-> "lan", via |-> via]>> ELSE <<>>)
    \o <<[dst |-> "halves", via |-> Tun], [dst |-> "dns", via |-> Tun]>>
Start ==
  /\ routes = "off"
  /\ IF routing_mode = "noexec" THEN routes' = "idle" /\ UNCHANGED todo
     ELSE IF find_route = NoVia THEN routes' = "gone" /\ UNCHANGED todo
     ELSE routes' = "installing" /\ todo' = Planned(find_route)
  /\ UNCHANGED <<routing_mode, table, uplinks, applied, server_route, taken, owned, foreign, changed, updates, excuse, stuck>>

(* add_route: the kernel's part of it.  A route that exists already is     *)
(* kept, and counts as added.                                              *)
KernelAdds ==
  /\ todo # <<>> /\ ~applied /\ routes # "deleting"
  /\ applied' = TRUE
  /\ table' = [table EXCEPT ![Head(todo).dst] = IF @ = NoVia THEN Head(todo).via ELSE @]
  /\ stuck' = IF table'[Head(todo).dst] = Head(todo).via THEN stuck \ {Head(todo).dst} ELSE stuck
  /\ excuse' = IF Head(todo).dst = "server" THEN excuse \ {"lost"} ELSE excuse
  /\ UNCHANGED <<routing_mode, uplinks, todo, server_route, taken, owned, foreign, changed, updates, routes>>

(* add_route_server, add_route_lan, add_route_vpn: the route is recorded.  *)
RouteAdded ==
  /\ applied /\ applied' = FALSE
  /\ LET r == Head(todo)
     IN IF r.dst = "server" THEN server_route' = r.via /\ UNCHANGED owned
        ELSE owned' = owned \cup {r.dst} /\ UNCHANGED server_route
  /\ todo' = Tail(todo)
  /\ routes' = IF Len(todo) = 1 THEN "idle" ELSE routes
  /\ UNCHANGED <<routing_mode, table, uplinks, taken, foreign, changed, updates, excuse, stuck>>

(* The kernel refuses: start returns, which drops the inner manager; an    *)
(* update returns its error and leaves the server without a recorded route. *)
FailInstall(refused) == DropInner(refused)

AddFails(refused) ==
  /\ todo # <<>> /\ ~applied
  /\ \/ routes = "installing" /\ FailInstall(refused) /\ UNCHANGED excuse
     \/ /\ routes = "replacing"
        /\ routes' = "idle" /\ todo' = <<>> /\ excuse' = excuse \cup {"failed"}
        /\ UNCHANGED <<table, server_route, taken, owned, applied, stuck>>
  /\ UNCHANGED <<routing_mode, uplinks, foreign, changed, updates>>

(* The default route of the least metric: uplinks are kept in that order,  *)
(* and equal metrics never change it.  There may be none.                  *)
find_best_default_route == Head(uplinks)

(* When check_and_update_server_route has a route to replace.              *)
Replaces ==
  routing_mode # "noexec" /\ uplinks # <<>> /\ server_route \notin {NoVia, find_best_default_route}
RouteEvent ==
  /\ routes = "idle" /\ changed
  /\ changed' = FALSE
  /\ IF Replaces
     THEN /\ routes' = "deleting" /\ taken' = server_route /\ server_route' = NoVia
          /\ todo' = <<[dst |-> "server", via |-> find_best_default_route]>>
     ELSE UNCHANGED <<routes, server_route, taken, todo>>
  /\ UNCHANGED <<routing_mode, table, uplinks, applied, owned, foreign, updates, excuse, stuck>>

(* The deletion of the route taken, whose failure is ignored: the new route*)
(* then exists already, and is recorded though the kernel keeps the old.   *)
OldDeleted(ok) ==
  /\ routes = "deleting" /\ routes' = "replacing" /\ taken' = NoVia
  /\ LET there == table["server"] = taken /\ taken # NoVia
     IN /\ table' = IF ok /\ there THEN [table EXCEPT !["server"] = NoVia] ELSE table
        /\ stuck' = IF ~there THEN stuck ELSE IF ok THEN stuck \ {"server"} ELSE stuck \cup {"server"}
  /\ UNCHANGED <<routing_mode, uplinks, todo, applied, server_route, owned, foreign, changed, updates, excuse>>

(* RouteManager::stop: the task is aborted and drops the inner manager,    *)
(* at whichever await it is.                                               *)
Abort(refused) ==
  /\ routes \in {"idle", "deleting", "replacing"}
  /\ DropInner(refused)
  /\ excuse' = IF applied \/ routes = "deleting" THEN excuse \cup {"cut"} ELSE excuse
  /\ UNCHANGED <<routing_mode, uplinks, foreign, changed, updates>>

(* The host: uplinks come, go and swap; the routes through one that is gone*)
(* go with it.                                                             *)
UplinksChange(next) ==
  /\ updates < MaxRouteEvents /\ next # uplinks
  /\ updates' = updates + 1 /\ uplinks' = next /\ changed' = TRUE
  /\ table' = [d \in Destinations |-> IF table[d] \in Gateways \ ToSet(next) THEN NoVia ELSE table[d]]
  /\ excuse' = IF table'["server"] # table["server"] THEN excuse \cup {"lost"} ELSE excuse
  /\ stuck' = {d \in stuck : table'[d] # NoVia}
  /\ UNCHANGED <<routing_mode, todo, applied, server_route, taken, owned, foreign, routes>>

RouteNext ==
  \/ Start \/ KernelAdds \/ RouteAdded \/ RouteEvent
  \/ \E refused \in SUBSET Destinations : AddFails(refused) \/ Abort(refused)
  \/ \E ok \in BOOLEAN : OldDeleted(ok)
  \/ \E order \in Orders : UplinksChange(order)

RouteSpec == RouteInit /\ [][RouteNext]_routeVars

-----------------------------------------------------------------------------
RouteTypeOK ==
  /\ table \in [Destinations -> Vias] /\ server_route \in Gateways \cup {NoVia}
  /\ owned \subseteq Destinations \ {"server"} /\ Len(todo) <= 4 /\ excuse \subseteq Excuses
  /\ stuck \subseteq Destinations /\ taken \in Gateways \cup {NoVia}

(* When the manager is gone, aborted or failed, so are its routes, unless  *)
(* the kernel refused to delete one, or the abort came while the server's  *)
(* route was unrecorded: taken and not yet deleted, or added and not yet   *)
(* recorded.                                                               *)
NoRouteLeft ==
  routes = "gone" =>
    \A d \in Destinations \ foreign :
      table[d] = NoVia \/ d \in stuck \/ (d = "server" /\ "cut" \in excuse)

(* Traffic enters the tunnel only while the server is pinned to an uplink, *)
(* so the tunnel's own packets never re-enter it; but for the moment of a  *)
(* replacement, after a failed add, after the kernel dropped the route and *)
(* where it refused to give the tunnel's routes back.                      *)
TunnelNotNested ==
  table["halves"] = Tun =>
    table["server"] \in Gateways \/ routes = "replacing" \/ excuse \cap {"failed", "lost"} # {}
      \/ "halves" \in stuck

(* Once the events are handled the server is on the best uplink, if no add *)
(* failed and the kernel neither dropped the server's route nor refused to *)
(* delete an older one that is still there.                                *)
ServerPinned ==
  routes = "idle" /\ ~changed /\ routing_mode # "noexec" /\ uplinks # <<>>
      /\ excuse = {} /\ "server" \notin stuck =>
    table["server"] = Head(uplinks)

(* Routes neither stay behind nor send the tunnel into itself, with the    *)
(* exceptions the parts name (route_manager.rs).                           *)
RoutesSafe ==
  /\ RouteTypeOK
  /\ NoRouteLeft
  /\ TunnelNotNested
  /\ ServerPinned
=============================================================================
