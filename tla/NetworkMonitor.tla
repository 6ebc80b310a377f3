---------------------------- MODULE NetworkMonitor ----------------------------
(***************************************************************************)
(* The network-change monitor: the address listener (a thread on Windows,  *)
(* a task on macOS, none on Linux) that compares snapshots of the host's   *)
(* addresses, the route listener, and the task that turns their events     *)
(* into the two watch signals "routes" and "transitions".  On macOS a      *)
(* transition is an address change paired with a route arrival.            *)
(***************************************************************************)
EXTENDS Naturals, FiniteSets, FiniteSetsExt

CONSTANTS Addresses,      \* addresses the host may have
          TunAddr,        \* ignore_ips: the tunnel's own
          Window,         \* TRANSITION_WINDOW, in ticks
          Cooldown,       \* TRANSITION_COOLDOWN
          MaxClock,       \* bound on the clock
          MaxAddrChanges, \* bound on changes of the addresses and on route events
          MaxMisreads     \* bound on failed reads of the addresses

ASSUME MonitorBounds ==
  /\ TunAddr \in Addresses /\ Window \in Nat /\ Cooldown \in Nat \ {0}
  /\ MaxClock \in Nat /\ MaxAddrChanges \in Nat /\ MaxMisreads \in Nat

VARIABLES
  platform,      \* "linux", "macos", "windows"
  addrs,         \* the host's addresses
  prev,          \* the listener's last snapshot
  notified,      \* the system has a notification for the listener
  missed,        \* the addresses changed while no notification was asked for
  listener,      \* where the listener is
  dropped,       \* the AsyncAddrListener is dropped
  addr_events,   \* address events the monitor has not received
  mclock,        \* Instant::now(), on macOS
  last_addr, last_route, last_emit,   \* TransitionDetector; 0 is None
  notices,         \* watch signals sent and not taken
  counted,       \* relevant address changes, address events sent, failed reads
  seen           \* what happened when: address events, route arrivals, transitions

monitorVars == <<platform, addrs, prev, notified, missed, listener, dropped, addr_events, mclock,
                 last_addr, last_route, last_emit, notices, counted, seen>>
listenerVars == <<addrs, prev, notified, missed, listener, dropped, counted>>
detectorVars == <<last_addr, last_route, last_emit, seen>>

RealAddrs(s) == s \ {TunAddr}   \* what the listener ought to watch

(* relevant_addrs: loopback and link-local addresses are left out of the   *)
(* model, the tunnel's own is filtered.                                    *)
relevant_addrs(s) == s \ {TunAddr}

(* The snapshot that becomes prev.                                         *)
Remembers(now) == now

MonitorInit ==
  /\ platform \in {"linux", "macos", "windows"}
  /\ addrs \in SUBSET Addresses /\ prev = {} /\ notified = (platform = "macos") /\ missed = FALSE
  /\ listener = IF platform = "linux" THEN "none" ELSE "starting"
  /\ dropped = FALSE /\ addr_events = 0 /\ mclock = 1
  /\ last_addr = 0 /\ last_route = 0 /\ last_emit = 0
  /\ notices = {} /\ counted = [changes |-> 0, sent |-> 0, misreads |-> 0]
  /\ seen = [addr |-> {}, route |-> {}, emit |-> {}]

-----------------------------------------------------------------------------
(* The host.  Windows notifies whoever is waiting, netwatcher always.      *)
AddrsChange(s) ==
  /\ platform # "linux" /\ counted.changes < MaxAddrChanges /\ s # addrs
  /\ addrs' = s
  /\ counted' = [counted EXCEPT !.changes = @ + (IF RealAddrs(s) = RealAddrs(addrs) THEN 0 ELSE 1)]
  /\ counted'.changes > counted.changes \/ (TunAddr \in s /\ TunAddr \notin addrs)
  /\ notified' = (notified \/ platform = "macos" \/ listener = "waiting")
  /\ missed' = (missed \/ (platform = "windows" /\ listener \in {"sleeping", "arming", "backoff"}))
  /\ UNCHANGED <<platform, prev, listener, dropped, addr_events, mclock, last_addr, last_route, last_emit, notices, seen>>

(* monitor_address_changes: the baseline.  On macOS the first update seeds.*)
Baseline ==
  /\ listener = "starting"
  /\ prev' = relevant_addrs(addrs)
  /\ listener' = IF platform = "macos" THEN "waiting" ELSE "arming"
  /\ notified' = FALSE
  /\ UNCHANGED <<platform, addrs, missed, dropped, counted, addr_events, mclock, notices>> /\ UNCHANGED detectorVars

(* perform_single_monitor_cycle: NotifyAddrChange may fail.                *)
Arm(ok) ==
  /\ listener = "arming"
  /\ listener' = IF ok THEN "waiting" ELSE "backoff"
  /\ UNCHANGED <<platform, addrs, prev, notified, missed, dropped, counted, addr_events, mclock, notices>>
  /\ UNCHANGED detectorVars

(* The address event comes before the shutdown event.                      *)
Wake ==
  /\ listener = "waiting" /\ (notified \/ dropped)
  /\ listener' = IF notified THEN "reading" ELSE "exited"
  /\ notified' = FALSE
  /\ UNCHANGED <<platform, addrs, prev, missed, dropped, counted, addr_events, mclock, notices>>
  /\ UNCHANGED detectorVars

(* The snapshot is compared with the last one; a failed read is empty.     *)
ReadAddrs(failed) ==
  /\ listener = "reading"
  /\ failed => platform = "windows" /\ counted.misreads < MaxMisreads
  /\ LET now == IF failed THEN {} ELSE relevant_addrs(addrs)
         sends == now # prev
     IN /\ prev' = Remembers(now) /\ missed' = FALSE
        /\ listener' = IF ~sends THEN IF platform = "macos" THEN "waiting" ELSE "arming"
                       ELSE IF dropped THEN "exited"
                       ELSE IF platform = "macos" THEN "waiting" ELSE "sleeping"
        /\ addr_events' = IF sends /\ ~dropped THEN addr_events + 1 ELSE addr_events
        /\ counted' = [counted EXCEPT !.sent = IF sends /\ ~dropped THEN @ + 1 ELSE @,
                                      !.misreads = IF failed THEN @ + 1 ELSE @]
  /\ UNCHANGED <<platform, addrs, notified, dropped, mclock, notices>> /\ UNCHANGED detectorVars

(* The pause after an event, and the backoff after an error: only the      *)
(* latter looks at the shutdown event.                                     *)
Backoff == listener = "backoff" /\ listener' = (IF dropped THEN "exited" ELSE "arming")
Pause ==
  /\ Backoff \/ (listener = "sleeping" /\ listener' = "arming")
  /\ UNCHANGED <<platform, addrs, prev, notified, missed, dropped, counted, addr_events, mclock, notices>>
  /\ UNCHANGED detectorVars

DropListener ==
  /\ ~dropped /\ platform = "windows" /\ dropped' = TRUE /\ addr_events' = 0
  /\ UNCHANGED <<platform, addrs, prev, notified, missed, listener, counted, mclock, notices>>
  /\ UNCHANGED detectorVars

-----------------------------------------------------------------------------
(* TransitionDetector::try_emit, after the event's time is noted.          *)
EmitsAgain(a, r) == a # 0 /\ r # 0 /\ mclock - a <= Window /\ mclock - r <= Window
Emits(a, r) ==
  /\ a # 0 /\ r # 0 /\ mclock - a <= Window /\ mclock - r <= Window
  /\ last_emit = 0 \/ mclock - last_emit >= Cooldown

Detect(a, r) ==
  IF platform = "macos" /\ Emits(a, r)
  THEN /\ last_addr' = 0 /\ last_route' = 0 /\ last_emit' = mclock
       /\ seen' = [addr |-> seen.addr \cup (IF a = last_addr THEN {} ELSE {mclock}),
                   route |-> seen.route \cup (IF r = last_route THEN {} ELSE {mclock}),
                   emit |-> seen.emit \cup {mclock}]
  ELSE /\ last_addr' = a /\ last_route' = r /\ UNCHANGED last_emit
       /\ seen' = [seen EXCEPT !.addr = @ \cup (IF a = last_addr THEN {} ELSE {mclock}),
                               !.route = @ \cup (IF r = last_route THEN {} ELSE {mclock})]

(* The monitor's select: an address event.                                 *)
OnAddr ==
  /\ addr_events > 0 /\ addr_events' = addr_events - 1
  /\ IF platform = "macos"
     THEN /\ Detect(mclock, last_route)
          /\ notices' = IF last_emit' # last_emit THEN notices \cup {"transitions"} ELSE notices
     ELSE notices' = {"routes", "transitions"} /\ UNCHANGED detectorVars
  /\ UNCHANGED <<platform, mclock>> /\ UNCHANGED listenerVars

(* A route event: applicable or not, an arrival or a deletion.             *)
OnRoute(applicable, arrives) ==
  /\ Cardinality(seen.route) < MaxAddrChanges
  /\ LET detects == platform = "macos" /\ applicable /\ arrives
     IN /\ IF detects THEN Detect(last_addr, mclock) ELSE UNCHANGED detectorVars
        /\ notices' = notices \cup (IF applicable THEN {"routes"} ELSE {})
                          \cup (IF applicable /\ (platform = "windows" \/ (detects /\ last_emit' # last_emit))
                                THEN {"transitions"} ELSE {})
  /\ UNCHANGED <<platform, mclock, addr_events>> /\ UNCHANGED listenerVars

Subscriber ==
  /\ notices # {} /\ notices' = {}
  /\ UNCHANGED <<platform, addr_events, mclock>> /\ UNCHANGED listenerVars /\ UNCHANGED detectorVars

MonitorTick ==
  /\ platform = "macos" /\ mclock < MaxClock /\ mclock' = mclock + 1
  /\ UNCHANGED <<platform, addr_events, notices>> /\ UNCHANGED listenerVars /\ UNCHANGED detectorVars

MonitorNext ==
  \/ \E s \in SUBSET Addresses : AddrsChange(s)
  \/ \E b \in BOOLEAN : Arm(b) \/ ReadAddrs(b)
  \/ \E applicable, arrives \in BOOLEAN : OnRoute(applicable, arrives)
  \/ Baseline \/ Wake \/ Pause \/ DropListener \/ OnAddr \/ Subscriber \/ MonitorTick

MonitorSpec == MonitorInit /\ [][MonitorNext]_monitorVars

-----------------------------------------------------------------------------
MonitorTypeOK ==
  /\ addrs \subseteq Addresses /\ prev \subseteq Addresses /\ addr_events \in 0 .. MaxAddrChanges + 2 * MaxMisreads
  /\ listener \in {"none", "starting", "arming", "waiting", "reading", "sleeping", "backoff", "exited"}
  /\ notices \subseteq {"routes", "transitions"}
  /\ \A t \in {last_addr, last_route, last_emit} : t \in 0 .. mclock

Earlier(t) == {e \in seen.emit : e < t}

(* The transitions are those the log of events calls for: each has its own *)
(* address change and route arrival within the window, they keep their     *)
(* distance, and none is owed at the time of an event.                     *)
TransitionsExact ==
  /\ \A t \in seen.emit :
       /\ \A e \in Earlier(t) : t - e >= Cooldown
       /\ \E a \in seen.addr, r \in seen.route :
            /\ a <= t /\ r <= t /\ t - a <= Window /\ t - r <= Window
            /\ \A e \in Earlier(t) : e <= a /\ e <= r
  /\ \A a \in seen.addr, r \in seen.route :
       LET t == Max({a, r})
       IN /\ t - a <= Window /\ t - r <= Window
          /\ \A e \in Earlier(t) : e < a /\ e < r /\ t - e >= Cooldown
          => t \in seen.emit

(* The tunnel's own address coming up is not a network change: the events  *)
(* are no more than the changes, with two for a read that failed.          *)
TunnelIsQuiet == counted.sent <= counted.changes + 2 * counted.misreads

(* A listener that waits for news has the news, unless it missed them      *)
(* while it was not asking.                                                *)
NewsTaken ==
  listener = "waiting" /\ ~notified /\ ~missed /\ counted.misreads = 0 => RealAddrs(prev) = RealAddrs(addrs)

(* The thread ends once its owner is gone, even if the notification cannot *)
(* be had: "could spin here forever, hanging process exit".                *)
ThreadExits == dropped ~> listener = "exited"

(* The monitor reports the changes of the host's network, and those only   *)
(* (network_change_monitor.rs).                                            *)
MonitorSafe ==
  /\ MonitorTypeOK
  /\ TransitionsExact
  /\ TunnelIsQuiet
  /\ NewsTaken
=============================================================================
