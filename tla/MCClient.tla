------------------------------ MODULE MCClient ------------------------------
(***************************************************************************)
(* The client applications around the core, part by part: each behaviour   *)
(* exercises one part (`focus`) while the others rest in an initial state  *)
(* of theirs.                                                              *)
(***************************************************************************)
EXTENDS ClientSelect, ClientTask, ClientUdp, Routes, Dns, NetworkMonitor, MobileConnect

VARIABLE focus

vars == <<selectVars, taskVars, udpVars, routeVars, dnsVars, monitorVars, mobileVars, focus>>

SelectRest  == SelectInit
TaskRest    == TaskInit /\ options = [stream |-> TRUE, codec |-> FALSE]
UdpRest     == UdpInit /\ udp = [requested |-> FALSE, callback |-> FALSE]
RouteRest   == RouteInit /\ routing_mode = "noexec" /\ uplinks = <<>> /\ foreign = {}
DnsRest     == DnsInit /\ backend = "windows"
MonitorRest == MonitorInit /\ platform = "linux" /\ addrs = {}
MobileRest  == MobileInit

Init ==
  \/ focus = "select" /\ SelectInit /\ TaskRest /\ UdpRest /\ RouteRest /\ DnsRest /\ MonitorRest /\ MobileRest
  \/ focus = "task" /\ TaskInit /\ SelectRest /\ UdpRest /\ RouteRest /\ DnsRest /\ MonitorRest /\ MobileRest
  \/ focus = "udp" /\ UdpInit /\ SelectRest /\ TaskRest /\ RouteRest /\ DnsRest /\ MonitorRest /\ MobileRest
  \/ focus = "route" /\ RouteInit /\ SelectRest /\ TaskRest /\ UdpRest /\ DnsRest /\ MonitorRest /\ MobileRest
  \/ focus = "dns" /\ DnsInit /\ SelectRest /\ TaskRest /\ UdpRest /\ RouteRest /\ MonitorRest /\ MobileRest
  \/ focus = "monitor" /\ MonitorInit /\ SelectRest /\ TaskRest /\ UdpRest /\ RouteRest /\ DnsRest /\ MobileRest
  \/ focus = "mobile" /\ MobileInit /\ SelectRest /\ TaskRest /\ UdpRest /\ RouteRest /\ DnsRest /\ MonitorRest

SelectOnly == focus = "select" /\ UNCHANGED <<taskVars, udpVars, routeVars, dnsVars, monitorVars, mobileVars, focus>>
TaskOnly == focus = "task" /\ UNCHANGED <<selectVars, udpVars, routeVars, dnsVars, monitorVars, mobileVars, focus>>
UdpOnly == focus = "udp" /\ UNCHANGED <<selectVars, taskVars, routeVars, dnsVars, monitorVars, mobileVars, focus>>
RouteOnly == focus = "route" /\ UNCHANGED <<selectVars, taskVars, udpVars, dnsVars, monitorVars, mobileVars, focus>>
DnsOnly == focus = "dns" /\ UNCHANGED <<selectVars, taskVars, udpVars, routeVars, monitorVars, mobileVars, focus>>
MonitorOnly == focus = "monitor" /\ UNCHANGED <<selectVars, taskVars, udpVars, routeVars, dnsVars, mobileVars, focus>>
MobileOnly == focus = "mobile" /\ UNCHANGED <<selectVars, taskVars, udpVars, routeVars, dnsVars, monitorVars, focus>>

Next ==
  \/ \E s \in Servers, ok \in BOOLEAN : SelectOnly /\ ConnectReturns(s, ok)
  \/ \E s \in Servers, online \in BOOLEAN : SelectOnly /\ Signal(s, online)
  \/ \E s \in Servers : SelectOnly /\ TakeSetup(s)
  \/ \E s \in Servers : SelectOnly /\ TakeSignal(s)
  \/ SelectOnly /\ TimerFinishes
  \/ SelectOnly /\ SetupEnds
  \/ SelectOnly /\ WaitEnds
  \/ SelectOnly /\ AllDisconnected
  \/ TaskOnly /\ OutsideIo
  \/ \E w \in Workers : TaskOnly /\ WorkerEnds(w)
  \/ \E w \in Workers : TaskOnly /\ WorkerExit(w)
  \/ TaskOnly /\ handle_events
  \/ TaskOnly /\ network_event_coordinator
  \/ TaskOnly /\ handle_network_change
  \/ TaskOnly /\ StopSignal
  \/ TaskOnly /\ NetworkExit
  \/ TaskOnly /\ DisconnectedSignal
  \/ TaskOnly /\ KeepaliveCancelled
  \/ TaskOnly /\ Chosen
  \/ \E how \in {"lost", "stopped"} : TaskOnly /\ NotChosen(how)
  \/ \E ok \in BOOLEAN : TaskOnly /\ SetUp("chosen", "routed", ok)
  \/ \E ok \in BOOLEAN : TaskOnly /\ SetUp("routed", "running", ok)
  \/ TaskOnly /\ UserStop
  \/ TaskOnly /\ TaskReturns
  \/ \E ok \in BOOLEAN : UdpOnly /\ reconnect(ok)
  \/ \E err \in SendErrors : UdpOnly /\ send(err)
  \/ \E notified_, kills \in BOOLEAN : UdpOnly /\ NetworkChanges(notified_, kills)
  \/ RouteOnly /\ Start
  \/ RouteOnly /\ KernelAdds
  \/ RouteOnly /\ RouteAdded
  \/ \E refused \in SUBSET Destinations : RouteOnly /\ AddFails(refused)
  \/ RouteOnly /\ RouteEvent
  \/ \E ok \in BOOLEAN : RouteOnly /\ OldDeleted(ok)
  \/ \E refused \in SUBSET Destinations : RouteOnly /\ Abort(refused)
  \/ \E order \in Orders : RouteOnly /\ UplinksChange(order)
  \/ DnsOnly /\ DnsNew
  \/ DnsOnly /\ DirectSet
  \/ \E ok \in BOOLEAN : DnsOnly /\ HardLink(ok)
  \/ \E ok \in BOOLEAN : DnsOnly /\ write_atomic(ok)
  \/ DnsOnly /\ DirectReset
  \/ \E ok \in BOOLEAN : DnsOnly /\ Restore(ok)
  \/ \E ok, done \in BOOLEAN : DnsOnly /\ CommandSet(ok, done)
  \/ \E ok \in BOOLEAN : DnsOnly /\ DomainSet(ok)
  \/ \E ok, flushed \in BOOLEAN : DnsOnly /\ MacSetDns(ok, flushed)
  \/ \E removed, added \in BOOLEAN : DnsOnly /\ WindowsSetDns(removed, added)
  \/ \E ok \in BOOLEAN : DnsOnly /\ CommandReset(ok)
  \/ DnsOnly /\ Crash
  \/ \E c \in Contents \cup {Missing}, inplace \in BOOLEAN : DnsOnly /\ Rewrite(c, inplace)
  \/ \E s \in Services \cup {Missing} : DnsOnly /\ PrimaryMoves(s)
  \/ \E s \in SUBSET Addresses : MonitorOnly /\ AddrsChange(s)
  \/ MonitorOnly /\ Baseline
  \/ \E ok \in BOOLEAN : MonitorOnly /\ Arm(ok)
  \/ MonitorOnly /\ Wake
  \/ \E bad \in BOOLEAN : MonitorOnly /\ ReadAddrs(bad)
  \/ MonitorOnly /\ Pause
  \/ MonitorOnly /\ DropListener
  \/ MonitorOnly /\ OnAddr
  \/ \E applicable, arrives \in BOOLEAN : MonitorOnly /\ OnRoute(applicable, arrives)
  \/ MonitorOnly /\ Subscriber
  \/ MonitorOnly /\ MonitorTick
  \/ \E s \in Endpoints, ok \in BOOLEAN : MobileOnly /\ lightway_client_connect(s, ok)
  \/ \E s \in Endpoints : MobileOnly /\ handle_online(s)
  \/ \E s \in Endpoints, why \in Ended : MobileOnly /\ ConnectionEnds(s, why)
  \/ MobileOnly /\ DeferTimeout
  \/ MobileOnly /\ AllFailed
  \/ \E s \in Endpoints : MobileOnly /\ TakeResult(s)
  \/ MobileOnly /\ DeferEnds
  \/ MobileOnly /\ OnlineSignal
  \/ \E s \in Endpoints : MobileOnly /\ OutsideIoExit(s)
  \/ MobileOnly /\ CleanupAborts
  \/ \E s \in Endpoints : MobileOnly /\ CleanupNext(s)
  \/ MobileOnly /\ ConnectCutShort
  \/ \E ending \in {"returned", "error"} : MobileOnly /\ SessionCutShort(ending)
  \/ MobileOnly /\ SessionEnds

(* A woken task or thread runs; sends are retried.                         *)
Fairness ==
  /\ WF_vars(\E s \in Servers : SelectOnly /\ TakeSetup(s)) /\ WF_vars(\E s \in Servers : SelectOnly /\ TakeSignal(s))
  /\ WF_vars(SelectOnly /\ SetupEnds) /\ WF_vars(SelectOnly /\ WaitEnds) /\ WF_vars(SelectOnly /\ AllDisconnected)
  /\ WF_vars(TaskOnly /\ handle_events) /\ WF_vars(TaskOnly /\ StopSignal) /\ WF_vars(TaskOnly /\ DisconnectedSignal)
  /\ WF_vars(\E err \in SendErrors : UdpOnly /\ send(err))
  /\ WF_vars(MonitorOnly /\ Baseline) /\ WF_vars(MonitorOnly /\ Wake) /\ WF_vars(MonitorOnly /\ Pause)
  /\ WF_vars(\E ok \in BOOLEAN : MonitorOnly /\ Arm(ok)) /\ WF_vars(\E bad \in BOOLEAN : MonitorOnly /\ ReadAddrs(bad))
  /\ WF_vars(MobileOnly /\ AllFailed) /\ WF_vars(MobileOnly /\ DeferEnds) /\ WF_vars(MobileOnly /\ OnlineSignal)
  /\ WF_vars(\E s \in Endpoints : MobileOnly /\ TakeResult(s)) /\ WF_vars(\E s \in Endpoints : MobileOnly /\ OutsideIoExit(s))

Spec == Init /\ [][Next]_vars /\ Fairness

(* Desktop and mobile client connect to what the user prefers among what   *)
(* was seen online, and fail only when nothing is, with the exceptions the *)
(* parts name (find_best_connection, async_lightway_start).                *)
ChoiceSafe ==
  /\ SelectSafe
  /\ MobileSafe

(* A change of network is noticed once, and the socket stays usable        *)
(* through it (network_change_monitor.rs, io/outside/udp.rs).              *)
NetworkSafe ==
  /\ SocketSafe
  /\ MonitorSafe

(* What the client changes on its host it gives back, through aborts,      *)
(* failures and crashes, but for what the parts name: deletes the kernel   *)
(* refused, a route the abort found unrecorded, a resolv.conf that was not *)
(* there before, a DNS value the user had set on the client's own service  *)
(* of a Mac (route_manager.rs, dns_manager.rs).                            *)
HostRestored ==
  /\ RoutesSafe
  /\ DnsSafe

(* A selection or a mobile attempt that has something online ends with the *)
(* wait unless its timer branch was missed, a stop ends the connection, a  *)
(* stranded socket recovers and the listener's thread exits                *)
(* (find_best_connection, async_lightway_start, client(), udp.rs,          *)
(* addr_monitor.rs).                                                       *)
ClientLive ==
  /\ SelectionEnds
  /\ StopEnds
  /\ Recovers
  /\ ThreadExits
  /\ MobilePrefers
  /\ DeferredUsed
=============================================================================
