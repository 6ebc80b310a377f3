------------------------------- MODULE ClientUdp -------------------------------
(***************************************************************************)
(* The client's outside UDP socket.  On Apple platforms it may be connected*)
(* to the server, which pins route and source address: `connected` is what *)
(* the code believes, `association` what the kernel has.  A network change *)
(* strands a pinned socket; the coordinator re-connects it, and a send that*)
(* finds its source address dead falls back to unconnected sends.  Sends   *)
(* and reconnects are steps of one thread.                                 *)
(***************************************************************************)
EXTENDS Naturals

CONSTANTS MaxChanges,    \* bound on network changes
          MaxSwallowed   \* bound on the count of swallowed sends

ASSUME UdpBounds == MaxChanges \in Nat /\ MaxSwallowed \in Nat \ {0}

VARIABLES
  udp,          \* [requested, callback]: connected sends; on_dead_socket is set
  connected,    \* the flag
  association,  \* 0, or the network the kernel has pinned the socket to
  undissolved,  \* udp_disconnect has failed and left it there
  network,      \* the current network, counted from 1
  event,        \* a network-change event is under way to the coordinator
  defunct,      \* iOS has defuncted the connected flow
  dead,         \* the latch of the dead-socket callback
  swallowed,    \* swallowed_sends, up to the bound
  outcome,      \* of the last send: what the TLS layer is told, and why
  fired         \* history: calls of the dead-socket callback

udpVars == <<udp, connected, association, undissolved, network, event, defunct, dead, swallowed, outcome, fired>>

(* Udp::new, then enable_connected_send, whose connect may fail; a later   *)
(* reconnect can still succeed.                                            *)
UdpInit ==
  /\ udp \in [requested : BOOLEAN, callback : BOOLEAN]
  /\ network = 1 /\ association \in (IF udp.requested THEN {0, 1} ELSE {0})
  /\ connected = (association # 0)
  /\ undissolved = FALSE /\ event = FALSE /\ defunct = FALSE /\ dead = FALSE
  /\ swallowed = 0 /\ outcome = [told |-> "none", err |-> "none"] /\ fired = 0

(* The fallback forgets that the kernel still has the association.         *)
DowngradeFlagOnly == connected' = FALSE /\ UNCHANGED <<association, undissolved>>

(* udp_disconnect may fail; the code warns and leaves it at that.          *)
downgrade ==
  /\ connected' = FALSE
  /\ \/ association' = 0 /\ undissolved' = FALSE
     \/ association # 0 /\ undissolved' = TRUE /\ UNCHANGED association

reconnect(ok) ==
  /\ event /\ event' = FALSE
  /\ IF ~udp.requested THEN UNCHANGED <<connected, association, undissolved>>
     ELSE IF ok THEN association' = network /\ connected' = TRUE /\ undissolved' = FALSE
     ELSE downgrade
  /\ UNCHANGED <<udp, network, defunct, dead, swallowed, outcome, fired>>

(* What the kernel can answer a send.                                      *)
Transient == {"Ok", "WouldBlock", "ConnectionRefused", "ENOBUFS", "PermissionDenied"}
Answers ==
  CASE defunct -> {"BrokenPipe"}
    [] ~defunct /\ connected /\ association = 0 -> {"NotConnected"}
    [] ~defunct /\ ~connected /\ association # 0 -> {"EISCONN"}
    [] ~defunct /\ connected /\ association = network -> Transient
    [] ~defunct /\ connected /\ association \notin {0, network} ->
         IF event THEN {"NetworkUnreachable", "HostUnreachable", "AddrNotAvailable"}
         ELSE {"AddrNotAvailable"}
    [] OTHER -> Transient \cup {"NetworkUnreachable"}

(* Errors that TLS is told nothing about: DTLS retransmits the packet.     *)
Swallows(err) ==
  \/ err \in {"ConnectionRefused", "NetworkUnreachable", "ENOBUFS", "PermissionDenied", "AddrNotAvailable"}
  \/ err = "HostUnreachable" /\ connected
  \/ err \in {"NotConnected", "EISCONN"} /\ udp.requested
  \/ err = "BrokenPipe" /\ udp.requested /\ udp.callback

Fires(err) == err = "BrokenPipe" /\ Swallows(err) /\ ~dead

FallsBack(err) == err = "AddrNotAvailable" /\ connected

send(err) ==
  /\ err \in Answers /\ outcome.told # "error"
  /\ outcome' = [told |-> CASE err = "Ok" -> "sent" [] err = "WouldBlock" -> "blocked"
                            [] Swallows(err) -> "swallowed" [] OTHER -> "error", err |-> err]
  /\ swallowed' = IF err = "Ok" THEN 0
                  ELSE IF Swallows(err) /\ swallowed < MaxSwallowed THEN swallowed + 1 ELSE swallowed
  /\ IF Fires(err) THEN dead' = TRUE /\ fired' = fired + 1 ELSE UNCHANGED <<dead, fired>>
  /\ IF FallsBack(err) THEN downgrade ELSE UNCHANGED <<connected, association, undissolved>>
  /\ UNCHANGED <<udp, network, event, defunct>>

(* The world: a transition sends an event; a renewed address does not, and *)
(* on iOS the flow may be defuncted with it.                               *)
NetworkChanges(notified, kills) ==
  /\ network <= MaxChanges /\ network' = network + 1
  /\ event' = (event \/ notified)
  /\ defunct' = (defunct \/ (kills /\ association # 0))
  /\ UNCHANGED <<udp, connected, association, undissolved, dead, swallowed, outcome, fired>>

SendErrors == Transient \cup {"BrokenPipe", "NotConnected", "EISCONN", "NetworkUnreachable",
                              "HostUnreachable", "AddrNotAvailable"}

UdpNext ==
  \/ \E ok \in BOOLEAN : reconnect(ok)
  \/ \E err \in SendErrors : send(err)
  \/ \E notified, kills \in BOOLEAN : NetworkChanges(notified, kills)

UdpSpec == UdpInit /\ [][UdpNext]_udpVars

-----------------------------------------------------------------------------
UdpTypeOK ==
  /\ connected \in BOOLEAN /\ association \in 0 .. network /\ network \in 1 .. MaxChanges + 1
  /\ swallowed \in 0 .. MaxSwallowed /\ outcome.told \in {"none", "sent", "blocked", "swallowed", "error"}

(* What the code believes of the socket is what the kernel has, so no send *)
(* is lost for good to EISCONN or ENOTCONN, but after a failed dissolve.   *)
ModeAgrees == connected <=> (association # 0 /\ ~undissolved)

(* A defunct socket is reported once, and only to a registered callback;   *)
(* without one its error ends the connection rather than vanishing.        *)
DeadReported ==
  /\ fired <= 1 /\ (fired = 1 => udp.callback)
  /\ outcome.err = "BrokenPipe" => (fired = 1 \/ outcome.told = "error")

Stranded == connected /\ association # network /\ ~event /\ ~defunct

(* Sends on a network that changed without notice work again by themselves.*)
Recovers == Stranded ~> ~Stranded

(* The socket is never used in a mode it is not in, and its death is       *)
(* reported once (send, downgrade, reconnect).                             *)
SocketSafe ==
  /\ UdpTypeOK
  /\ ModeAgrees
  /\ DeadReported
=============================================================================
