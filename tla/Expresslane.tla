----------------------------- MODULE Expresslane ------------------------------
(***************************************************************************)
(* The ExpressLane control protocol between the two ends of a datagram     *)
(* connection, and the keys the data plane uses.  Each end stages a fresh  *)
(* self key, shares it in an ExpresslaneConfig frame over DTLS, retransmits*)
(* on a timer, and encrypts with the key once the peer acknowledges it.    *)
(* The receiver keeps the peer's current key and the one before.           *)
(*                                                                         *)
(* Both ends are Online throughout (set_state(Online) calls                *)
(* rotate_expresslane_key, which is the first Rotate).  DTLS loses and     *)
(* reorders datagrams but discards replays, so every transmission is a     *)
(* message of its own: `copy` tells the transmissions of one config apart. *)
(*                                                                         *)
(* A key is the counter of the config that shares it: both ends draw fresh *)
(* random keys, and self keys are never compared with peer keys.  INVALID  *)
(* is the all-zero key; an empty current_self, current_peer or prev_peer   *)
(* slot behaves like one that holds INVALID and is represented by it.  The *)
(* flags has_self and has_peer are `key # INVALID`.                        *)
(***************************************************************************)
EXTENDS Naturals, FiniteSets

CONSTANTS
  Endpoints,     \* the two ends
  Client,        \* the one that speaks first
  Enabled,       \* ends whose configuration enables ExpressLane
  MaxVersion,    \* MaxVersion[e]: ExpresslaneVersion::MAX of e's build
  KeyOutcomes,   \* results update_*_key may have: {TRUE}, or BOOLEAN when the AEAD may fail
  MayDegrade,    \* ends whose health check may find the path bad
  MaxRetransmit, \* MAX_RETRANSMISSION_ATTEMPTS
  Timely,        \* the retransmission timer outlasts a round trip, the rotation interval a retry cycle
  MaxCounter,    \* bound: MaxCounter[e] configs of e
  MaxElapsed,    \* bound: rotation intervals that elapse
  MaxLost,       \* bound: control messages lost
  MaxData,       \* bound: data packets in flight
  None           \* an empty Option

ASSUME EndpointAssumption ==
  /\ Client \in Endpoints /\ Enabled \subseteq Endpoints /\ MayDegrade \subseteq Endpoints
  /\ \E s \in Endpoints : s # Client /\ Endpoints = {Client, s}
  /\ MaxVersion \in [Endpoints -> 1..2]
  /\ KeyOutcomes \subseteq BOOLEAN
  /\ Timely \in BOOLEAN
  /\ MaxCounter \in [Endpoints -> Nat] /\ MaxRetransmit \in Nat /\ MaxElapsed \in Nat /\ MaxLost \in Nat
  /\ MaxData \in Nat
  /\ None \notin Nat

VARIABLES
  ep,        \* ep[e]: the Expresslane struct of e and the key slots of its session
  ticks,     \* ticks[e]: configs e has scheduled an ExpresslaneKeyShareTick for
  msgs,      \* ExpresslaneConfig frames in flight
  data,      \* ExpressLane data packets in flight
  installed, \* installed[e]: peer keys e has ever installed (history)
  elapsed,   \* rotation intervals elapsed so far
  lost       \* control messages lost so far

vars == <<ep, ticks, msgs, data, installed, elapsed, lost>>

Peer(e) == CHOOSE p \in Endpoints : p # e

INVALID == 0
Keys == Nat
Versions == 0..2                     \* 0 is ExpresslaneVersion::Unknown
ExpresslaneState == {"Disabled", "WaitingForClient", "Inactive", "Active", "Degraded"}

EndpointState ==
  [state : ExpresslaneState,
   config_counter : Keys,
   retransmit_count : 0..MaxRetransmit,
   gate : BOOLEAN,                   \* time_to_rotate_key()
   current_self : Keys, next_self : Keys \cup {None},
   current_peer : Keys, prev_peer : Keys,
   version : Versions,
   sent : BOOLEAN]                   \* packets_sent() > 0

Config == [counter : Keys, key : Keys, enabled : BOOLEAN, version : Versions]
Frame == [to : Endpoints, ack : BOOLEAN, copy : 0..MaxRetransmit, config : Config]
DataPacket == [to : Endpoints, key : Keys, version : Versions]

-----------------------------------------------------------------------------
supported(s) == s.state \notin {"Disabled", "WaitingForClient"}
has_valid_keys(s) == s.current_self # INVALID /\ s.current_peer # INVALID
ready(s) == s.state = "Active" /\ has_valid_keys(s)

NegotiateOwn(e, v) == MaxVersion[e]                                   \* mutant

(* A version byte above the build's MAX reads as Unknown, and Unknown      *)
(* resolves to MAX.                                                        *)
negotiate_version(e, v) == IF v = 0 \/ v > MaxVersion[e] THEN MaxVersion[e] ELSE v

OutgoingVersion(e, s) == IF s.version = 0 THEN MaxVersion[e] ELSE s.version

(* set_version is refused once a data packet has been sent.                *)
AdoptVersion(e, s, v) ==
  IF s.sent THEN s ELSE [s EXCEPT !.version = negotiate_version(e, v)]

(* update_next_self_key(key), config_counter += 1, retransmit_count = 0:   *)
(* shared by rotation and degradation.                                     *)
Staged(s, key, ok) ==
  [s EXCEPT !.config_counter = @ + 1,
            !.next_self = IF ok THEN key ELSE @,
            !.retransmit_count = 0]

ConfigFrame(e, cfg, ack, copy) == [to |-> Peer(e), ack |-> ack, copy |-> copy, config |-> cfg]

(* rotate_expresslane_key does something.                                  *)
CanRotate(e, s) == /\ supported(s)
                   /\ s.state # "Degraded"
                   /\ s.gate
                   /\ s.config_counter < MaxCounter[e]

Rotated(e, s, ok) == IF CanRotate(e, s)
                     THEN [Staged(s, s.config_counter + 1, ok) EXCEPT !.gate = FALSE]
                     ELSE s

(* The config it shares, {} when it does nothing.                          *)
RotateConfig(e, s, ok) ==
  IF CanRotate(e, s)
  THEN {[counter |-> s.config_counter + 1, key |-> s.config_counter + 1,
         enabled |-> ok, version |-> OutgoingVersion(e, s)]}
  ELSE {}

-----------------------------------------------------------------------------
InitialState(e) ==
  IF e \notin Enabled THEN "Disabled"
  ELSE IF e = Client THEN "Inactive" ELSE "WaitingForClient"

Init ==
  /\ ep = [e \in Endpoints |->
             [state |-> InitialState(e), config_counter |-> 0, retransmit_count |-> 0,
              gate |-> TRUE, current_self |-> INVALID, next_self |-> None,
              current_peer |-> INVALID, prev_peer |-> INVALID, version |-> 0, sent |-> FALSE]]
  /\ ticks = [e \in Endpoints |-> {}]
  /\ msgs = {} /\ data = {}
  /\ installed = [e \in Endpoints |-> {}]
  /\ elapsed = 0 /\ lost = 0

(* An inside packet, offloaded traffic or going Online triggers rotation.  *)
Rotate(e) ==
  /\ CanRotate(e, ep[e])
  /\ \E ok \in KeyOutcomes : \E cfg \in RotateConfig(e, ep[e], ok) :
       /\ ep' = [ep EXCEPT ![e] = Rotated(e, @, ok)]
       /\ msgs' = msgs \cup {ConfigFrame(e, cfg, FALSE, 0)}
       /\ ticks' = [ticks EXCEPT ![e] = @ \cup {cfg}]
  /\ UNCHANGED <<data, installed, elapsed, lost>>

(* The rotation interval since last_key_rotation passes.                   *)
IntervalElapses(e) ==
  /\ ~ep[e].gate
  /\ elapsed < MaxElapsed
  /\ Timely => ticks[e] = {}
  /\ ep' = [ep EXCEPT ![e].gate = TRUE]
  /\ elapsed' = elapsed + 1
  /\ UNCHANGED <<ticks, msgs, data, installed, lost>>

(* expresslane_key_share_tick: nothing to do for a stale or acknowledged   *)
(* config.                                                                 *)
Settled(s, cfg) == \/ ~supported(s)
                   \/ cfg.counter # s.config_counter
                   \/ cfg.key = s.current_self

TickDue(e, cfg) ==
  /\ cfg \in ticks[e]
  /\ Timely => \A m \in msgs : m.config.counter = cfg.counter => m.ack = (m.to # e)

TickSettled(e, cfg) ==
  /\ TickDue(e, cfg)
  /\ Settled(ep[e], cfg)
  /\ ticks' = [ticks EXCEPT ![e] = @ \ {cfg}]
  /\ UNCHANGED <<ep, msgs, data, installed, elapsed, lost>>

ExhaustedKeepsStamp(e, cfg) ==                         \* mutant: recovery waits a whole interval
  /\ TickDue(e, cfg)
  /\ ~Settled(ep[e], cfg)
  /\ ep[e].retransmit_count >= MaxRetransmit
  /\ ep' = [ep EXCEPT ![e].state = IF @ = "Degraded" THEN @ ELSE "Inactive"]
  /\ ticks' = [ticks EXCEPT ![e] = @ \ {cfg}]
  /\ UNCHANGED <<msgs, data, installed, elapsed, lost>>

(* The retransmission budget is spent: fall back to DTLS and reopen the    *)
(* rotation gate, unless Degraded, which is terminal.                      *)
TickExhausted(e, cfg) ==
  /\ TickDue(e, cfg)
  /\ ~Settled(ep[e], cfg)
  /\ ep[e].retransmit_count >= MaxRetransmit
  /\ ep' = IF ep[e].state = "Degraded" THEN ep
           ELSE [ep EXCEPT ![e].state = "Inactive", ![e].gate = TRUE]
  /\ ticks' = [ticks EXCEPT ![e] = @ \ {cfg}]
  /\ UNCHANGED <<msgs, data, installed, elapsed, lost>>

TickRetransmit(e, cfg) ==
  /\ TickDue(e, cfg)
  /\ ~Settled(ep[e], cfg)
  /\ ep[e].retransmit_count < MaxRetransmit
  /\ ep' = [ep EXCEPT ![e].retransmit_count = @ + 1]
  /\ msgs' = msgs \cup {ConfigFrame(e, cfg, FALSE, ep[e].retransmit_count + 1)}
  /\ UNCHANGED <<ticks, data, installed, elapsed, lost>>

-----------------------------------------------------------------------------
Promoted(s) == IF s.next_self = None THEN s
               ELSE [s EXCEPT !.current_self = s.next_self, !.next_self = None]

AckReactivates(s) ==                                   \* mutant: drops the Degraded check
  LET p == [Promoted(s) EXCEPT !.retransmit_count = 0] IN
  IF has_valid_keys(p) THEN [p EXCEPT !.state = "Active"] ELSE p

(* The ack of the latest config: promote_self_key, reset the budget,       *)
(* activate.                                                               *)
AckedState(s) ==
  LET p == [Promoted(s) EXCEPT !.retransmit_count = 0] IN
  IF p.state # "Degraded" /\ has_valid_keys(p) THEN [p EXCEPT !.state = "Active"] ELSE p

HandleAnyAck(e, m) ==                                  \* mutant: the counter is not compared
  /\ m \in msgs /\ m.to = e /\ m.ack
  /\ ep' = [ep EXCEPT ![e] = AckedState(AdoptVersion(e, @, m.config.version))]
  /\ msgs' = msgs \ {m}
  /\ UNCHANGED <<ticks, data, installed, elapsed, lost>>

(* handle_expresslane_config for an acknowledgement.                       *)
HandleAck(e, m) ==
  /\ m \in msgs /\ m.to = e /\ m.ack
  /\ LET s == AdoptVersion(e, ep[e], m.config.version) IN
     ep' = [ep EXCEPT ![e] = IF m.config.counter = s.config_counter THEN AckedState(s) ELSE s]
  /\ msgs' = msgs \ {m}
  /\ UNCHANGED <<ticks, data, installed, elapsed, lost>>

(* A degraded end ignores the peer's configs and sends no ack.             *)
HandleConfigDegraded(e, m) ==
  /\ m \in msgs /\ m.to = e /\ ~m.ack
  /\ ep[e].state = "Degraded"
  /\ ep' = [ep EXCEPT ![e] = AdoptVersion(e, @, m.config.version)]
  /\ msgs' = msgs \ {m}
  /\ UNCHANGED <<ticks, data, installed, elapsed, lost>>

ForgetsGrace(s, key) ==                                \* mutant: the previous key is not kept
  LET p == [s EXCEPT !.prev_peer = INVALID, !.current_peer = key] IN
  IF has_valid_keys(p) THEN [p EXCEPT !.state = "Active"] ELSE p

(* The key share of the peer: update_peer_key keeps the previous key, and  *)
(* the end is Active once both directions have keys.                       *)
PeerKeyState(s, key) ==
  LET p == [s EXCEPT !.prev_peer = s.current_peer, !.current_peer = key] IN
  IF has_valid_keys(p) THEN [p EXCEPT !.state = "Active"] ELSE p

(* WaitingForClient ends with the first config.                            *)
Woken(s) == IF s.state = "WaitingForClient" THEN [s EXCEPT !.state = "Inactive"] ELSE s

(* The acknowledgement, then our own key share if it is due.               *)
AckAndRotate(e, m, s) ==
  \E ok \in KeyOutcomes :
    LET ack == [m.config EXCEPT !.version = s.version]
        own == RotateConfig(e, s, ok)
    IN /\ ep' = [ep EXCEPT ![e] = Rotated(e, s, ok)]
       /\ msgs' = (msgs \ {m}) \cup {ConfigFrame(e, ack, TRUE, m.copy)}
                   \cup {ConfigFrame(e, cfg, FALSE, 0) : cfg \in own}
       /\ ticks' = [ticks EXCEPT ![e] = @ \cup own]

HandleConfigEnabled(e, m) ==
  /\ m \in msgs /\ m.to = e /\ ~m.ack
  /\ ep[e].state # "Degraded"
  /\ m.config.enabled
  /\ AckAndRotate(e, m, PeerKeyState(Woken(AdoptVersion(e, ep[e], m.config.version)),
                                     m.config.key))
  /\ installed' = [installed EXCEPT ![e] = @ \cup {m.config.key}]
  /\ UNCHANGED <<data, elapsed, lost>>

(* update_peer_key fails: the handler returns before acknowledging.        *)
HandleConfigKeyFails(e, m) ==
  /\ FALSE \in KeyOutcomes
  /\ m \in msgs /\ m.to = e /\ ~m.ack
  /\ ep[e].state # "Degraded"
  /\ m.config.enabled
  /\ ep' = [ep EXCEPT ![e] = Woken(AdoptVersion(e, @, m.config.version))]
  /\ msgs' = msgs \ {m}
  /\ UNCHANGED <<ticks, data, installed, elapsed, lost>>

HandleConfigDisabled(e, m) ==
  /\ m \in msgs /\ m.to = e /\ ~m.ack
  /\ ep[e].state # "Degraded"
  /\ ~m.config.enabled
  /\ AckAndRotate(e, m, [AdoptVersion(e, ep[e], m.config.version) EXCEPT !.state = "Inactive"])
  /\ UNCHANGED <<data, installed, elapsed, lost>>

(* check_expresslane_health gives up on the path: set_expresslane_degraded *)
(* stages INVALID and notifies the peer, with the retry logic of rotation. *)
Degrade(e) ==
  /\ e \in MayDegrade
  /\ ready(ep[e])
  /\ ep[e].config_counter < MaxCounter[e]
  /\ \E ok \in KeyOutcomes :
       LET notice == [counter |-> ep[e].config_counter + 1, key |-> INVALID,
                      enabled |-> FALSE, version |-> OutgoingVersion(e, ep[e])]
       IN /\ ep' = [ep EXCEPT ![e] = [Staged(@, INVALID, ok) EXCEPT !.state = "Degraded"]]
          /\ msgs' = msgs \cup {ConfigFrame(e, notice, FALSE, 0)}
          /\ ticks' = [ticks EXCEPT ![e] = @ \cup {notice}]
  /\ UNCHANGED <<data, installed, elapsed, lost>>

-----------------------------------------------------------------------------
(* send_expresslane_data: seal under current_self and the version's AAD.   *)
SendData(e) ==
  /\ ready(ep[e])
  /\ Cardinality(data) < MaxData
  /\ ep' = [ep EXCEPT ![e].sent = TRUE]
  /\ data' = data \cup {[to |-> Peer(e), key |-> ep[e].current_self,
                          version |-> ep[e].version]}
  /\ UNCHANGED <<ticks, msgs, installed, elapsed, lost>>

(* try_from_wire opens p with the current peer key, or else the previous.  *)
Opens(s, p) == /\ s.current_peer # INVALID
               /\ p.version = s.version
               /\ p.key \in {s.current_peer, s.prev_peer} \ {INVALID}

(* A data packet arrives, or is lost.  Receiving one is not gated on the   *)
(* state and changes nothing here.                                         *)
DataLeaves(p) ==
  /\ p \in data
  /\ data' = data \ {p}
  /\ UNCHANGED <<ep, ticks, msgs, installed, elapsed, lost>>

(* The network, or a full send queue, drops a control frame.               *)
Lose(m) ==
  /\ m \in msgs
  /\ lost < MaxLost
  /\ msgs' = msgs \ {m}
  /\ lost' = lost + 1
  /\ UNCHANGED <<ep, ticks, data, installed, elapsed>>

Receive(e) ==
  \E m \in msgs : \/ HandleAck(e, m)
                  \/ HandleConfigDegraded(e, m)
                  \/ HandleConfigEnabled(e, m)
                  \/ HandleConfigKeyFails(e, m)
                  \/ HandleConfigDisabled(e, m)

Tick(e) ==
  \E cfg \in ticks[e] : \/ TickSettled(e, cfg)
                         \/ TickExhausted(e, cfg)
                         \/ TickRetransmit(e, cfg)

Next ==
  \/ \E e \in Endpoints : \/ Rotate(e)
                          \/ IntervalElapses(e)
                          \/ Tick(e)
                          \/ Receive(e)
                          \/ Degrade(e)
                          \/ SendData(e)
  \/ \E p \in data : DataLeaves(p)
  \/ \E m \in msgs : Lose(m)

Spec == Init /\ [][Next]_vars

(* Timers run, handlers run, and traffic keeps asking for rotation.  No    *)
(* fairness for losses, intervals, health verdicts or data.                *)
FairSpec == /\ Spec
            /\ \A e \in Endpoints : /\ WF_vars(Rotate(e))
                                    /\ WF_vars(Tick(e))
                                    /\ WF_vars(Receive(e))

-----------------------------------------------------------------------------
(* Both ends, the frames, ticks and packets under way have their types     *)
(* (connection/expresslane.rs).                                            *)
TypeOK ==
  /\ ep \in [Endpoints -> EndpointState]
  /\ ticks \in [Endpoints -> SUBSET Config]
  /\ msgs \subseteq Frame
  /\ data \subseteq DataPacket
  /\ installed \in [Endpoints -> SUBSET Keys]
  /\ elapsed \in 0..MaxElapsed /\ lost \in 0..MaxLost

(* An end encrypts only with a key its peer has installed: acks of older   *)
(* configs, late and duplicated ones included, never promote a key the     *)
(* peer has not seen (connection.rs: "Only after peer acknowledged, update *)
(* it"), and no data packet travels under any other key.                   *)
PromotedWasInstalled ==
  /\ \A e \in Endpoints :
       ep[e].current_self # INVALID => ep[e].current_self \in installed[Peer(e)]
  /\ \A p \in data : p.key \in installed[p.to]

(* Degraded is terminal for the session.                                   *)
DegradedIsTerminal ==
  [][\A e \in Endpoints : ep[e].state = "Degraded" => ep'[e].state = "Degraded"]_vars

(* Both ends bind the same AAD layout: a data packet in flight carries the *)
(* version its receiver has in force, for builds of different MAX too.     *)
VersionAgreed == \A p \in data : p.version = ep[p.to].version

(* docs/expresslane.md: "seamless key rotation without packet loss".  While*)
(* the timers outlast a round trip, a packet under the key its sender is   *)
(* using can be opened, through every loss and delay of configs and acks,  *)
(* unless the rotation under way had to be retransmitted (update_peer_key  *)
(* then shifts the new key into the slot of the grace key) or an earlier   *)
(* one was abandoned.                                                      *)
GraceKept ==
  Timely => \A p \in data :
    LET s == ep[Peer(p.to)] IN
    p.key = s.current_self => \/ Opens(ep[p.to], p)
                              \/ s.retransmit_count > 0
                              \/ s.config_counter > s.current_self + 1

(* With finitely many losses and both ends enabled, the exchange settles:  *)
(* both ends Active, each sending under a key the other holds.             *)
Settles ==
  <>[](\A e \in Endpoints :
         /\ ready(ep[e])
         /\ ep[e].next_self = None
         /\ ep[e].current_self = ep[Peer(e)].current_peer)
=============================================================================
