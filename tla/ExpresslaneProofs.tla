--------------------------- MODULE ExpresslaneProofs --------------------------
(***************************************************************************)
(* For any retransmission budget, any number of rotations and losses and   *)
(* any pair of builds: types, that Degraded is terminal, that data carries *)
(* the version its receiver has, and - while the AEAD accepts keys - that  *)
(* an end encrypts only with a key its peer has installed, and that the    *)
(* peer still holds it through a rotation.                                 *)
(***************************************************************************)
EXTENDS Expresslane, FiniteSetTheorems, TLAPS

(* There are exactly two ends.                                             *)
LEMMA PeerFacts ==
  ASSUME NEW e \in Endpoints
  PROVE  /\ Peer(e) \in Endpoints
         /\ Peer(e) # e
         /\ Peer(Peer(e)) = e
         /\ \A x \in Endpoints : x # e => x = Peer(e)
<1>1. PICK s \in Endpoints : s # Client /\ Endpoints = {Client, s}
  BY EndpointAssumption
<1>2. \A x \in Endpoints : \E y \in Endpoints : y # x
  BY <1>1, EndpointAssumption
<1>3. \A x \in Endpoints : Peer(x) \in Endpoints /\ Peer(x) # x
  BY <1>2 DEF Peer
<1> QED
  BY <1>1, <1>3

-----------------------------------------------------------------------------
(* What the helpers on endpoint states return.                             *)
LEMMA AdoptVersionType ==
  ASSUME NEW e \in Endpoints, NEW s \in EndpointState, NEW v \in Versions
  PROVE  /\ AdoptVersion(e, s, v) \in EndpointState
         /\ AdoptVersion(e, s, v) = [s EXCEPT !.version = AdoptVersion(e, s, v).version]
<1>1. negotiate_version(e, v) \in Versions
  BY EndpointAssumption DEF negotiate_version, Versions
<1> QED
  BY <1>1 DEF AdoptVersion, EndpointState

LEMMA StagedType ==
  ASSUME NEW s \in EndpointState, NEW key \in Keys, NEW ok \in BOOLEAN
  PROVE  Staged(s, key, ok) \in EndpointState
<1> DEFINE n == IF ok THEN key ELSE s.next_self
<1>1. n \in Keys \cup {None}
  BY DEF EndpointState
<1>2. Staged(s, key, ok) = [s EXCEPT !.config_counter = s.config_counter + 1,
                                     !.next_self = n, !.retransmit_count = 0]
  BY DEF Staged
<1> HIDE DEF n
<1>3. 0 \in 0..MaxRetransmit
  BY EndpointAssumption
<1>4. s.config_counter + 1 \in Keys
  BY DEF EndpointState, Keys
<1>5. ASSUME NEW c \in Keys, NEW r \in 0..MaxRetransmit, NEW x \in Keys \cup {None}
      PROVE  [s EXCEPT !.config_counter = c, !.next_self = x, !.retransmit_count = r]
               \in EndpointState
  BY DEF EndpointState
<1> QED
  BY <1>1, <1>2, <1>3, <1>4, <1>5

LEMMA RotatedType ==
  ASSUME NEW e \in Endpoints, NEW s \in EndpointState, NEW ok \in BOOLEAN
  PROVE  /\ Rotated(e, s, ok) \in EndpointState
         /\ RotateConfig(e, s, ok) \subseteq Config
<1>1. s.config_counter + 1 \in Keys
  BY DEF EndpointState, Keys
<1>2. Staged(s, s.config_counter + 1, ok) \in EndpointState
  BY <1>1, StagedType
<1>3. Rotated(e, s, ok) \in EndpointState
  BY <1>2 DEF Rotated, EndpointState
<1>4. OutgoingVersion(e, s) \in Versions
  BY EndpointAssumption DEF OutgoingVersion, Versions, EndpointState
<1>5. RotateConfig(e, s, ok) \subseteq Config
  BY <1>1, <1>4 DEF RotateConfig, Config
<1> QED
  BY <1>3, <1>5

LEMMA FrameType ==
  ASSUME NEW e \in Endpoints, NEW cfg \in Config, NEW ack \in BOOLEAN, NEW c \in 0..MaxRetransmit
  PROVE  ConfigFrame(e, cfg, ack, c) \in Frame
BY PeerFacts DEF ConfigFrame, Frame

LEMMA AckedType ==
  ASSUME NEW s \in EndpointState
  PROVE  AckedState(s) \in EndpointState
<1>1. Promoted(s) \in EndpointState
  BY DEF Promoted, EndpointState
<1>2. [Promoted(s) EXCEPT !.retransmit_count = 0] \in EndpointState
  BY <1>1, EndpointAssumption DEF EndpointState
<1> QED
  BY <1>2 DEF AckedState, EndpointState, ExpresslaneState

LEMMA PeerKeyType ==
  ASSUME NEW s \in EndpointState, NEW key \in Keys
  PROVE  PeerKeyState(s, key) \in EndpointState
BY DEF PeerKeyState, EndpointState, ExpresslaneState

LEMMA WokenType ==
  ASSUME NEW s \in EndpointState
  PROVE  Woken(s) \in EndpointState
BY DEF Woken, EndpointState, ExpresslaneState

-----------------------------------------------------------------------------
LEMMA InitType == Init => TypeOK
<1> SUFFICES ASSUME Init PROVE TypeOK
  OBVIOUS
<1>1. ASSUME NEW e \in Endpoints PROVE ep[e] \in EndpointState
  <2>1. InitialState(e) \in ExpresslaneState
    BY DEF InitialState, ExpresslaneState
  <2>2. 0 \in 0..MaxRetransmit
    BY EndpointAssumption
  <2> QED
    BY <2>1, <2>2 DEF Init, EndpointState, Keys, INVALID, Versions
<1>2. ep \in [Endpoints -> EndpointState]
  BY <1>1 DEF Init
<1> QED
  BY <1>2, EndpointAssumption DEF Init, TypeOK

(* Every handler that answers a config keeps the types, whatever state the *)
(* config itself has left.                                                 *)
LEMMA AckAndRotateType ==
  ASSUME TypeOK, NEW e \in Endpoints, NEW m \in msgs, NEW s \in EndpointState,
         AckAndRotate(e, m, s)
  PROVE  /\ ep' \in [Endpoints -> EndpointState]
         /\ ticks' \in [Endpoints -> SUBSET Config]
         /\ msgs' \subseteq Frame
<1>1. PICK ok \in KeyOutcomes :
        LET ack == [m.config EXCEPT !.version = s.version]
            own == RotateConfig(e, s, ok)
        IN /\ ep' = [ep EXCEPT ![e] = Rotated(e, s, ok)]
           /\ msgs' = (msgs \ {m}) \cup {ConfigFrame(e, ack, TRUE, m.copy)}
                       \cup {ConfigFrame(e, cfg, FALSE, 0) : cfg \in own}
           /\ ticks' = [ticks EXCEPT ![e] = @ \cup own]
  BY DEF AckAndRotate
<1>2. ok \in BOOLEAN
  BY EndpointAssumption
<1> DEFINE ack == [m.config EXCEPT !.version = s.version]
           own == RotateConfig(e, s, ok)
<1>3. Rotated(e, s, ok) \in EndpointState /\ own \subseteq Config
  BY <1>2, RotatedType
<1>4. m \in Frame
  BY DEF TypeOK
<1>5. ack \in Config /\ m.copy \in 0..MaxRetransmit /\ 0 \in 0..MaxRetransmit
  BY <1>4, EndpointAssumption DEF Frame, Config, EndpointState
<1>6. /\ ep' = [ep EXCEPT ![e] = Rotated(e, s, ok)]
      /\ msgs' = (msgs \ {m}) \cup {ConfigFrame(e, ack, TRUE, m.copy)}
                  \cup {ConfigFrame(e, cfg, FALSE, 0) : cfg \in own}
      /\ ticks' = [ticks EXCEPT ![e] = @ \cup own]
  BY <1>1
<1> HIDE DEF ack, own
<1>7. ConfigFrame(e, ack, TRUE, m.copy) \in Frame
  BY <1>5, FrameType
<1>8. \A cfg \in own : ConfigFrame(e, cfg, FALSE, 0) \in Frame
  BY <1>3, <1>5, FrameType
<1> QED
  BY <1>3, <1>6, <1>7, <1>8 DEF TypeOK

LEMMA NextType == TypeOK /\ [Next]_vars => TypeOK'
<1> SUFFICES ASSUME TypeOK, [Next]_vars PROVE TypeOK'
  OBVIOUS
<1>1. CASE UNCHANGED vars
  BY <1>1 DEF vars, TypeOK
<1>2. ASSUME NEW e \in Endpoints, Rotate(e) PROVE TypeOK'
  <2>1. PICK ok \in KeyOutcomes : \E cfg \in RotateConfig(e, ep[e], ok) :
          /\ ep' = [ep EXCEPT ![e] = Rotated(e, ep[e], ok)]
          /\ msgs' = msgs \cup {ConfigFrame(e, cfg, FALSE, 0)}
          /\ ticks' = [ticks EXCEPT ![e] = @ \cup {cfg}]
    BY <1>2 DEF Rotate
  <2>2. ok \in BOOLEAN /\ ep[e] \in EndpointState /\ 0 \in 0..MaxRetransmit
    BY EndpointAssumption DEF TypeOK
  <2>3. PICK cfg \in RotateConfig(e, ep[e], ok) :
          /\ ep' = [ep EXCEPT ![e] = Rotated(e, ep[e], ok)]
          /\ msgs' = msgs \cup {ConfigFrame(e, cfg, FALSE, 0)}
          /\ ticks' = [ticks EXCEPT ![e] = @ \cup {cfg}]
    BY <2>1
  <2>4. cfg \in Config /\ Rotated(e, ep[e], ok) \in EndpointState
    BY <2>2, RotatedType
  <2>5. ConfigFrame(e, cfg, FALSE, 0) \in Frame
    BY <2>2, <2>4, FrameType
  <2> QED
    BY <1>2, <2>3, <2>4, <2>5 DEF TypeOK, Rotate
<1>3. ASSUME NEW e \in Endpoints, IntervalElapses(e) PROVE TypeOK'
  <2>1. [ep[e] EXCEPT !.gate = TRUE] \in EndpointState
    BY DEF TypeOK, EndpointState
  <2>2. ep' = [ep EXCEPT ![e] = [ep[e] EXCEPT !.gate = TRUE]]
    BY <1>3 DEF IntervalElapses, TypeOK
  <2>3. elapsed' \in 0..MaxElapsed
    BY <1>3, EndpointAssumption DEF IntervalElapses, TypeOK
  <2> QED
    BY <1>3, <2>1, <2>2, <2>3 DEF IntervalElapses, TypeOK
<1>4. ASSUME NEW e \in Endpoints, NEW cfg \in ticks[e], TickSettled(e, cfg) PROVE TypeOK'
  BY <1>4 DEF TickSettled, TypeOK
<1>5. ASSUME NEW e \in Endpoints, NEW cfg \in ticks[e], TickExhausted(e, cfg) PROVE TypeOK'
  <2>1. [ep[e] EXCEPT !.state = "Inactive", !.gate = TRUE] \in EndpointState
    BY ZenonT(40) DEF TypeOK, EndpointState, ExpresslaneState
  <2>2. \/ ep' = ep
        \/ ep' = [ep EXCEPT ![e] = [ep[e] EXCEPT !.state = "Inactive", !.gate = TRUE]]
    BY <1>5 DEF TickExhausted, TypeOK
  <2>3. ep' \in [Endpoints -> EndpointState]
    BY <2>1, <2>2 DEF TypeOK
  <2> QED
    BY <1>5, <2>3 DEF TickExhausted, TypeOK
<1>6. ASSUME NEW e \in Endpoints, NEW cfg \in ticks[e], TickRetransmit(e, cfg) PROVE TypeOK'
  <2>1. /\ cfg \in Config
        /\ ep[e].retransmit_count + 1 \in 0..MaxRetransmit
    BY <1>6, EndpointAssumption DEF TickRetransmit, TypeOK, EndpointState
  <2>2. ConfigFrame(e, cfg, FALSE, ep[e].retransmit_count + 1) \in Frame
    BY <2>1, FrameType
  <2>3. [ep[e] EXCEPT !.retransmit_count = @ + 1] \in EndpointState
    BY <2>1 DEF TypeOK, EndpointState
  <2>4. ep' = [ep EXCEPT ![e] = [ep[e] EXCEPT !.retransmit_count = @ + 1]]
    BY <1>6 DEF TickRetransmit, TypeOK
  <2> QED
    BY <1>6, <2>2, <2>3, <2>4 DEF TickRetransmit, TypeOK
<1>7. ASSUME NEW e \in Endpoints, Degrade(e) PROVE TypeOK'
  <2> DEFINE notice == [counter |-> ep[e].config_counter + 1, key |-> INVALID,
                        enabled |-> FALSE, version |-> OutgoingVersion(e, ep[e])]
  <2>1. PICK ok \in KeyOutcomes :
          /\ ep' = [ep EXCEPT ![e] = [Staged(ep[e], INVALID, ok) EXCEPT !.state = "Degraded"]]
          /\ msgs' = msgs \cup {ConfigFrame(e, notice, FALSE, 0)}
          /\ ticks' = [ticks EXCEPT ![e] = @ \cup {notice}]
    BY <1>7 DEF Degrade
  <2>2. ok \in BOOLEAN /\ ep[e] \in EndpointState /\ INVALID \in Keys /\ 0 \in 0..MaxRetransmit
    BY EndpointAssumption DEF TypeOK, INVALID, Keys
  <2>3. [Staged(ep[e], INVALID, ok) EXCEPT !.state = "Degraded"] \in EndpointState
    BY <2>2, StagedType DEF EndpointState, ExpresslaneState
  <2>4. OutgoingVersion(e, ep[e]) \in Versions /\ ep[e].config_counter + 1 \in Keys
    BY <2>2, EndpointAssumption DEF OutgoingVersion, Versions, EndpointState, Keys
  <2>5. notice \in Config
    BY <2>2, <2>4 DEF Config
  <2> HIDE DEF notice
  <2>6. ConfigFrame(e, notice, FALSE, 0) \in Frame
    BY <2>2, <2>5, FrameType
  <2> QED
    BY <1>7, <2>1, <2>3, <2>5, <2>6 DEF TypeOK, Degrade
<1>8. ASSUME NEW e \in Endpoints, SendData(e) PROVE TypeOK'
  <2>1. [ep[e] EXCEPT !.sent = TRUE] \in EndpointState
    BY DEF TypeOK, EndpointState
  <2>2. ep' = [ep EXCEPT ![e] = [ep[e] EXCEPT !.sent = TRUE]]
    BY <1>8 DEF SendData, TypeOK
  <2>3. [to |-> Peer(e), key |-> ep[e].current_self, version |-> ep[e].version] \in DataPacket
    BY PeerFacts DEF TypeOK, EndpointState, DataPacket
  <2> QED
    BY <1>8, <2>1, <2>2, <2>3 DEF SendData, TypeOK
<1>9. ASSUME NEW e \in Endpoints, NEW m \in msgs,
             \/ HandleAck(e, m) \/ HandleConfigDegraded(e, m) \/ HandleConfigEnabled(e, m)
             \/ HandleConfigKeyFails(e, m) \/ HandleConfigDisabled(e, m)
      PROVE TypeOK'
  <2> DEFINE s == AdoptVersion(e, ep[e], m.config.version)
  <2>1. m \in Frame /\ m.config.version \in Versions /\ m.config.key \in Keys
    BY DEF TypeOK, Frame, Config
  <2>2. ep[e] \in EndpointState
    BY DEF TypeOK
  <2>3. s \in EndpointState
    BY <2>1, <2>2, AdoptVersionType
  <2>4. Woken(s) \in EndpointState
    BY <2>3, WokenType
  <2>5. CASE HandleAck(e, m)
    <3>1. AckedState(s) \in EndpointState
      BY <2>3, AckedType
    <3>2. ep' = [ep EXCEPT ![e] = IF m.config.counter = s.config_counter THEN AckedState(s) ELSE s]
      BY <2>5 DEF HandleAck
    <3> HIDE DEF s
    <3> QED
      BY <2>3, <2>5, <3>1, <3>2 DEF HandleAck, TypeOK
  <2>6. CASE HandleConfigDegraded(e, m)
    <3>1. ep' = [ep EXCEPT ![e] = s]
      BY <2>6 DEF HandleConfigDegraded, TypeOK
    <3> HIDE DEF s
    <3> QED
      BY <2>3, <2>6, <3>1 DEF HandleConfigDegraded, TypeOK
  <2>7. CASE HandleConfigKeyFails(e, m)
    <3>1. ep' = [ep EXCEPT ![e] = Woken(s)]
      BY <2>7 DEF HandleConfigKeyFails, TypeOK
    <3> HIDE DEF s
    <3> QED
      BY <2>4, <2>7, <3>1 DEF HandleConfigKeyFails, TypeOK
  <2>8. CASE HandleConfigEnabled(e, m)
    <3>1. PeerKeyState(Woken(s), m.config.key) \in EndpointState
      BY <2>1, <2>4, PeerKeyType
    <3>2. AckAndRotate(e, m, PeerKeyState(Woken(s), m.config.key))
      BY <2>8 DEF HandleConfigEnabled
    <3> HIDE DEF s
    <3>3. /\ ep' \in [Endpoints -> EndpointState]
          /\ ticks' \in [Endpoints -> SUBSET Config]
          /\ msgs' \subseteq Frame
      BY <3>1, <3>2, AckAndRotateType
    <3> QED
      BY <2>1, <2>8, <3>3 DEF HandleConfigEnabled, TypeOK
  <2>9. CASE HandleConfigDisabled(e, m)
    <3>1. [s EXCEPT !.state = "Inactive"] \in EndpointState
      BY <2>3 DEF EndpointState, ExpresslaneState
    <3>2. AckAndRotate(e, m, [s EXCEPT !.state = "Inactive"])
      BY <2>9 DEF HandleConfigDisabled
    <3> HIDE DEF s
    <3>3. /\ ep' \in [Endpoints -> EndpointState]
          /\ ticks' \in [Endpoints -> SUBSET Config]
          /\ msgs' \subseteq Frame
      BY <3>1, <3>2, AckAndRotateType
    <3> QED
      BY <2>9, <3>3 DEF HandleConfigDisabled, TypeOK
  <2> QED
    BY <1>9, <2>5, <2>6, <2>7, <2>8, <2>9
<1>10. ASSUME NEW p \in data, DataLeaves(p) PROVE TypeOK'
  BY <1>10 DEF DataLeaves, TypeOK
<1>11. ASSUME NEW m \in msgs, Lose(m) PROVE TypeOK'
  BY <1>11, EndpointAssumption DEF Lose, TypeOK
<1> QED
  BY <1>1, <1>2, <1>3, <1>4, <1>5, <1>6, <1>7, <1>8, <1>9, <1>10, <1>11 DEF Next, Tick, Receive

(* Types, for every value of the constants.                                *)
THEOREM TypeCorrect == Spec => []TypeOK
  BY InitType, NextType, PTL DEF Spec

-----------------------------------------------------------------------------
(* Degraded survives every step, failing AEADs included.                   *)
LEMMA DegradedStep ==
  ASSUME TypeOK, [Next]_vars, NEW x \in Endpoints, ep[x].state = "Degraded"
  PROVE  ep'[x].state = "Degraded"
<1> USE DEF TypeOK
<1>1. CASE UNCHANGED vars
  BY <1>1 DEF vars
<1>2. ASSUME NEW e \in Endpoints, Rotate(e) PROVE ep'[x].state = "Degraded"
  BY <1>2 DEF Rotate, CanRotate
<1>3. ASSUME NEW e \in Endpoints, IntervalElapses(e) PROVE ep'[x].state = "Degraded"
  BY <1>3 DEF IntervalElapses, EndpointState
<1>4. ASSUME NEW e \in Endpoints, NEW cfg \in ticks[e],
             TickSettled(e, cfg) \/ TickExhausted(e, cfg) \/ TickRetransmit(e, cfg)
      PROVE ep'[x].state = "Degraded"
  <2>1. CASE TickSettled(e, cfg)
    BY <2>1 DEF TickSettled
  <2>2. CASE TickExhausted(e, cfg)
    <3>1. CASE ep[e].state = "Degraded"
      BY <2>2, <3>1 DEF TickExhausted
    <3>2. CASE ep[e].state # "Degraded"
      <4>1. x # e
        BY <3>2
      <4> QED
        BY <2>2, <3>2, <4>1 DEF TickExhausted
    <3> QED
      BY <3>1, <3>2
  <2>3. CASE TickRetransmit(e, cfg)
    BY <2>3 DEF TickRetransmit, EndpointState
  <2> QED
    BY <1>4, <2>1, <2>2, <2>3
<1>5. ASSUME NEW e \in Endpoints, Degrade(e) PROVE ep'[x].state = "Degraded"
  BY <1>5 DEF Degrade, ready
<1>6. ASSUME NEW e \in Endpoints, SendData(e) PROVE ep'[x].state = "Degraded"
  BY <1>6 DEF SendData, ready
<1>7. ASSUME NEW e \in Endpoints, NEW m \in msgs, HandleAck(e, m)
      PROVE ep'[x].state = "Degraded"
  <2> DEFINE s == AdoptVersion(e, ep[e], m.config.version)
  <2>1. m.config.version \in Versions /\ ep[e] \in EndpointState
    BY DEF Frame, Config
  <2>2. s \in EndpointState /\ s.state = ep[e].state
    BY <2>1, AdoptVersionType DEF AdoptVersion, EndpointState
  <2>3. ep' = [ep EXCEPT ![e] = IF m.config.counter = s.config_counter THEN AckedState(s) ELSE s]
    BY <1>7 DEF HandleAck
  <2> HIDE DEF s
  <2>4. s.state = "Degraded" => AckedState(s).state = "Degraded"
    BY <2>2 DEF AckedState, Promoted, EndpointState
  <2> QED
    BY <2>2, <2>3, <2>4
<1>8. ASSUME NEW e \in Endpoints, NEW m \in msgs, HandleConfigDegraded(e, m)
      PROVE ep'[x].state = "Degraded"
  <2>1. m.config.version \in Versions /\ ep[e] \in EndpointState
    BY DEF Frame, Config
  <2>2. AdoptVersion(e, ep[e], m.config.version).state = ep[e].state
    BY <2>1 DEF AdoptVersion, EndpointState
  <2> QED
    BY <1>8, <2>2 DEF HandleConfigDegraded
<1>9. ASSUME NEW e \in Endpoints, NEW m \in msgs,
             \/ HandleConfigEnabled(e, m) \/ HandleConfigKeyFails(e, m)
             \/ HandleConfigDisabled(e, m)
      PROVE ep'[x].state = "Degraded"
  BY <1>9 DEF HandleConfigEnabled, HandleConfigKeyFails, HandleConfigDisabled, AckAndRotate
<1>10. ASSUME NEW p \in data, DataLeaves(p) PROVE ep'[x].state = "Degraded"
  BY <1>10 DEF DataLeaves
<1>11. ASSUME NEW m \in msgs, Lose(m) PROVE ep'[x].state = "Degraded"
  BY <1>11 DEF Lose
<1> QED
  BY <1>1, <1>2, <1>3, <1>4, <1>5, <1>6, <1>7, <1>8, <1>9, <1>10, <1>11 DEF Next, Tick, Receive

(* Degraded is terminal for the session, for every value of the constants. *)
THEOREM DegradedTerminal == Spec => DegradedIsTerminal
<1>1. TypeOK /\ [Next]_vars =>
        [\A e \in Endpoints : ep[e].state = "Degraded" => ep'[e].state = "Degraded"]_vars
  BY DegradedStep
<1> QED
  BY <1>1, TypeCorrect, PTL DEF Spec, DegradedIsTerminal

-----------------------------------------------------------------------------
(* A config of e that is still around - scheduled, in flight or on its way *)
(* back as an ack - is no newer than e's counter, and if it is the latest  *)
(* one, it carries the key e has staged.                                   *)
OwnConfig(e, cfg) ==
  /\ cfg.counter <= ep[e].config_counter
  /\ (cfg.counter = ep[e].config_counter /\ ep[e].next_self # None)
       => cfg.key = ep[e].next_self
  /\ cfg.enabled \/ cfg.key = INVALID

TicksOwn == \A e \in Endpoints : \A cfg \in ticks[e] : OwnConfig(e, cfg)
ConfigsOwn == \A m \in msgs : ~m.ack => OwnConfig(Peer(m.to), m.config)

(* An ack vouches for a key the acknowledging end has installed.           *)
AcksVouch == \A m \in msgs : m.ack =>
               /\ OwnConfig(m.to, m.config)
               /\ m.config.enabled => m.config.key \in installed[Peer(m.to)]

KeyInv == TypeOK /\ TicksOwn /\ ConfigsOwn /\ AcksVouch /\ PromotedWasInstalled

(* The fields KeyInv speaks about, before and after each helper.           *)
KeyFields(s) == <<s.config_counter, s.next_self, s.current_self>>

LEMMA QuietHelpers ==
  ASSUME NEW e \in Endpoints, NEW s \in EndpointState, NEW v \in Versions, NEW key \in Keys
  PROVE  /\ KeyFields(AdoptVersion(e, s, v)) = KeyFields(s)
         /\ KeyFields(Woken(s)) = KeyFields(s)
         /\ KeyFields(PeerKeyState(s, key)) = KeyFields(s)
         /\ KeyFields([s EXCEPT !.state = "Inactive"]) = KeyFields(s)
BY DEF KeyFields, AdoptVersion, Woken, PeerKeyState, EndpointState

LEMMA AckedFields ==
  ASSUME NEW s \in EndpointState
  PROVE  /\ AckedState(s).config_counter = s.config_counter
         /\ AckedState(s).next_self = None
         /\ AckedState(s).current_self = IF s.next_self = None THEN s.current_self ELSE s.next_self
BY DEF AckedState, Promoted, EndpointState

LEMMA StagedFields ==
  ASSUME NEW s \in EndpointState, NEW key \in Keys
  PROVE  /\ Staged(s, key, TRUE).config_counter = s.config_counter + 1
         /\ Staged(s, key, TRUE).next_self = key
         /\ Staged(s, key, TRUE).current_self = s.current_self
BY DEF Staged, EndpointState

LEMMA RotatedFields ==
  ASSUME NEW e \in Endpoints, NEW s \in EndpointState
  PROVE  \/ /\ Rotated(e, s, TRUE) = s
            /\ RotateConfig(e, s, TRUE) = {}
         \/ /\ Rotated(e, s, TRUE).config_counter = s.config_counter + 1
            /\ Rotated(e, s, TRUE).next_self = s.config_counter + 1
            /\ Rotated(e, s, TRUE).current_self = s.current_self
            /\ \A cfg \in RotateConfig(e, s, TRUE) :
                 cfg.counter = s.config_counter + 1 /\ cfg.key = s.config_counter + 1 /\ cfg.enabled
<1>1. CASE ~CanRotate(e, s)
  BY <1>1 DEF Rotated, RotateConfig
<1>2. CASE CanRotate(e, s)
  <2> DEFINE t == Staged(s, s.config_counter + 1, TRUE)
  <2>1. s.config_counter + 1 \in Keys
    BY DEF EndpointState, Keys
  <2>2. t \in EndpointState
    BY <2>1, StagedType
  <2>3. /\ t.config_counter = s.config_counter + 1
        /\ t.next_self = s.config_counter + 1
        /\ t.current_self = s.current_self
    BY <2>1, StagedFields
  <2>4. Rotated(e, s, TRUE) = [t EXCEPT !.gate = FALSE]
    BY <1>2 DEF Rotated
  <2> HIDE DEF t
  <2>5. /\ Rotated(e, s, TRUE).config_counter = s.config_counter + 1
        /\ Rotated(e, s, TRUE).next_self = s.config_counter + 1
        /\ Rotated(e, s, TRUE).current_self = s.current_self
    BY <2>2, <2>3, <2>4 DEF EndpointState
  <2>6. \A cfg \in RotateConfig(e, s, TRUE) :
           cfg.counter = s.config_counter + 1 /\ cfg.key = s.config_counter + 1 /\ cfg.enabled
    BY DEF RotateConfig
  <2> QED
    BY <2>5, <2>6
<1> QED
  BY <1>1, <1>2

(* No step takes a counter back, and a staged key is only dropped or       *)
(* replaced together with the counter.                                     *)
Later(s, t) == /\ t.config_counter >= s.config_counter
               /\ t.config_counter = s.config_counter => t.next_self \in {s.next_self, None}

LEMMA OwnStays ==
  ASSUME TypeOK, TypeOK', NEW e \in Endpoints, NEW cfg \in Config,
         Later(ep[e], ep'[e]), OwnConfig(e, cfg)
  PROVE  OwnConfig(e, cfg)'
<1>1. /\ ep[e].config_counter \in Nat /\ ep'[e].config_counter \in Nat /\ cfg.counter \in Nat
  BY DEF TypeOK, EndpointState, Config, Keys
<1>2. cfg.counter <= ep'[e].config_counter
  BY <1>1 DEF Later, OwnConfig
<1>3. ASSUME cfg.counter = ep'[e].config_counter, ep'[e].next_self # None
      PROVE  cfg.key = ep'[e].next_self
  <2>1. ep'[e].config_counter = ep[e].config_counter
    BY <1>1, <1>3 DEF Later, OwnConfig
  <2> QED
    BY <1>3, <2>1 DEF Later, OwnConfig
<1> QED
  BY <1>2, <1>3 DEF OwnConfig

(* What a step must respect for KeyInv to survive it.                      *)
LEMMA KeyStep ==
  ASSUME KeyInv, TypeOK',
         \A e \in Endpoints : Later(ep[e], ep'[e]),
         \A e \in Endpoints : installed[e] \subseteq installed'[e],
         \A e \in Endpoints : \A cfg \in ticks'[e] : cfg \in ticks[e] \/ OwnConfig(e, cfg)',
         \A m \in msgs' :
           \/ m \in msgs
           \/ ~m.ack /\ OwnConfig(Peer(m.to), m.config)'
           \/ /\ m.ack /\ OwnConfig(m.to, m.config)
              /\ m.config.enabled => m.config.key \in installed'[Peer(m.to)],
         \A e \in Endpoints :
           ep'[e].current_self \in {ep[e].current_self, INVALID} \cup installed[Peer(e)],
         \A p \in data' : p \in data \/ p.key \in installed[p.to]
  PROVE  KeyInv'
<1>0. TypeOK /\ TicksOwn /\ ConfigsOwn /\ AcksVouch /\ PromotedWasInstalled
  BY DEF KeyInv
<1>1. ASSUME NEW e \in Endpoints, NEW cfg \in Config, OwnConfig(e, cfg)
      PROVE  OwnConfig(e, cfg)'
  BY <1>0, <1>1, OwnStays
<1>2. TicksOwn'
  <2>1. ASSUME NEW e \in Endpoints, NEW cfg \in ticks'[e] PROVE OwnConfig(e, cfg)'
    <3>1. CASE cfg \in ticks[e]
      BY <1>0, <1>1, <3>1 DEF TicksOwn, TypeOK
    <3> QED
      BY <2>1, <3>1
  <2> QED
    BY <2>1 DEF TicksOwn
<1>3. ConfigsOwn'
  <2>1. ASSUME NEW m \in msgs', ~m.ack PROVE OwnConfig(Peer(m.to), m.config)'
    <3>1. CASE m \in msgs
      BY <1>0, <1>1, <2>1, <3>1, PeerFacts DEF ConfigsOwn, TypeOK, Frame
    <3> QED
      BY <2>1, <3>1
  <2> QED
    BY <2>1 DEF ConfigsOwn
<1>4. AcksVouch'
  <2>1. ASSUME NEW m \in msgs', m.ack
        PROVE /\ OwnConfig(m.to, m.config)'
              /\ m.config.enabled => m.config.key \in installed'[Peer(m.to)]
    <3>0. m.to \in Endpoints /\ m.config \in Config /\ Peer(m.to) \in Endpoints
      BY PeerFacts DEF TypeOK, Frame
    <3>1. /\ OwnConfig(m.to, m.config)
          /\ m.config.enabled => m.config.key \in installed'[Peer(m.to)]
      BY <1>0, <2>1, <3>0 DEF AcksVouch
    <3> QED
      BY <1>1, <3>0, <3>1
  <2> QED
    BY <2>1 DEF AcksVouch
<1>5. PromotedWasInstalled'
  <2>1. ASSUME NEW e \in Endpoints, ep'[e].current_self # INVALID
        PROVE ep'[e].current_self \in installed'[Peer(e)]
    BY <1>0, <2>1, PeerFacts DEF PromotedWasInstalled
  <2>2. ASSUME NEW p \in data' PROVE p.key \in installed'[p.to]
    BY <1>0, <2>2 DEF PromotedWasInstalled, TypeOK, DataPacket
  <2> QED
    BY <2>1, <2>2 DEF PromotedWasInstalled
<1> QED
  BY <1>2, <1>3, <1>4, <1>5 DEF KeyInv

LEMMA InitKey == Init => KeyInv
BY InitType DEF Init, KeyInv, TicksOwn, ConfigsOwn, AcksVouch, PromotedWasInstalled

LEMMA LaterFacts ==
  ASSUME NEW s \in EndpointState, NEW t \in EndpointState
  PROVE  /\ KeyFields(t) = KeyFields(s) => Later(s, t)
         /\ t.config_counter = s.config_counter /\ t.next_self = None => Later(s, t)
         /\ t.config_counter = s.config_counter + 1 => Later(s, t)
BY DEF Later, KeyFields, EndpointState, Keys

(* The part of a config handler after the peer's key: ack and rotation.    *)
LEMMA AckAndRotateKey ==
  ASSUME KeyInv, TypeOK', KeyOutcomes = {TRUE},
         NEW e \in Endpoints, NEW m \in msgs, m.to = e, ~m.ack,
         NEW s \in EndpointState, KeyFields(s) = KeyFields(ep[e]),
         AckAndRotate(e, m, s), data' = data,
         \A x \in Endpoints : installed[x] \subseteq installed'[x],
         m.config.enabled => m.config.key \in installed'[e]
  PROVE  KeyInv'
<1>1. /\ TypeOK /\ ConfigsOwn /\ AcksVouch /\ PromotedWasInstalled
      /\ m.config \in Config /\ m.to = e /\ ep[e] \in EndpointState /\ ep'[e] \in EndpointState
      /\ Peer(e) \in Endpoints /\ Peer(Peer(e)) = e /\ Peer(e) # e
  BY PeerFacts DEF KeyInv, TypeOK, Frame
<1>2. /\ ep' = [ep EXCEPT ![e] = Rotated(e, s, TRUE)]
      /\ msgs' = (msgs \ {m}) \cup {ConfigFrame(e, [m.config EXCEPT !.version = s.version], TRUE, m.copy)}
                   \cup {ConfigFrame(e, cfg, FALSE, 0) : cfg \in RotateConfig(e, s, TRUE)}
      /\ ticks' = [ticks EXCEPT ![e] = @ \cup RotateConfig(e, s, TRUE)]
  BY DEF AckAndRotate
<1>3. /\ s.config_counter = ep[e].config_counter /\ s.next_self = ep[e].next_self
      /\ s.current_self = ep[e].current_self
  BY DEF KeyFields
<1>4. /\ ep'[e].current_self = ep[e].current_self
      /\ Later(ep[e], ep'[e])
      /\ \A cfg \in RotateConfig(e, s, TRUE) : OwnConfig(e, cfg)'
  <2>1. ep'[e] = Rotated(e, s, TRUE)
    BY <1>1, <1>2 DEF TypeOK
  <2>2. CASE Rotated(e, s, TRUE) = s /\ RotateConfig(e, s, TRUE) = {}
    BY <1>1, <1>3, <2>1, <2>2, LaterFacts
  <2>3. CASE /\ Rotated(e, s, TRUE).config_counter = s.config_counter + 1
             /\ Rotated(e, s, TRUE).next_self = s.config_counter + 1
             /\ Rotated(e, s, TRUE).current_self = s.current_self
             /\ \A cfg \in RotateConfig(e, s, TRUE) :
                  cfg.counter = s.config_counter + 1 /\ cfg.key = s.config_counter + 1 /\ cfg.enabled
    <3>1. ASSUME NEW cfg \in RotateConfig(e, s, TRUE) PROVE OwnConfig(e, cfg)'
      <4>1. /\ cfg.counter = ep'[e].config_counter /\ cfg.key = ep'[e].next_self
            /\ cfg.enabled /\ ep'[e].config_counter \in Nat
        BY <1>1, <2>1, <2>3 DEF EndpointState, Keys
      <4>2. cfg.counter <= ep'[e].config_counter
        BY <4>1
      <4> QED
        BY <4>1, <4>2 DEF OwnConfig
    <3> QED
      BY <1>1, <1>3, <2>1, <2>3, <3>1, LaterFacts
  <2> QED
    BY <2>2, <2>3, RotatedFields
<1>5. \A x \in Endpoints : x # e => ep'[x] = ep[x] /\ ticks'[x] = ticks[x]
  BY <1>1, <1>2 DEF TypeOK
<1>6. \A x \in Endpoints : Later(ep[x], ep'[x])
  <2>1. ASSUME NEW x \in Endpoints, x # e PROVE Later(ep[x], ep'[x])
    BY <1>1, <1>5, <2>1, LaterFacts DEF TypeOK
  <2> QED
    BY <1>4, <2>1
<1>7. \A x \in Endpoints : \A cfg \in ticks'[x] : cfg \in ticks[x] \/ OwnConfig(x, cfg)'
  BY <1>1, <1>2, <1>4, <1>5 DEF TypeOK
<1>8. ASSUME NEW n \in msgs'
      PROVE  \/ n \in msgs
             \/ ~n.ack /\ OwnConfig(Peer(n.to), n.config)'
             \/ /\ n.ack /\ OwnConfig(n.to, n.config)
                /\ n.config.enabled => n.config.key \in installed'[Peer(n.to)]
  <2>1. CASE n \in msgs
    BY <2>1
  <2>2. CASE n = ConfigFrame(e, [m.config EXCEPT !.version = s.version], TRUE, m.copy)
    <3>1. /\ n.ack /\ n.to = Peer(e)
          /\ n.config.counter = m.config.counter /\ n.config.key = m.config.key
          /\ n.config.enabled = m.config.enabled
      BY <1>1, <2>2 DEF ConfigFrame, Config
    <3>2. OwnConfig(Peer(e), m.config)
      BY <1>1 DEF ConfigsOwn
    <3>3. OwnConfig(Peer(e), n.config)
      BY <3>1, <3>2 DEF OwnConfig
    <3> QED
      BY <1>1, <3>1, <3>3
  <2>3. ASSUME NEW cfg \in RotateConfig(e, s, TRUE), n = ConfigFrame(e, cfg, FALSE, 0)
        PROVE ~n.ack /\ OwnConfig(Peer(n.to), n.config)'
    <3>1. ~n.ack /\ n.to = Peer(e) /\ n.config = cfg
      BY <2>3 DEF ConfigFrame
    <3> QED
      BY <1>1, <1>4, <3>1
  <2> QED
    BY <1>2, <2>1, <2>2, <2>3
<1>9. \A x \in Endpoints :
         ep'[x].current_self \in {ep[x].current_self, INVALID} \cup installed[Peer(x)]
  BY <1>4, <1>5
<1> QED
  BY <1>6, <1>7, <1>8, <1>9, KeyStep

(* A step that leaves the key fields, the acks and the installed keys      *)
(* alone, and sends or schedules nothing new.                              *)
LEMMA QuietStep ==
  ASSUME KeyInv, TypeOK',
         \A x \in Endpoints : KeyFields(ep'[x]) = KeyFields(ep[x]),
         \A x \in Endpoints : ticks'[x] \subseteq ticks[x],
         msgs' \subseteq msgs, installed' = installed, data' \subseteq data
  PROVE  KeyInv'
<1>1. \A x \in Endpoints : Later(ep[x], ep'[x])
  BY LaterFacts DEF KeyInv, TypeOK
<1>2. \A x \in Endpoints : ep'[x].current_self = ep[x].current_self
  BY DEF KeyFields
<1> QED
  BY <1>1, <1>2, KeyStep

(* e shares a new config, staging its key (rotation or degradation).       *)
LEMMA ShareStep ==
  ASSUME KeyInv, TypeOK', NEW e \in Endpoints, NEW cfg,
         ep'[e].config_counter = ep[e].config_counter + 1,
         ep'[e].current_self = ep[e].current_self,
         cfg.counter = ep'[e].config_counter, cfg.key = ep'[e].next_self,
         cfg.enabled \/ cfg.key = INVALID,
         \A x \in Endpoints : x # e => ep'[x] = ep[x],
         msgs' = msgs \cup {ConfigFrame(e, cfg, FALSE, 0)},
         ticks' = [ticks EXCEPT ![e] = @ \cup {cfg}],
         installed' = installed, data' = data
  PROVE  KeyInv'
<1>1. TypeOK /\ Peer(e) \in Endpoints /\ Peer(Peer(e)) = e
  BY PeerFacts DEF KeyInv
<1>2. \A x \in Endpoints : Later(ep[x], ep'[x])
  <2>1. \A x \in Endpoints : ep[x] \in EndpointState /\ ep'[x] \in EndpointState
    BY <1>1 DEF TypeOK
  <2>2. Later(ep[e], ep'[e])
    BY <2>1, LaterFacts
  <2>3. ASSUME NEW x \in Endpoints, x # e PROVE Later(ep[x], ep'[x])
    BY <2>1, <2>3, LaterFacts
  <2> QED
    BY <2>2, <2>3
<1>3. OwnConfig(e, cfg)'
  <2>1. ep'[e].config_counter \in Nat
    BY DEF TypeOK, EndpointState, Keys
  <2>2. cfg.counter <= ep'[e].config_counter
    BY <2>1
  <2> QED
    BY <2>2 DEF OwnConfig
<1>4. \A x \in Endpoints : \A c \in ticks'[x] : c \in ticks[x] \/ OwnConfig(x, c)'
  BY <1>1, <1>3 DEF TypeOK
<1>5. ASSUME NEW m \in msgs', m \notin msgs
      PROVE  ~m.ack /\ OwnConfig(Peer(m.to), m.config)'
  <2>1. ~m.ack /\ m.to = Peer(e) /\ m.config = cfg
    BY <1>5 DEF ConfigFrame
  <2> QED
    BY <1>1, <1>3, <2>1
<1>6. \A x \in Endpoints : ep'[x].current_self = ep[x].current_self
  OBVIOUS
<1> QED
  BY <1>2, <1>4, <1>5, <1>6, KeyStep

LEMMA NextKey ==
  ASSUME KeyInv, [Next]_vars, KeyOutcomes = {TRUE}
  PROVE  KeyInv'
<1>0. /\ TypeOK /\ TypeOK' /\ TicksOwn /\ ConfigsOwn /\ AcksVouch /\ PromotedWasInstalled
      /\ ep \in [Endpoints -> EndpointState] /\ ticks \in [Endpoints -> SUBSET Config]
      /\ msgs \subseteq Frame
  BY NextType DEF KeyInv, TypeOK
<1>1. CASE UNCHANGED vars
  BY <1>0, <1>1, QuietStep DEF vars
<1>2. ASSUME NEW e \in Endpoints, Rotate(e) PROVE KeyInv'
  <2>1. PICK cfg \in RotateConfig(e, ep[e], TRUE) :
          /\ ep' = [ep EXCEPT ![e] = Rotated(e, @, TRUE)]
          /\ msgs' = msgs \cup {ConfigFrame(e, cfg, FALSE, 0)}
          /\ ticks' = [ticks EXCEPT ![e] = @ \cup {cfg}]
    BY <1>2 DEF Rotate
  <2>2. /\ ep'[e].config_counter = ep[e].config_counter + 1
        /\ ep'[e].current_self = ep[e].current_self
        /\ cfg.counter = ep'[e].config_counter /\ cfg.key = ep'[e].next_self /\ cfg.enabled
    BY <1>0, <2>1, RotatedFields
  <2> QED
    BY <1>0, <1>2, <2>1, <2>2, ShareStep DEF Rotate
<1>3. ASSUME NEW e \in Endpoints, IntervalElapses(e) PROVE KeyInv'
  <2>1. \A x \in Endpoints : KeyFields(ep'[x]) = KeyFields(ep[x])
    BY <1>0, <1>3 DEF IntervalElapses, KeyFields, EndpointState
  <2> QED
    BY <1>0, <1>3, <2>1, QuietStep DEF IntervalElapses
<1>4. ASSUME NEW e \in Endpoints, NEW cfg \in ticks[e], TickSettled(e, cfg) PROVE KeyInv'
  <2>1. \A x \in Endpoints : ticks'[x] \subseteq ticks[x]
    BY <1>0, <1>4 DEF TickSettled
  <2> QED
    BY <1>0, <1>4, <2>1, QuietStep DEF TickSettled
<1>5. ASSUME NEW e \in Endpoints, NEW cfg \in ticks[e], TickExhausted(e, cfg) PROVE KeyInv'
  <2>1. \A x \in Endpoints : ticks'[x] \subseteq ticks[x]
    BY <1>0, <1>5 DEF TickExhausted
  <2>2. \A x \in Endpoints : KeyFields(ep'[x]) = KeyFields(ep[x])
    BY <1>0, <1>5 DEF TickExhausted, KeyFields, EndpointState
  <2> QED
    BY <1>0, <1>5, <2>1, <2>2, QuietStep DEF TickExhausted
<1>6. ASSUME NEW e \in Endpoints, NEW cfg \in ticks[e], TickRetransmit(e, cfg) PROVE KeyInv'
  <2>1. \A x \in Endpoints : KeyFields(ep'[x]) = KeyFields(ep[x])
    BY <1>0, <1>6 DEF TickRetransmit, KeyFields, EndpointState
  <2>2. \A x \in Endpoints : Later(ep[x], ep'[x])
    BY <1>0, <2>1, LaterFacts DEF TypeOK
  <2>3. ASSUME NEW n \in msgs', n \notin msgs
        PROVE ~n.ack /\ OwnConfig(Peer(n.to), n.config)'
    <3>1. ~n.ack /\ n.to = Peer(e) /\ n.config = cfg
      BY <1>6, <2>3 DEF TickRetransmit, ConfigFrame
    <3>2. OwnConfig(e, cfg)'
      BY <1>0, <2>2, OwnStays DEF TicksOwn
    <3> QED
      BY <3>1, <3>2, PeerFacts
  <2>4. \A x \in Endpoints : ep'[x].current_self = ep[x].current_self
    BY <2>1 DEF KeyFields
  <2> QED
    BY <1>0, <1>6, <2>2, <2>3, <2>4, KeyStep DEF TickRetransmit
<1>7. ASSUME NEW e \in Endpoints, Degrade(e) PROVE KeyInv'
  <2> DEFINE notice == [counter |-> ep[e].config_counter + 1, key |-> INVALID,
                        enabled |-> FALSE, version |-> OutgoingVersion(e, ep[e])]
             t == Staged(ep[e], INVALID, TRUE)
  <2>1. /\ ep' = [ep EXCEPT ![e] = [t EXCEPT !.state = "Degraded"]]
        /\ msgs' = msgs \cup {ConfigFrame(e, notice, FALSE, 0)}
        /\ ticks' = [ticks EXCEPT ![e] = @ \cup {notice}]
    BY <1>0, <1>7 DEF Degrade
  <2>2. INVALID \in Keys /\ ep[e] \in EndpointState
    BY <1>0 DEF INVALID, Keys
  <2>3. /\ t \in EndpointState /\ t.config_counter = ep[e].config_counter + 1
        /\ t.next_self = INVALID /\ t.current_self = ep[e].current_self
    BY <2>2, StagedFields, StagedType
  <2>4. notice.counter = ep[e].config_counter + 1 /\ notice.key = INVALID
    OBVIOUS
  <2> HIDE DEF notice, t
  <2>5. /\ ep'[e].config_counter = ep[e].config_counter + 1
        /\ ep'[e].current_self = ep[e].current_self /\ ep'[e].next_self = INVALID
    BY <1>0, <2>1, <2>3 DEF EndpointState
  <2> QED
    BY <1>0, <1>7, <2>1, <2>4, <2>5, ShareStep DEF Degrade
<1>8. ASSUME NEW e \in Endpoints, SendData(e) PROVE KeyInv'
  <2>1. \A x \in Endpoints : KeyFields(ep'[x]) = KeyFields(ep[x])
    BY <1>0, <1>8 DEF SendData, KeyFields, EndpointState
  <2>2. \A x \in Endpoints : Later(ep[x], ep'[x])
    BY <1>0, <2>1, LaterFacts DEF TypeOK
  <2>3. ASSUME NEW p \in data', p \notin data PROVE p.key \in installed[p.to]
    <3>1. p.to = Peer(e) /\ p.key = ep[e].current_self
      BY <1>8, <2>3 DEF SendData
    <3> QED
      BY <1>0, <1>8, <3>1 DEF SendData, ready, has_valid_keys, PromotedWasInstalled
  <2>4. \A x \in Endpoints : ep'[x].current_self = ep[x].current_self
    BY <2>1 DEF KeyFields
  <2> QED
    BY <1>0, <1>8, <2>2, <2>3, <2>4, KeyStep DEF SendData
<1>9. ASSUME NEW e \in Endpoints, NEW m \in msgs, HandleAck(e, m) PROVE KeyInv'
  <2> DEFINE s == AdoptVersion(e, ep[e], m.config.version)
  <2>1. /\ m.to = e /\ m.ack /\ Peer(e) \in Endpoints /\ ep[e] \in EndpointState
        /\ m.config.version \in Versions /\ m.config.key \in Keys
    BY <1>0, <1>9, PeerFacts DEF HandleAck, Frame, Config
  <2>2. s \in EndpointState /\ KeyFields(s) = KeyFields(ep[e])
    BY <2>1, AdoptVersionType, QuietHelpers
  <2>3. ep' = [ep EXCEPT ![e] = IF m.config.counter = s.config_counter THEN AckedState(s) ELSE s]
    BY <1>9 DEF HandleAck
  <2> HIDE DEF s
  <2>4. /\ s.config_counter = ep[e].config_counter /\ s.next_self = ep[e].next_self
        /\ s.current_self = ep[e].current_self
    BY <2>2 DEF KeyFields
  <2>5. /\ OwnConfig(e, m.config)
        /\ m.config.enabled => m.config.key \in installed[Peer(e)]
    BY <1>0, <2>1 DEF AcksVouch
  <2>6. ep[e] \in EndpointState /\ ep'[e] \in EndpointState
    BY <1>0 DEF TypeOK
  <2>7. /\ Later(ep[e], ep'[e])
        /\ ep'[e].current_self \in {ep[e].current_self, INVALID} \cup installed[Peer(e)]
    <3>1. CASE m.config.counter # s.config_counter
      BY <1>0, <2>2, <2>3, <2>4, <2>6, <3>1, LaterFacts
    <3>2. CASE m.config.counter = s.config_counter
      <4>1. ep'[e] = AckedState(s)
        BY <1>0, <2>3, <3>2
      <4>2. Later(ep[e], ep'[e])
        BY <2>2, <2>4, <2>6, <4>1, AckedFields, LaterFacts
      <4>3. ep[e].next_self # None => ep[e].next_self \in {INVALID} \cup installed[Peer(e)]
        BY <2>4, <2>5, <3>2 DEF OwnConfig
      <4> QED
        BY <2>2, <2>4, <4>1, <4>2, <4>3, AckedFields
    <3> QED
      BY <3>1, <3>2
  <2>8. \A x \in Endpoints : x # e => ep'[x] = ep[x]
    BY <1>0, <2>3
  <2>9. \A x \in Endpoints : Later(ep[x], ep'[x])
    <3>1. ASSUME NEW x \in Endpoints, x # e PROVE Later(ep[x], ep'[x])
      BY <1>0, <2>8, <3>1, LaterFacts
    <3> QED
      BY <2>7, <3>1
  <2>10. \A x \in Endpoints :
           ep'[x].current_self \in {ep[x].current_self, INVALID} \cup installed[Peer(x)]
    BY <2>7, <2>8
  <2> QED
    BY <1>0, <1>9, <2>9, <2>10, KeyStep DEF HandleAck
<1>10. ASSUME NEW e \in Endpoints, NEW m \in msgs, HandleConfigDegraded(e, m) PROVE KeyInv'
  <2>1. m.config.version \in Versions /\ m.config.key \in Keys /\ ep[e] \in EndpointState
    BY <1>0 DEF Frame, Config
  <2>2. KeyFields(AdoptVersion(e, ep[e], m.config.version)) = KeyFields(ep[e])
    BY <2>1, QuietHelpers
  <2>3. \A x \in Endpoints : KeyFields(ep'[x]) = KeyFields(ep[x])
    BY <1>0, <1>10, <2>2 DEF HandleConfigDegraded
  <2> QED
    BY <1>0, <1>10, <2>3, QuietStep DEF HandleConfigDegraded
<1>11. ASSUME NEW e \in Endpoints, NEW m \in msgs, HandleConfigEnabled(e, m) PROVE KeyInv'
  <2> DEFINE a == AdoptVersion(e, ep[e], m.config.version)
             w == Woken(a)
             s == PeerKeyState(w, m.config.key)
  <2>1. /\ m.config.version \in Versions /\ m.config.key \in Keys /\ ep[e] \in EndpointState
        /\ m.to = e /\ ~m.ack
    BY <1>0, <1>11 DEF Frame, Config, HandleConfigEnabled
  <2>2. a \in EndpointState /\ KeyFields(a) = KeyFields(ep[e])
    BY <2>1, AdoptVersionType, QuietHelpers
  <2>3. w \in EndpointState /\ KeyFields(w) = KeyFields(ep[e])
    BY <2>1, <2>2, WokenType, QuietHelpers
  <2>4. s \in EndpointState /\ KeyFields(s) = KeyFields(ep[e])
    BY <2>1, <2>3, PeerKeyType, QuietHelpers
  <2>5. AckAndRotate(e, m, s)
    BY <1>11 DEF HandleConfigEnabled
  <2> HIDE DEF s
  <2>6. /\ \A x \in Endpoints : installed[x] \subseteq installed'[x]
        /\ m.config.key \in installed'[e] /\ data' = data
    BY <1>0, <1>11 DEF HandleConfigEnabled, TypeOK
  <2> QED
    BY <1>0, <2>1, <2>4, <2>5, <2>6, AckAndRotateKey
<1>12. ASSUME NEW e \in Endpoints, NEW m \in msgs, HandleConfigKeyFails(e, m) PROVE KeyInv'
  BY <1>12 DEF HandleConfigKeyFails
<1>13. ASSUME NEW e \in Endpoints, NEW m \in msgs, HandleConfigDisabled(e, m) PROVE KeyInv'
  <2> DEFINE a == AdoptVersion(e, ep[e], m.config.version)
             s == [a EXCEPT !.state = "Inactive"]
  <2>1. /\ m.config.version \in Versions /\ m.config.key \in Keys /\ ep[e] \in EndpointState
        /\ m.to = e /\ ~m.ack
    BY <1>0, <1>13 DEF Frame, Config, HandleConfigDisabled
  <2>2. a \in EndpointState /\ KeyFields(a) = KeyFields(ep[e])
    BY <2>1, AdoptVersionType, QuietHelpers
  <2>3. AckAndRotate(e, m, s)
    BY <1>13 DEF HandleConfigDisabled
  <2> HIDE DEF a
  <2>4. s \in EndpointState /\ KeyFields(s) = KeyFields(ep[e])
    BY <2>2 DEF EndpointState, KeyFields, ExpresslaneState
  <2> HIDE DEF s
  <2>5. \A x \in Endpoints : installed[x] \subseteq installed'[x]
    BY <1>13 DEF HandleConfigDisabled
  <2>6. ~m.config.enabled /\ data' = data
    BY <1>13 DEF HandleConfigDisabled
  <2> QED
    BY <1>0, <2>1, <2>3, <2>4, <2>5, <2>6, AckAndRotateKey
<1>14. ASSUME NEW p \in data, DataLeaves(p) PROVE KeyInv'
  BY <1>0, <1>14, QuietStep DEF DataLeaves
<1>15. ASSUME NEW m \in msgs, Lose(m) PROVE KeyInv'
  BY <1>0, <1>15, QuietStep DEF Lose
<1> QED
  BY <1>1, <1>2, <1>3, <1>4, <1>5, <1>6, <1>7, <1>8, <1>9, <1>10, <1>11, <1>12, <1>13,
     <1>14, <1>15 DEF Next, Tick, Receive

(* While the AEAD accepts keys, no end ever encrypts under a key its peer  *)
(* has not installed, however configs and acks are lost, delayed, reordered*)
(* or repeated.                                                            *)
THEOREM KeysInstalled ==
  ASSUME KeyOutcomes = {TRUE}
  PROVE  Spec => []PromotedWasInstalled
<1>1. KeyInv /\ [Next]_vars => KeyInv'
  BY NextKey
<1>2. KeyInv => PromotedWasInstalled
  BY DEF KeyInv
<1> QED
  BY <1>1, <1>2, InitKey, PTL DEF Spec

-----------------------------------------------------------------------------
(* The version both builds know.  Every config an end writes carries it or *)
(* the MAX of the end's build, and either resolves to it at the peer.      *)
Common == IF MaxVersion[Client] <= MaxVersion[Peer(Client)] THEN MaxVersion[Client]
          ELSE MaxVersion[Peer(Client)]
Offers(e) == {Common, MaxVersion[e]}

(* An end that has sent, or has installed a key, has the common version,   *)
(* and so has the peer of one whose key was acknowledged.                  *)
VersionsMet(e, s) ==
  /\ s.version \in {0, Common}
  /\ s.sent \/ s.current_peer # INVALID => s.version = Common
VersionInv ==
  /\ TypeOK
  /\ \A e \in Endpoints : /\ VersionsMet(e, ep[e])
                          /\ ep[e].current_self # INVALID => ep[Peer(e)].version = Common
                          /\ \A cfg \in ticks[e] : cfg.version \in Offers(e)
  /\ \A m \in msgs : /\ m.config.version \in Offers(Peer(m.to))
                     /\ m.ack => ep[Peer(m.to)].version = Common
  /\ \A p \in data : p.version = Common /\ ep[p.to].version = Common

LEMMA CommonFacts ==
  ASSUME NEW e \in Endpoints
  PROVE  /\ Common \in 1..2 /\ MaxVersion[e] \in 1..2
         /\ \A v \in Offers(Peer(e)) : v \in Versions /\ negotiate_version(e, v) = Common
<1>1. Peer(e) \in Endpoints /\ Client \in Endpoints /\ Peer(Client) \in Endpoints
  BY PeerFacts, EndpointAssumption
<1>2. (e = Client \/ e = Peer(Client)) /\ Peer(Peer(Client)) = Client
  BY <1>1, PeerFacts
<1>3. MaxVersion[Client] \in 1..2 /\ MaxVersion[Peer(Client)] \in 1..2
  BY <1>1, EndpointAssumption
<1>4. CASE e = Client
  BY <1>3, <1>4 DEF Common, Offers, negotiate_version, Versions
<1>5. CASE e = Peer(Client)
  BY <1>2, <1>3, <1>5 DEF Common, Offers, negotiate_version, Versions
<1> QED
  BY <1>2, <1>4, <1>5

(* What a step of end e must respect for VersionInv to survive it.         *)
VersionKept(e, s) ==
  /\ VersionsMet(e, s)
  /\ ep[e].version = Common => s.version = Common
  /\ s.current_self # INVALID => ep[e].current_self # INVALID \/ ep[Peer(e)].version = Common

LEMMA VersionStep ==
  ASSUME VersionInv, TypeOK', NEW e \in Endpoints, NEW s, ep' = [ep EXCEPT ![e] = s], VersionKept(e, s),
         \A x \in Endpoints : \A cfg \in ticks'[x] : cfg \in ticks[x] \/ (x = e /\ cfg.version \in Offers(e)),
         \A m \in msgs' : \/ m \in msgs
                          \/ /\ m.to = Peer(e) /\ m.config.version \in Offers(e)
                             /\ m.ack => s.version = Common,
         \A p \in data' : p \in data \/ (p.version = Common /\ p.to = Peer(e) /\ ep[p.to].version = Common)
  PROVE  VersionInv'
<1>1. /\ ep'[e] = s /\ \A x \in Endpoints : x # e => ep'[x] = ep[x]
      /\ Peer(e) \in Endpoints /\ Peer(e) # e /\ Peer(Peer(e)) = e
      /\ \A x \in Endpoints : x # e => x = Peer(e)
  BY PeerFacts DEF VersionInv, TypeOK
<1>2. \A x \in Endpoints : ep[x].version = Common => ep'[x].version = Common
  BY <1>1 DEF VersionKept
<1>3. ASSUME NEW x \in Endpoints PROVE VersionsMet(x, ep'[x]) /\ \A cfg \in ticks'[x] : cfg.version \in Offers(x)
  <2>1. VersionsMet(x, ep[x]) /\ VersionsMet(e, s) /\ \A cfg \in ticks[x] : cfg.version \in Offers(x)
    BY DEF VersionKept, VersionInv
  <2>2. VersionsMet(x, ep'[x])
    BY <1>1, <2>1
  <2> QED
    BY <2>1, <2>2
<1>4. ASSUME NEW x \in Endpoints, ep'[x].current_self # INVALID PROVE ep'[Peer(x)].version = Common
  <2>0. ep[x].current_self # INVALID => ep[Peer(x)].version = Common
    BY DEF VersionInv
  <2>1. CASE x = e
    <3>1. s.current_self # INVALID => ep[e].current_self # INVALID \/ ep[Peer(e)].version = Common
      BY DEF VersionKept
    <3> QED
      BY <1>1, <1>2, <1>4, <2>0, <2>1, <3>1
  <2>2. CASE x # e
    BY <1>1, <1>2, <1>4, <2>0, <2>2
  <2> QED
    BY <2>1, <2>2
<1>5. ASSUME NEW m \in msgs' PROVE m.config.version \in Offers(Peer(m.to)) /\ (m.ack => ep'[Peer(m.to)].version = Common)
  <2>1. m.to \in Endpoints /\ Peer(m.to) \in Endpoints
    BY PeerFacts DEF TypeOK, Frame
  <2>2. CASE m \in msgs
    BY <1>2, <2>1, <2>2 DEF VersionInv
  <2>3. CASE /\ m.to = Peer(e) /\ m.config.version \in Offers(e)
             /\ m.ack => s.version = Common
    BY <1>1, <2>3
  <2> QED
    BY <1>5, <2>2, <2>3
<1>6. ASSUME NEW p \in data' PROVE p.version = Common /\ ep'[p.to].version = Common
  <2>1. p.to \in Endpoints
    BY DEF TypeOK, DataPacket
  <2> QED
    BY <1>2, <1>6, <2>1 DEF VersionInv
<1> QED
  BY <1>3, <1>4, <1>5, <1>6 DEF VersionInv, VersionsMet

(* What the helpers leave of the fields VersionInv speaks about.           *)
LEMMA AdoptFields ==
  ASSUME NEW e \in Endpoints, NEW s \in EndpointState, NEW v \in Offers(Peer(e)), VersionsMet(e, s)
  PROVE  /\ AdoptVersion(e, s, v) \in EndpointState /\ AdoptVersion(e, s, v).version = Common
         /\ AdoptVersion(e, s, v) = [s EXCEPT !.version = Common]
         /\ VersionsMet(e, AdoptVersion(e, s, v))
<1>1. v \in Versions /\ negotiate_version(e, v) = Common /\ Common \in Versions
  BY CommonFacts DEF Versions
<1>2. AdoptVersion(e, s, v) = [s EXCEPT !.version = Common]
  BY <1>1 DEF AdoptVersion, VersionsMet, EndpointState
<1> QED
  BY <1>1, <1>2 DEF EndpointState, VersionsMet

LEMMA PeerKeyFields ==
  ASSUME NEW s \in EndpointState, NEW key \in Keys
  PROVE  /\ PeerKeyState(Woken(s), key) \in EndpointState
         /\ PeerKeyState(Woken(s), key).version = s.version
         /\ PeerKeyState(Woken(s), key).current_self = s.current_self
         /\ PeerKeyState(Woken(s), key).current_peer = key
         /\ PeerKeyState(Woken(s), key).prev_peer = s.current_peer
         /\ KeyFields(PeerKeyState(Woken(s), key)) = KeyFields(s)
         /\ PeerKeyState(Woken(s), key).gate = s.gate
         /\ PeerKeyState(Woken(s), key).retransmit_count = s.retransmit_count
         /\ s.state # "Degraded" => PeerKeyState(Woken(s), key).state # "Degraded"
<1> DEFINE w == Woken(s)
<1>1. /\ w \in EndpointState /\ w.version = s.version /\ w.current_self = s.current_self
      /\ w.current_peer = s.current_peer /\ KeyFields(w) = KeyFields(s) /\ w.gate = s.gate
      /\ w.retransmit_count = s.retransmit_count /\ (s.state # "Degraded" => w.state # "Degraded")
  BY WokenType DEF Woken, EndpointState, KeyFields
<1> HIDE DEF w
<1>2. /\ PeerKeyState(w, key) \in EndpointState
      /\ PeerKeyState(w, key).version = w.version
      /\ PeerKeyState(w, key).current_self = w.current_self
      /\ PeerKeyState(w, key).current_peer = key
      /\ PeerKeyState(w, key).prev_peer = w.current_peer
      /\ KeyFields(PeerKeyState(w, key)) = KeyFields(w)
      /\ PeerKeyState(w, key).gate = w.gate
      /\ PeerKeyState(w, key).retransmit_count = w.retransmit_count
      /\ w.state # "Degraded" => PeerKeyState(w, key).state # "Degraded"
  BY <1>1, PeerKeyType DEF PeerKeyState, EndpointState, KeyFields
<1> QED
  BY <1>1, <1>2 DEF w

LEMMA StagedMore ==
  ASSUME NEW s \in EndpointState, NEW key \in Keys, NEW ok \in BOOLEAN
  PROVE  /\ Staged(s, key, ok).version = s.version /\ Staged(s, key, ok).sent = s.sent
         /\ Staged(s, key, ok).current_peer = s.current_peer /\ Staged(s, key, ok).prev_peer = s.prev_peer
         /\ Staged(s, key, ok).current_self = s.current_self /\ Staged(s, key, ok).state = s.state
         /\ Staged(s, key, ok).retransmit_count = 0
BY DEF Staged, EndpointState

LEMMA RotatedMore ==
  ASSUME NEW e \in Endpoints, NEW s \in EndpointState, NEW ok \in BOOLEAN
  PROVE  /\ Rotated(e, s, ok).version = s.version /\ Rotated(e, s, ok).sent = s.sent
         /\ Rotated(e, s, ok).current_peer = s.current_peer /\ Rotated(e, s, ok).prev_peer = s.prev_peer
         /\ Rotated(e, s, ok).current_self = s.current_self /\ Rotated(e, s, ok).state = s.state
         /\ CanRotate(e, s) => ~Rotated(e, s, ok).gate /\ Rotated(e, s, ok).retransmit_count = 0
         /\ \A cfg \in RotateConfig(e, s, ok) : cfg.version = OutgoingVersion(e, s)
<1>1. CASE ~CanRotate(e, s)
  BY <1>1 DEF Rotated, RotateConfig
<1>2. CASE CanRotate(e, s)
  <2> DEFINE t == Staged(s, s.config_counter + 1, ok)
  <2>1. s.config_counter + 1 \in Keys
    BY DEF EndpointState, Keys
  <2>2. /\ t \in EndpointState /\ t.version = s.version /\ t.sent = s.sent
        /\ t.current_peer = s.current_peer /\ t.prev_peer = s.prev_peer
        /\ t.current_self = s.current_self /\ t.state = s.state /\ t.retransmit_count = 0
    BY <2>1, StagedType, StagedMore
  <2>3. Rotated(e, s, ok) = [t EXCEPT !.gate = FALSE]
    BY <1>2 DEF Rotated
  <2>4. \A cfg \in RotateConfig(e, s, ok) : cfg.version = OutgoingVersion(e, s)
    BY DEF RotateConfig
  <2> HIDE DEF t
  <2> QED
    BY <2>2, <2>3, <2>4 DEF EndpointState
<1> QED
  BY <1>1, <1>2

LEMMA AckedMore ==
  ASSUME NEW s \in EndpointState
  PROVE  /\ AckedState(s).version = s.version /\ AckedState(s).sent = s.sent
         /\ AckedState(s).current_peer = s.current_peer /\ AckedState(s).prev_peer = s.prev_peer
         /\ AckedState(s).gate = s.gate /\ AckedState(s).retransmit_count = 0
         /\ AckedState(s).state = "Degraded" <=> s.state = "Degraded"
<1> DEFINE p == Promoted(s)
           q == [p EXCEPT !.retransmit_count = 0]
<1>1. /\ p \in EndpointState /\ p.version = s.version /\ p.sent = s.sent /\ p.current_peer = s.current_peer
      /\ p.prev_peer = s.prev_peer /\ p.gate = s.gate /\ p.state = s.state
  BY DEF Promoted, EndpointState
<1>2. AckedState(s) = IF q.state # "Degraded" /\ has_valid_keys(q) THEN [q EXCEPT !.state = "Active"] ELSE q
  BY DEF AckedState
<1> HIDE DEF p
<1>3. /\ q \in EndpointState /\ q.version = s.version /\ q.sent = s.sent /\ q.current_peer = s.current_peer
      /\ q.prev_peer = s.prev_peer /\ q.gate = s.gate /\ q.state = s.state /\ q.retransmit_count = 0
  BY <1>1, EndpointAssumption DEF EndpointState
<1> HIDE DEF q
<1>4. CASE q.state # "Degraded" /\ has_valid_keys(q)
  BY <1>2, <1>3, <1>4 DEF EndpointState
<1>5. CASE ~(q.state # "Degraded" /\ has_valid_keys(q))
  BY <1>2, <1>3, <1>5
<1> QED
  BY <1>4, <1>5

LEMMA OutgoingOffered ==
  ASSUME NEW e \in Endpoints, NEW s, VersionsMet(e, s)
  PROVE  OutgoingVersion(e, s) \in Offers(e)
BY DEF VersionsMet, OutgoingVersion, Offers

(* The end of a config handler: the acknowledgement, and our own config.   *)
LEMMA AckAndRotateVersion ==
  ASSUME VersionInv, TypeOK', NEW e \in Endpoints, NEW m \in msgs, m.to = e, ~m.ack,
         NEW s \in EndpointState, s.version = Common, s.current_self = ep[e].current_self,
         AckAndRotate(e, m, s), data' = data
  PROVE  VersionInv'
<1>0. /\ TypeOK /\ ep[e] \in EndpointState /\ m.config \in Config /\ ticks \in [Endpoints -> SUBSET Config]
  BY DEF VersionInv, TypeOK, Frame
<1>1. PICK ok \in KeyOutcomes :
        /\ ep' = [ep EXCEPT ![e] = Rotated(e, s, ok)]
        /\ msgs' = (msgs \ {m}) \cup {ConfigFrame(e, [m.config EXCEPT !.version = s.version], TRUE, m.copy)}
                    \cup {ConfigFrame(e, cfg, FALSE, 0) : cfg \in RotateConfig(e, s, ok)}
        /\ ticks' = [ticks EXCEPT ![e] = @ \cup RotateConfig(e, s, ok)]
  BY DEF AckAndRotate
<1>2. VersionsMet(e, s) /\ ok \in BOOLEAN
  BY EndpointAssumption DEF VersionsMet
<1>3. PICK t \in EndpointState : /\ t = Rotated(e, s, ok) /\ t.version = Common
                                 /\ t.current_self = ep[e].current_self
  BY <1>2, RotatedType, RotatedMore
<1>4. VersionKept(e, t)
  BY <1>3 DEF VersionKept, VersionsMet
<1>5. \A cfg \in RotateConfig(e, s, ok) : cfg.version \in Offers(e)
  BY <1>2, OutgoingOffered, RotatedMore
<1>6. \A x \in Endpoints : \A cfg \in ticks'[x] : cfg \in ticks[x] \/ (x = e /\ cfg.version \in Offers(e))
  BY <1>0, <1>1, <1>5
<1>7. ASSUME NEW n \in msgs', n \notin msgs
      PROVE  n.to = Peer(e) /\ n.config.version \in Offers(e) /\ (n.ack => t.version = Common)
  <2>1. CASE n = ConfigFrame(e, [m.config EXCEPT !.version = s.version], TRUE, m.copy)
    <3>1. n.to = Peer(e) /\ n.config = [m.config EXCEPT !.version = Common]
      BY <2>1 DEF ConfigFrame
    <3>2. n.config.version = Common
      BY <1>0, <3>1 DEF Config
    <3> QED
      BY <1>3, <3>1, <3>2 DEF Offers
  <2>2. ASSUME NEW cfg \in RotateConfig(e, s, ok), n = ConfigFrame(e, cfg, FALSE, 0)
        PROVE  n.to = Peer(e) /\ n.config.version \in Offers(e) /\ ~n.ack
    BY <1>5, <2>2 DEF ConfigFrame
  <2> QED
    BY <1>1, <1>3, <1>7, <2>1, <2>2
<1>8. ep' = [ep EXCEPT ![e] = t]
  BY <1>1, <1>3
<1> QED
  BY <1>4, <1>6, <1>7, <1>8, VersionStep

(* A step of e that sends and schedules nothing.                           *)
LEMMA VersionQuiet ==
  ASSUME VersionInv, TypeOK', NEW e \in Endpoints, NEW s, ep' = [ep EXCEPT ![e] = s], VersionKept(e, s),
         \A x \in Endpoints : ticks'[x] \subseteq ticks[x], msgs' \subseteq msgs, data' \subseteq data
  PROVE  VersionInv'
<1>1. \A x \in Endpoints : \A cfg \in ticks'[x] : cfg \in ticks[x]
  OBVIOUS
<1>2. (\A m \in msgs' : m \in msgs) /\ \A p \in data' : p \in data
  OBVIOUS
<1> QED
  BY <1>1, <1>2, VersionStep

LEMMA NextVersion == ASSUME VersionInv, [Next]_vars PROVE VersionInv'
<1>0. /\ TypeOK /\ TypeOK' /\ ep \in [Endpoints -> EndpointState] /\ ticks \in [Endpoints -> SUBSET Config]
      /\ msgs \subseteq Frame /\ KeyOutcomes \subseteq BOOLEAN
  BY NextType, EndpointAssumption DEF VersionInv, TypeOK
<1>ends. ASSUME NEW e \in Endpoints
      PROVE  /\ ep[e] \in EndpointState /\ VersionsMet(e, ep[e]) /\ VersionKept(e, ep[e])
             /\ ep = [ep EXCEPT ![e] = ep[e]]
  BY <1>0 DEF VersionInv, VersionKept
<1>frames. ASSUME NEW m \in msgs PROVE m.to \in Endpoints /\ m.config \in Config /\ m.config.version \in Offers(Peer(m.to))
  BY <1>0 DEF VersionInv, Frame
<1>1. ASSUME ep' = ep, \A x \in Endpoints : ticks'[x] \subseteq ticks[x], msgs' \subseteq msgs, data' \subseteq data
      PROVE  VersionInv'
  <2>1. Client \in Endpoints
    BY EndpointAssumption
  <2>2. VersionKept(Client, ep[Client]) /\ ep' = [ep EXCEPT ![Client] = ep[Client]]
    BY <1>1, <1>ends, <2>1
  <2> QED
    BY <1>0, <1>1, <2>1, <2>2, VersionQuiet
<1>2. CASE UNCHANGED vars
  BY <1>1, <1>2 DEF vars
<1>3. ASSUME NEW e \in Endpoints, Rotate(e) PROVE VersionInv'
  <2>0. PICK ok \in KeyOutcomes : \E cfg \in RotateConfig(e, ep[e], ok) :
          /\ ep' = [ep EXCEPT ![e] = Rotated(e, ep[e], ok)]
          /\ msgs' = msgs \cup {ConfigFrame(e, cfg, FALSE, 0)}
          /\ ticks' = [ticks EXCEPT ![e] = @ \cup {cfg}]
    BY <1>3 DEF Rotate
  <2>1. PICK cfg \in RotateConfig(e, ep[e], ok) :
          /\ ep' = [ep EXCEPT ![e] = Rotated(e, ep[e], ok)]
          /\ msgs' = msgs \cup {ConfigFrame(e, cfg, FALSE, 0)}
          /\ ticks' = [ticks EXCEPT ![e] = @ \cup {cfg}]
    BY <2>0
  <2>2. cfg.version \in Offers(e)
    BY <1>0, <1>ends, OutgoingOffered, RotatedMore
  <2>3. VersionKept(e, Rotated(e, ep[e], ok))
    BY <1>0, <1>ends, RotatedMore DEF VersionKept, VersionsMet
  <2>4. \A n \in msgs' : n \in msgs \/ (n.to = Peer(e) /\ n.config.version \in Offers(e) /\ ~n.ack)
    BY <2>1, <2>2 DEF ConfigFrame
  <2>5. \A x \in Endpoints : \A c \in ticks'[x] : c \in ticks[x] \/ (x = e /\ c.version \in Offers(e))
    BY <1>0, <2>1, <2>2
  <2>6. data' = data
    BY <1>3 DEF Rotate
  <2> QED
    BY <1>0, <2>1, <2>3, <2>4, <2>5, <2>6, VersionStep
<1>4. ASSUME NEW e \in Endpoints, IntervalElapses(e) PROVE VersionInv'
  <2>1. ep' = [ep EXCEPT ![e] = [ep[e] EXCEPT !.gate = TRUE]]
    BY <1>0, <1>4 DEF IntervalElapses
  <2>2. VersionKept(e, [ep[e] EXCEPT !.gate = TRUE])
    BY <1>ends DEF VersionKept, VersionsMet, EndpointState
  <2> QED
    BY <1>0, <1>4, <2>1, <2>2, VersionQuiet DEF IntervalElapses
<1>5. ASSUME NEW e \in Endpoints, NEW cfg \in ticks[e], TickSettled(e, cfg) PROVE VersionInv'
  <2>1. \A x \in Endpoints : ticks'[x] \subseteq ticks[x]
    BY <1>0, <1>5 DEF TickSettled
  <2> QED
    BY <1>1, <1>5, <2>1 DEF TickSettled
<1>6. ASSUME NEW e \in Endpoints, NEW cfg \in ticks[e], TickExhausted(e, cfg) PROVE VersionInv'
  <2>1. \A x \in Endpoints : ticks'[x] \subseteq ticks[x]
    BY <1>0, <1>6 DEF TickExhausted
  <2>2. msgs' \subseteq msgs /\ data' \subseteq data
    BY <1>6 DEF TickExhausted
  <2>3. CASE ep' = ep
    BY <1>1, <2>1, <2>2, <2>3
  <2>4. CASE ep' = [ep EXCEPT ![e] = [ep[e] EXCEPT !.state = "Inactive", !.gate = TRUE]]
    <3>1. VersionKept(e, [ep[e] EXCEPT !.state = "Inactive", !.gate = TRUE])
      BY <1>ends DEF VersionKept, VersionsMet, EndpointState
    <3> QED
      BY <1>0, <2>1, <2>2, <2>4, <3>1, VersionQuiet
  <2>5. \/ ep' = ep
        \/ ep' = [ep EXCEPT ![e] = [ep[e] EXCEPT !.state = "Inactive", !.gate = TRUE]]
    BY <1>0, <1>6 DEF TickExhausted
  <2> QED
    BY <2>3, <2>4, <2>5
<1>7. ASSUME NEW e \in Endpoints, NEW cfg \in ticks[e], TickRetransmit(e, cfg) PROVE VersionInv'
  <2>1. /\ ep' = [ep EXCEPT ![e] = [ep[e] EXCEPT !.retransmit_count = @ + 1]]
        /\ msgs' = msgs \cup {ConfigFrame(e, cfg, FALSE, ep[e].retransmit_count + 1)}
        /\ ticks' = ticks /\ data' = data
    BY <1>0, <1>7 DEF TickRetransmit
  <2>2. VersionKept(e, [ep[e] EXCEPT !.retransmit_count = @ + 1])
    BY <1>ends DEF VersionKept, VersionsMet, EndpointState
  <2>3. cfg.version \in Offers(e)
    BY DEF VersionInv
  <2>4. \A n \in msgs' : n \in msgs \/ (n.to = Peer(e) /\ n.config.version \in Offers(e) /\ ~n.ack)
    BY <2>1, <2>3 DEF ConfigFrame
  <2> QED
    BY <1>0, <2>1, <2>2, <2>4, VersionStep
<1>8. ASSUME NEW e \in Endpoints, Degrade(e) PROVE VersionInv'
  <2>1. PICK ok \in KeyOutcomes, notice \in Config :
          /\ ep' = [ep EXCEPT ![e] = [Staged(ep[e], INVALID, ok) EXCEPT !.state = "Degraded"]]
          /\ msgs' = msgs \cup {ConfigFrame(e, notice, FALSE, 0)}
          /\ ticks' = [ticks EXCEPT ![e] = @ \cup {notice}]
          /\ notice.version = OutgoingVersion(e, ep[e]) /\ data' = data
    <3>1. OutgoingVersion(e, ep[e]) \in Versions
      BY <1>ends, EndpointAssumption DEF OutgoingVersion, Versions, EndpointState
    <3>2. [counter |-> ep[e].config_counter + 1, key |-> INVALID, enabled |-> FALSE,
           version |-> OutgoingVersion(e, ep[e])] \in Config
      BY <1>ends, <3>1 DEF Config, EndpointState, Keys, INVALID
    <3> QED
      BY <1>8, <3>2 DEF Degrade
  <2>2. PICK t \in EndpointState :
          /\ t = Staged(ep[e], INVALID, ok)
          /\ t.version = ep[e].version /\ t.sent = ep[e].sent
          /\ t.current_peer = ep[e].current_peer /\ t.current_self = ep[e].current_self
    BY <1>0, <1>ends, StagedType, StagedMore DEF Keys, INVALID
  <2>3. VersionKept(e, [t EXCEPT !.state = "Degraded"])
    BY <1>ends, <2>2 DEF VersionKept, VersionsMet, EndpointState
  <2>4. notice.version \in Offers(e)
    BY <1>ends, <2>1, OutgoingOffered
  <2>5. \A n \in msgs' : n \in msgs \/ (n.to = Peer(e) /\ n.config.version \in Offers(e) /\ ~n.ack)
    BY <2>1, <2>4 DEF ConfigFrame
  <2>6. \A x \in Endpoints : \A c \in ticks'[x] : c \in ticks[x] \/ (x = e /\ c.version \in Offers(e))
    BY <1>0, <2>1, <2>4
  <2>7. ep' = [ep EXCEPT ![e] = [t EXCEPT !.state = "Degraded"]] /\ data' = data
    BY <2>1, <2>2
  <2> QED
    BY <1>0, <2>3, <2>5, <2>6, <2>7, VersionStep
<1>9. ASSUME NEW e \in Endpoints, SendData(e) PROVE VersionInv'
  <2>1. /\ ep' = [ep EXCEPT ![e] = [ep[e] EXCEPT !.sent = TRUE]]
        /\ data' = data \cup {[to |-> Peer(e), key |-> ep[e].current_self, version |-> ep[e].version]}
        /\ ticks' = ticks /\ msgs' = msgs
        /\ ep[e].current_self # INVALID /\ ep[e].current_peer # INVALID
    BY <1>0, <1>9 DEF SendData, ready, has_valid_keys
  <2>2. ep[e].version = Common /\ ep[Peer(e)].version = Common
    BY <1>ends, <2>1 DEF VersionsMet, VersionInv
  <2>3. VersionKept(e, [ep[e] EXCEPT !.sent = TRUE])
    BY <1>ends, <2>2 DEF VersionKept, VersionsMet, EndpointState
  <2>4. \A p \in data' : p \in data \/ (p.version = Common /\ p.to = Peer(e) /\ ep[p.to].version = Common)
    BY <2>1, <2>2
  <2> QED
    BY <1>0, <2>1, <2>3, <2>4, VersionStep
<1>10. ASSUME NEW e \in Endpoints, NEW m \in msgs, m.to = e,
              HandleAck(e, m) \/ HandleConfigDegraded(e, m) \/ HandleConfigKeyFails(e, m)
       PROVE  VersionInv'
  <2>1. PICK s \in EndpointState : /\ s = AdoptVersion(e, ep[e], m.config.version) /\ s.version = Common
                                   /\ s = [ep[e] EXCEPT !.version = Common]
    BY <1>10, <1>ends, <1>frames, AdoptFields
  <2>2. /\ s.current_self = ep[e].current_self /\ s.current_peer = ep[e].current_peer /\ s.sent = ep[e].sent
    BY <1>ends, <2>1 DEF EndpointState
  <2>3. VersionKept(e, s)
    BY <2>1, <2>2 DEF VersionKept, VersionsMet
  <2>4. VersionKept(e, Woken(s))
    BY <2>1, <2>2 DEF VersionKept, VersionsMet, Woken, EndpointState
  <2>5. ep[Peer(e)].version = Common => VersionKept(e, AckedState(s))
    BY <2>1, AckedMore DEF VersionKept, VersionsMet
  <2>6. m.ack => ep[Peer(e)].version = Common
    BY <1>10 DEF VersionInv
  <2>7. /\ \/ ep' = [ep EXCEPT ![e] = s]
           \/ ep' = [ep EXCEPT ![e] = Woken(s)]
           \/ ep' = [ep EXCEPT ![e] = AckedState(s)] /\ m.ack
        /\ ticks' = ticks /\ msgs' \subseteq msgs /\ data' = data
    BY <1>10, <2>1 DEF HandleAck, HandleConfigDegraded, HandleConfigKeyFails
  <2> QED
    BY <1>0, <2>3, <2>4, <2>5, <2>6, <2>7, VersionQuiet
<1>11. ASSUME NEW e \in Endpoints, NEW m \in msgs, HandleConfigEnabled(e, m) PROVE VersionInv'
  <2>0. m.to = e /\ ~m.ack /\ m.config.key \in Keys /\ data' = data
    BY <1>11, <1>frames DEF HandleConfigEnabled, Config
  <2>1. PICK a \in EndpointState : /\ a = AdoptVersion(e, ep[e], m.config.version) /\ a.version = Common
                                   /\ a.current_self = ep[e].current_self
    <3>1. m.config.version \in Offers(Peer(e))
      BY <1>frames, <2>0
    <3>2. [ep[e] EXCEPT !.version = Common].current_self = ep[e].current_self
      BY <1>ends DEF EndpointState
    <3>3. /\ AdoptVersion(e, ep[e], m.config.version) \in EndpointState
          /\ AdoptVersion(e, ep[e], m.config.version).version = Common
          /\ AdoptVersion(e, ep[e], m.config.version) = [ep[e] EXCEPT !.version = Common]
      BY <1>ends, <3>1, AdoptFields
    <3> QED
      BY <3>2, <3>3
  <2>2. PICK s \in EndpointState : /\ s = PeerKeyState(Woken(a), m.config.key) /\ s.version = Common
                                   /\ s.current_self = ep[e].current_self
    BY <2>0, <2>1, PeerKeyFields
  <2>3. AckAndRotate(e, m, s)
    BY <1>11, <2>1, <2>2 DEF HandleConfigEnabled
  <2> QED
    BY <1>0, <2>0, <2>2, <2>3, AckAndRotateVersion
<1>12. ASSUME NEW e \in Endpoints, NEW m \in msgs, HandleConfigDisabled(e, m) PROVE VersionInv'
  <2>0. m.to = e /\ ~m.ack /\ data' = data
    BY <1>12 DEF HandleConfigDisabled
  <2>1. PICK a \in EndpointState : /\ a = AdoptVersion(e, ep[e], m.config.version) /\ a.version = Common
                                   /\ a.current_self = ep[e].current_self
    <3>1. m.config.version \in Offers(Peer(e))
      BY <1>frames, <2>0
    <3>2. [ep[e] EXCEPT !.version = Common].current_self = ep[e].current_self
      BY <1>ends DEF EndpointState
    <3>3. /\ AdoptVersion(e, ep[e], m.config.version) \in EndpointState
          /\ AdoptVersion(e, ep[e], m.config.version).version = Common
          /\ AdoptVersion(e, ep[e], m.config.version) = [ep[e] EXCEPT !.version = Common]
      BY <1>ends, <3>1, AdoptFields
    <3> QED
      BY <3>2, <3>3
  <2>2. PICK s \in EndpointState : /\ s = [a EXCEPT !.state = "Inactive"] /\ s.version = Common
                                   /\ s.current_self = ep[e].current_self
    <3>1. /\ [a EXCEPT !.state = "Inactive"] \in EndpointState
          /\ [a EXCEPT !.state = "Inactive"].version = a.version
          /\ [a EXCEPT !.state = "Inactive"].current_self = a.current_self
      BY DEF EndpointState, ExpresslaneState
    <3> QED
      BY <2>1, <3>1
  <2>3. AckAndRotate(e, m, s)
    BY <1>12, <2>1, <2>2 DEF HandleConfigDisabled
  <2> QED
    BY <1>0, <2>0, <2>2, <2>3, AckAndRotateVersion
<1>13. ASSUME NEW p \in data, DataLeaves(p) PROVE VersionInv'
  BY <1>1, <1>13 DEF DataLeaves
<1>14. ASSUME NEW m \in msgs, Lose(m) PROVE VersionInv'
  BY <1>1, <1>14 DEF Lose
<1>15. ASSUME NEW e \in Endpoints, NEW m \in msgs, HandleAck(e, m) \/ HandleConfigDegraded(e, m) \/ HandleConfigKeyFails(e, m)
       PROVE  VersionInv'
  BY <1>10, <1>15 DEF HandleAck, HandleConfigDegraded, HandleConfigKeyFails
<1> QED
  BY <1>2, <1>3, <1>4, <1>5, <1>6, <1>7, <1>8, <1>9, <1>11, <1>12, <1>13, <1>14, <1>15 DEF Next, Tick, Receive

(* VersionAgreed: for every pair of builds, every loss, delay and AEAD     *)
(* failure, a data packet in flight was sealed with the AAD layout that its*)
(* receiver has in force (set_version, handle_expresslane_config).         *)
THEOREM VersionsAgree == Spec => []VersionAgreed
<1>1. Init => VersionInv
  <2>1. ASSUME Init, NEW e \in Endpoints PROVE VersionsMet(e, ep[e]) /\ ep[e].current_self = INVALID
    BY <2>1 DEF Init, VersionsMet
  <2> QED
    BY <2>1, InitType DEF Init, VersionInv
<1>2. VersionInv => VersionAgreed
  BY DEF VersionInv, VersionAgreed
<1> QED
  BY <1>1, <1>2, NextVersion, PTL DEF Spec

-----------------------------------------------------------------------------
(* The grace key, while timers outlast a round trip.  InFlight(M, e): the  *)
(* configs of e and their acks among the frames M.                         *)
InFlight(M, e) == {m \in M : IF m.ack THEN m.to = e ELSE m.to # e}
Degraded(s) == s.state = "Degraded"

(* Of the frames O of an end in state s: they carry its latest key share - *)
(* one frame at a time, and a share its peer has not acknowledged - or the *)
(* notice of its degradation.                                              *)
LatestOnly(O, s) ==
  /\ \A m \in O : IF m.config.enabled
                  THEN /\ m.config.key = m.config.counter /\ m.config.counter > s.current_self
                       /\ IF Degraded(s) THEN m.config.counter + 1 = s.config_counter
                          ELSE m.config.counter = s.config_counter
                  ELSE Degraded(s) /\ m.config.counter = s.config_counter
  /\ \A a, b \in O : a.config.counter = b.config.counter => a = b

(* A tick runs for the latest config while a frame of it is under way, and *)
(* none does once the end may rotate again.                                *)
Ticking(O, T, s) ==
  /\ \A cfg \in T : cfg.counter = s.config_counter => /\ cfg.enabled <=> ~Degraded(s)
                                                      /\ cfg.enabled => cfg.key = cfg.counter
  /\ ~Degraded(s) => /\ \A cfg \in T : cfg.counter = s.config_counter
                     /\ \A a, b \in T : a = b
                     /\ s.gate => T = {} /\ O = {}
                     /\ O # {} => T # {}

Counted(s, cur) ==
  /\ s.current_self <= s.config_counter /\ cur <= s.config_counter
  /\ Degraded(s) => s.current_self < s.config_counter
  /\ ~Degraded(s) => \/ s.next_self = s.config_counter
                     \/ s.next_self = None /\ s.current_self = s.config_counter

(* An acknowledged key share is the one installed; one that arrives again  *)
(* was retransmitted.                                                      *)
Answered(O, s, cur) ==
  \A m \in O : m.config.enabled => IF m.ack THEN cur = m.config.counter
                                   ELSE cur = m.config.counter => s.retransmit_count > 0 \/ Degraded(s)

(* The peer, with its keys cur and prev, holds the key in use.             *)
Held(s, cur, prev) ==
  s.current_self # INVALID =>
    \/ s.config_counter > s.current_self + 1
    \/ cur = s.current_self
    \/ /\ ~Degraded(s) /\ s.config_counter = s.current_self + 1
       /\ (cur = s.config_counter /\ prev = s.current_self) \/ s.retransmit_count > 0

Graced(O, T, s, cur, prev) ==
  LatestOnly(O, s) /\ Ticking(O, T, s) /\ Counted(s, cur) /\ Answered(O, s, cur) /\ Held(s, cur, prev)

GraceInv ==
  /\ KeyInv /\ VersionInv
  /\ \A e \in Endpoints : Graced(InFlight(msgs, e), ticks[e], ep[e], ep[Peer(e)].current_peer, ep[Peer(e)].prev_peer)
  /\ \A p \in data : p.key # INVALID

LEMMA StateNumbers ==
  ASSUME NEW s \in EndpointState
  PROVE  s.config_counter \in Nat /\ s.current_self \in Nat /\ s.retransmit_count \in Nat
BY EndpointAssumption DEF EndpointState, Keys

LEMMA FrameNumbers ==
  ASSUME NEW O, O \subseteq Frame
  PROVE  \A m \in O : m.config.counter \in Nat /\ m.config.key \in Nat /\ m.config.enabled \in BOOLEAN /\ m.ack \in BOOLEAN
BY DEF Frame, Config, Keys

(* e shares a new key: nothing older is under way.                         *)
LEMMA GraceShare ==
  ASSUME NEW O, O \subseteq Frame, NEW T, NEW s \in EndpointState, NEW t \in EndpointState, NEW cur \in Nat, NEW prev \in Nat,
         Graced(O, T, s, cur, prev), ~Degraded(s), s.gate, ~Degraded(t), ~t.gate,
         t.config_counter = s.config_counter + 1, t.next_self = t.config_counter, t.current_self = s.current_self,
         NEW f, ~f.ack, NEW cfg \in Config, f.config = cfg,
         cfg.counter = t.config_counter, cfg.key = cfg.counter, cfg.enabled
  PROVE  Graced(O \cup {f}, T \cup {cfg}, t, cur, prev)
<1>1. O = {} /\ T = {}
  BY DEF Graced, Ticking
<1>2. /\ s.config_counter \in Nat /\ s.current_self \in Nat /\ s.current_self <= s.config_counter /\ cur <= s.config_counter
  BY StateNumbers DEF Graced, Counted
<1>3. LatestOnly(O \cup {f}, t)
  BY <1>1, <1>2 DEF LatestOnly
<1>4. Ticking(O \cup {f}, T \cup {cfg}, t)
  BY <1>1, <1>2 DEF Ticking
<1>5. Counted(t, cur)
  BY <1>2 DEF Counted
<1>6. Answered(O \cup {f}, t, cur)
  BY <1>1, <1>2 DEF Answered
<1>7. Held(t, cur, prev)
  BY <1>2 DEF Held, Graced
<1> QED
  BY <1>3, <1>4, <1>5, <1>6, <1>7 DEF Graced

(* e gives up the path: its last key share may still be under way.         *)
LEMMA GraceNotice ==
  ASSUME NEW O, O \subseteq Frame, NEW T, T \subseteq Config, NEW s \in EndpointState, NEW t \in EndpointState,
         NEW cur \in Nat, NEW prev \in Nat,
         Graced(O, T, s, cur, prev), ~Degraded(s), Degraded(t),
         t.config_counter = s.config_counter + 1, t.current_self = s.current_self,
         NEW f, ~f.ack, NEW cfg \in Config, f.config = cfg, cfg.counter = t.config_counter, ~cfg.enabled
  PROVE  Graced(O \cup {f}, T \cup {cfg}, t, cur, prev)
<1>2. /\ s.config_counter \in Nat /\ s.current_self \in Nat /\ s.current_self <= s.config_counter /\ cur <= s.config_counter
  BY StateNumbers DEF Graced, Counted
<1>3. \A m \in O : m.config.enabled /\ m.config.counter = s.config_counter /\ m.config.counter \in Nat
  BY FrameNumbers DEF Graced, LatestOnly
<1>4. \A c \in T : c.counter = s.config_counter /\ c.counter \in Nat
  BY DEF Graced, Ticking, Config, Keys
<1>5. LatestOnly(O \cup {f}, t)
  BY <1>2, <1>3 DEF LatestOnly, Graced
<1>6. Ticking(O \cup {f}, T \cup {cfg}, t)
  BY <1>2, <1>4 DEF Ticking
<1>7. Counted(t, cur)
  BY <1>2 DEF Counted
<1>8. Answered(O \cup {f}, t, cur)
  BY DEF Answered, Graced
<1>9. Held(t, cur, prev)
  BY <1>2 DEF Held, Graced
<1> QED
  BY <1>5, <1>6, <1>7, <1>8, <1>9 DEF Graced

(* The fields Graced speaks about.                                         *)
Alike(s, t) ==
  /\ t.config_counter = s.config_counter /\ t.current_self = s.current_self /\ t.next_self = s.next_self
  /\ Degraded(t) <=> Degraded(s)

(* Frames are lost, versions adopted, peers' keys installed.               *)
LEMMA GraceSame ==
  ASSUME NEW O, NEW P, P \subseteq O, NEW T, NEW s, NEW t, NEW cur, NEW prev,
         Graced(O, T, s, cur, prev), Alike(s, t), t.gate = s.gate, t.retransmit_count = s.retransmit_count
  PROVE  Graced(P, T, t, cur, prev)
<1>1. LatestOnly(P, t)
  BY DEF LatestOnly, Graced, Alike
<1>2. Ticking(P, T, t)
  BY DEF Ticking, Graced, Alike
<1>3. Counted(t, cur) /\ Held(t, cur, prev)
  BY DEF Counted, Held, Graced, Alike
<1>4. Answered(P, t, cur)
  BY DEF Answered, Graced, Alike
<1> QED
  BY <1>1, <1>2, <1>3, <1>4 DEF Graced

(* The tick of a config ends, nothing of which is under way.               *)
LEMMA GraceTick ==
  ASSUME NEW O, NEW T, NEW s, NEW t, NEW cur, NEW prev, NEW cfg \in T,
         Graced(O, T, s, cur, prev), Alike(s, t), t.retransmit_count = s.retransmit_count,
         \A m \in O : m.config.counter # cfg.counter
  PROVE  Graced(O, T \ {cfg}, t, cur, prev)
<1>1. LatestOnly(O, t)
  BY DEF LatestOnly, Graced, Alike
<1>2. Ticking(O, T \ {cfg}, t)
  <2>1. CASE Degraded(s)
    BY <2>1 DEF Ticking, Graced, Alike
  <2>2. CASE ~Degraded(s)
    <3>1. O = {}
      BY <2>2 DEF Ticking, LatestOnly, Graced
    <3>2. T \ {cfg} = {}
      BY <2>2 DEF Ticking, Graced
    <3> QED
      BY <2>2, <3>1, <3>2 DEF Ticking, Alike
  <2> QED
    BY <2>1, <2>2
<1>3. Counted(t, cur) /\ Held(t, cur, prev)
  BY DEF Counted, Held, Graced, Alike
<1>4. Answered(O, t, cur)
  BY DEF Answered, Graced, Alike
<1> QED
  BY <1>1, <1>2, <1>3, <1>4 DEF Graced

(* A config is retransmitted, nothing of which is under way.               *)
LEMMA GraceRepeat ==
  ASSUME NEW O, NEW T, NEW s \in EndpointState, NEW t, NEW cur \in Nat, NEW prev, NEW cfg \in T, cfg \in Config,
         Graced(O, T, s, cur, prev), Alike(s, t), t.gate = s.gate, t.retransmit_count > 0,
         \A m \in O : m.config.counter # cfg.counter,
         cfg.counter = s.config_counter, cfg.key # s.current_self, NEW f, f.config = cfg, ~f.ack
  PROVE  Graced(O \cup {f}, T, t, cur, prev)
<1>0. s.config_counter \in Nat /\ s.current_self \in Nat /\ s.current_self <= s.config_counter
  BY StateNumbers DEF Graced, Counted
<1>1. IF Degraded(s) THEN ~cfg.enabled ELSE cfg.enabled /\ cfg.key = cfg.counter /\ cfg.counter > s.current_self
  <2>1. (cfg.enabled <=> ~Degraded(s)) /\ (cfg.enabled => cfg.key = cfg.counter)
    BY DEF Graced, Ticking
  <2> QED
    BY <1>0, <2>1
<1>2. LatestOnly(O \cup {f}, t)
  <2>1. \A m \in O \cup {f} : IF m.config.enabled
                  THEN /\ m.config.key = m.config.counter /\ m.config.counter > t.current_self
                       /\ IF Degraded(t) THEN m.config.counter + 1 = t.config_counter
                          ELSE m.config.counter = t.config_counter
                  ELSE Degraded(t) /\ m.config.counter = t.config_counter
    BY <1>1 DEF LatestOnly, Graced, Alike
  <2>2. \A a, b \in O \cup {f} : a.config.counter = b.config.counter => a = b
    BY DEF LatestOnly, Graced
  <2> QED
    BY <2>1, <2>2 DEF LatestOnly
<1>3. Ticking(O \cup {f}, T, t)
  BY DEF Ticking, Graced, Alike
<1>4. Counted(t, cur) /\ Held(t, cur, prev)
  BY DEF Counted, Held, Graced, Alike
<1>5. Answered(O \cup {f}, t, cur)
  BY DEF Answered, Graced, Alike
<1> QED
  BY <1>2, <1>3, <1>4, <1>5 DEF Graced

(* The latest config is acknowledged: its key, staged until now, is used.  *)
LEMMA GraceAck ==
  ASSUME NEW O, O \subseteq Frame, NEW T, NEW s \in EndpointState, NEW t \in EndpointState, NEW cur \in Nat, NEW prev,
         Graced(O, T, s, cur, prev), NEW m \in O, m.ack, m.config.counter = s.config_counter,
         s.next_self # None => m.config.key = s.next_self, m.config.enabled \/ m.config.key = INVALID,
         t.config_counter = s.config_counter, t.next_self = None,
         t.current_self = IF s.next_self = None THEN s.current_self ELSE s.next_self,
         t.gate = s.gate, Degraded(t) <=> Degraded(s)
  PROVE  Graced(O \ {m}, T, t, cur, prev)
<1>0. /\ s.config_counter \in Nat /\ s.current_self \in Nat /\ t.current_self \in Nat
      /\ \A o \in O : o.config.counter \in Nat
  BY StateNumbers, FrameNumbers
<1>1. LatestOnly(O, s) /\ Ticking(O, T, s) /\ Counted(s, cur) /\ Answered(O, s, cur) /\ Held(s, cur, prev)
  BY DEF Graced
<1>2. CASE ~Degraded(s)
  <2>0. m.config.enabled /\ m.config.counter > s.current_self
    BY <1>1, <1>2 DEF LatestOnly
  <2>1. m.config.enabled /\ m.config.counter > s.current_self /\ cur = s.config_counter
    <3>1. m.config.enabled => IF m.ack THEN cur = m.config.counter
                              ELSE cur = m.config.counter => s.retransmit_count > 0 \/ Degraded(s)
      BY <1>1 DEF Answered
    <3>2. cur = m.config.counter
      BY <2>0, <3>1, Zenon
    <3> QED
      BY <2>0, <3>2
  <2>2. t.current_self = s.config_counter
    <3>1. s.next_self = s.config_counter /\ s.config_counter # None
      BY <1>0, <1>1, <1>2, <2>1, EndpointAssumption DEF Counted
    <3> QED
      BY <3>1
  <2>3. O \ {m} = {}
    BY <1>1, <1>2 DEF LatestOnly
  <2>4. LatestOnly(O \ {m}, t) /\ Answered(O \ {m}, t, cur)
    BY <2>3 DEF LatestOnly, Answered
  <2>5. Ticking(O \ {m}, T, t)
    BY <1>1, <1>2, <2>3 DEF Ticking
  <2>6. Counted(t, cur) /\ Held(t, cur, prev)
    BY <1>0, <1>1, <1>2, <2>1, <2>2 DEF Counted, Held
  <2> QED
    BY <2>4, <2>5, <2>6 DEF Graced
<1>3. CASE Degraded(s)
  <2>1. ~m.config.enabled
    BY <1>0, <1>1, <1>3 DEF LatestOnly
  <2>2. t.current_self = s.current_self \/ t.current_self = INVALID
    BY <2>1
  <2>3. t.current_self <= s.current_self
    BY <1>0, <2>2 DEF INVALID
  <2>4. LatestOnly(O \ {m}, t)
    <3>1. \A o \in O \ {m} : IF o.config.enabled
                    THEN /\ o.config.key = o.config.counter /\ o.config.counter > t.current_self
                         /\ o.config.counter + 1 = t.config_counter
                    ELSE o.config.counter = t.config_counter
      BY <1>0, <1>1, <1>3, <2>3 DEF LatestOnly
    <3> QED
      BY <1>1, <1>3, <3>1 DEF LatestOnly
  <2>5. Answered(O \ {m}, t, cur)
    BY <1>1, <1>3 DEF Answered
  <2>6. Ticking(O \ {m}, T, t)
    BY <1>1, <1>3 DEF Ticking
  <2>7. Counted(t, cur) /\ Held(t, cur, prev)
    BY <1>0, <1>1, <1>3, <2>2, <2>3 DEF Counted, Held
  <2> QED
    BY <2>4, <2>5, <2>6, <2>7 DEF Graced
<1> QED
  BY <1>2, <1>3

(* The peer answers a config, installing the key it carries.               *)
LEMMA GraceTake ==
  ASSUME NEW O, O \subseteq Frame, NEW T, NEW s \in EndpointState, NEW cur \in Nat, NEW prev,
         Graced(O, T, s, cur, prev), NEW m \in O, ~m.ack, NEW a, a.ack,
         a.config.counter = m.config.counter, a.config.key = m.config.key, a.config.enabled = m.config.enabled,
         NEW nowCur, NEW nowPrev,
         IF m.config.enabled THEN nowCur = m.config.key /\ nowPrev = cur ELSE nowCur = cur /\ nowPrev = prev
  PROVE  Graced((O \ {m}) \cup {a}, T, s, nowCur, nowPrev)
<1>0. /\ s.config_counter \in Nat /\ s.current_self \in Nat
      /\ \A o \in O : o.config.counter \in Nat
  BY StateNumbers, FrameNumbers
<1>1. LatestOnly(O, s) /\ Ticking(O, T, s) /\ Counted(s, cur) /\ Answered(O, s, cur) /\ Held(s, cur, prev)
  BY DEF Graced
<1> DEFINE P == (O \ {m}) \cup {a}
<1>2. LatestOnly(P, s)
  <2>1. \A o \in P : IF o.config.enabled
                  THEN /\ o.config.key = o.config.counter /\ o.config.counter > s.current_self
                       /\ IF Degraded(s) THEN o.config.counter + 1 = s.config_counter
                          ELSE o.config.counter = s.config_counter
                  ELSE Degraded(s) /\ o.config.counter = s.config_counter
    BY <1>1 DEF LatestOnly
  <2>2. \A x, y \in P : x.config.counter = y.config.counter => x = y
    BY <1>1 DEF LatestOnly
  <2> QED
    BY <2>1, <2>2 DEF LatestOnly
<1>3. Ticking(P, T, s)
  BY <1>1 DEF Ticking
<1>4. CASE m.config.enabled
  <2>1. /\ m.config.key = m.config.counter /\ m.config.counter > s.current_self
        /\ IF Degraded(s) THEN m.config.counter + 1 = s.config_counter ELSE m.config.counter = s.config_counter
    BY <1>1, <1>4 DEF LatestOnly
  <2>2. \A o \in O \ {m} : ~o.config.enabled
    BY <1>0, <1>1, <1>4 DEF LatestOnly
  <2>3. Answered(P, s, nowCur)
    BY <1>4, <2>1, <2>2 DEF Answered
  <2>4. Counted(s, nowCur)
    BY <1>0, <1>1, <1>4, <2>1 DEF Counted
  <2>5. CASE Degraded(s)
    BY <1>0, <1>2, <1>3, <2>1, <2>3, <2>4, <2>5 DEF Graced, Held
  <2>6. CASE ~Degraded(s)
    <3>1. cur = s.config_counter => s.retransmit_count > 0
      BY <1>1, <1>4, <2>1, <2>6 DEF Answered
    <3>2. Held(s, nowCur, nowPrev)
      BY <1>0, <1>1, <1>4, <2>1, <2>6, <3>1 DEF Held
    <3> QED
      BY <1>2, <1>3, <2>3, <2>4, <3>2 DEF Graced
  <2> QED
    BY <2>5, <2>6
<1>5. CASE ~m.config.enabled
  <2>1. Answered(P, s, nowCur)
    BY <1>1, <1>5 DEF Answered
  <2> QED
    BY <1>1, <1>2, <1>3, <1>5, <2>1 DEF Graced
<1> QED
  BY <1>4, <1>5

(* rotate_expresslane_key, whether or not it is due.                       *)
LEMMA GraceRotate ==
  ASSUME NEW e \in Endpoints, NEW O, O \subseteq Frame, NEW T, NEW s \in EndpointState, NEW cur \in Nat, NEW prev \in Nat,
         Graced(O, T, s, cur, prev)
  PROVE  Graced(O \cup {ConfigFrame(e, cfg, FALSE, 0) : cfg \in RotateConfig(e, s, TRUE)},
                T \cup RotateConfig(e, s, TRUE), Rotated(e, s, TRUE), cur, prev)
<1>1. CASE ~CanRotate(e, s)
  <2>1. Rotated(e, s, TRUE) = s /\ RotateConfig(e, s, TRUE) = {}
    BY <1>1 DEF Rotated, RotateConfig
  <2>2. O \cup {ConfigFrame(e, cfg, FALSE, 0) : cfg \in {}} = O /\ T \cup {} = T
    OBVIOUS
  <2> QED
    BY <2>1, <2>2
<1>2. CASE CanRotate(e, s)
  <2>1. PICK cfg : RotateConfig(e, s, TRUE) = {cfg}
    BY <1>2 DEF RotateConfig
  <2>2. PICK t \in EndpointState :
          /\ t = Rotated(e, s, TRUE) /\ ~t.gate /\ t.state = s.state
          /\ t.config_counter = s.config_counter + 1 /\ t.next_self = s.config_counter + 1
          /\ t.current_self = s.current_self
          /\ cfg.counter = s.config_counter + 1 /\ cfg.key = s.config_counter + 1 /\ cfg.enabled
    <3>1. RotateConfig(e, s, TRUE) # {} /\ cfg \in RotateConfig(e, s, TRUE)
      BY <2>1
    <3>2. Rotated(e, s, TRUE) \in EndpointState
      BY RotatedType
    <3>3. ~Rotated(e, s, TRUE).gate /\ Rotated(e, s, TRUE).state = s.state
      BY <1>2, RotatedMore
    <3>4. /\ Rotated(e, s, TRUE).config_counter = s.config_counter + 1
          /\ Rotated(e, s, TRUE).next_self = s.config_counter + 1
          /\ Rotated(e, s, TRUE).current_self = s.current_self
          /\ cfg.counter = s.config_counter + 1 /\ cfg.key = s.config_counter + 1 /\ cfg.enabled
      BY <3>1, RotatedFields
    <3> QED
      BY <3>2, <3>3, <3>4
  <2>3. cfg \in Config
    BY <2>1, RotatedType
  <2>4. ~Degraded(s) /\ s.gate /\ ~Degraded(t)
    BY <1>2, <2>2 DEF CanRotate, Degraded
  <2>5. PICK f : f = ConfigFrame(e, cfg, FALSE, 0) /\ ~f.ack /\ f.config = cfg
    <3>1. ~ConfigFrame(e, cfg, FALSE, 0).ack /\ ConfigFrame(e, cfg, FALSE, 0).config = cfg
      BY DEF ConfigFrame
    <3> QED
      BY <3>1
  <2>6. Graced(O \cup {f}, T \cup {cfg}, t, cur, prev)
    BY <2>2, <2>3, <2>4, <2>5, GraceShare
  <2>7. {ConfigFrame(e, c, FALSE, 0) : c \in RotateConfig(e, s, TRUE)} = {f}
    BY <2>1, <2>5
  <2> QED
    BY <2>1, <2>2, <2>6, <2>7
<1> QED
  BY <1>1, <1>2

(* The rotation interval passes, no retry cycle being under way.           *)
LEMMA GraceGate ==
  ASSUME NEW O, NEW T, NEW s, NEW t, NEW cur, NEW prev,
         Graced(O, T, s, cur, prev), T = {}, Alike(s, t), t.retransmit_count = s.retransmit_count
  PROVE  Graced(O, T, t, cur, prev)
<1>1. LatestOnly(O, t)
  BY DEF LatestOnly, Graced, Alike
<1>2. Ticking(O, T, t)
  BY DEF Ticking, Graced, Alike
<1>3. Counted(t, cur) /\ Held(t, cur, prev)
  BY DEF Counted, Held, Graced, Alike
<1>4. Answered(O, t, cur)
  BY DEF Answered, Graced, Alike
<1> QED
  BY <1>1, <1>2, <1>3, <1>4 DEF Graced

(* Whose frame is whose.                                                   *)
LEMMA FlightSub ==
  ASSUME NEW M, NEW N, M \subseteq N, NEW e
  PROVE  InFlight(M, e) \subseteq InFlight(N, e)
BY DEF InFlight

LEMMA FlightSent ==
  ASSUME NEW e \in Endpoints, NEW M, NEW F, \A f \in F : ~f.ack /\ f.to = Peer(e)
  PROVE  /\ InFlight(M \cup F, e) = InFlight(M, e) \cup F
         /\ InFlight(M \cup F, Peer(e)) = InFlight(M, Peer(e))
BY PeerFacts DEF InFlight

LEMMA FlightAcked ==
  ASSUME NEW e \in Endpoints, NEW M, NEW m \in M, m.ack, m.to = e
  PROVE  /\ m \in InFlight(M, e) /\ InFlight(M \ {m}, e) = InFlight(M, e) \ {m}
         /\ InFlight(M \ {m}, Peer(e)) \subseteq InFlight(M, Peer(e))
BY DEF InFlight

(* Only e takes a step.                                                    *)
LEMMA GraceStep ==
  ASSUME KeyInv', VersionInv', NEW e \in Endpoints, ep'[Peer(e)] = ep[Peer(e)], ticks'[Peer(e)] = ticks[Peer(e)],
         Graced(InFlight(msgs', e), ticks'[e], ep'[e], ep[Peer(e)].current_peer, ep[Peer(e)].prev_peer),
         Graced(InFlight(msgs', Peer(e)), ticks[Peer(e)], ep[Peer(e)], ep'[e].current_peer, ep'[e].prev_peer),
         \A p \in data' : p.key # INVALID
  PROVE  GraceInv'
<1>1. \A x \in Endpoints : x # e => x = Peer(e)
  BY PeerFacts
<1>2. Peer(Peer(e)) = e
  BY PeerFacts
<1>3. ASSUME NEW x \in Endpoints
      PROVE  Graced(InFlight(msgs', x), ticks'[x], ep'[x], ep'[Peer(x)].current_peer, ep'[Peer(x)].prev_peer)
  <2>1. CASE x = e
    BY <2>1
  <2>2. CASE x = Peer(e)
    BY <1>2, <2>2
  <2> QED
    BY <1>1, <2>1, <2>2
<1> QED
  BY <1>3 DEF GraceInv

(* What a state e adopts from s may change without touching Graced.        *)
Kept(s, t) == Alike(s, t) /\ t.gate = s.gate /\ t.retransmit_count = s.retransmit_count

(* The end of a config handler: the acknowledgement, and our own config.   *)
LEMMA AckAndRotateGrace ==
  ASSUME GraceInv, KeyInv', VersionInv', KeyOutcomes = {TRUE},
         NEW e \in Endpoints, NEW m \in msgs, m.to = e, ~m.ack,
         NEW s \in EndpointState, Kept(ep[e], s), AckAndRotate(e, m, s), data' = data,
         IF m.config.enabled THEN s.current_peer = m.config.key /\ s.prev_peer = ep[e].current_peer
         ELSE s.current_peer = ep[e].current_peer /\ s.prev_peer = ep[e].prev_peer
  PROVE  GraceInv'
<1> DEFINE a == ConfigFrame(e, [m.config EXCEPT !.version = s.version], TRUE, m.copy)
           own == RotateConfig(e, s, TRUE)
           sent == {ConfigFrame(e, cfg, FALSE, 0) : cfg \in own}
           q == Peer(e)
<1>0. /\ TypeOK /\ q \in Endpoints /\ q # e /\ Peer(q) = e
      /\ ep[e] \in EndpointState /\ ep[q] \in EndpointState /\ msgs \subseteq Frame /\ m.config \in Config
      /\ ep \in [Endpoints -> EndpointState] /\ ticks \in [Endpoints -> SUBSET Config]
  BY PeerFacts DEF GraceInv, KeyInv, TypeOK, Frame
<1>1. /\ ep' = [ep EXCEPT ![e] = Rotated(e, s, TRUE)]
      /\ msgs' = (msgs \ {m}) \cup {a} \cup sent
      /\ ticks' = [ticks EXCEPT ![e] = @ \cup own]
  BY DEF AckAndRotate
<1>2. a.ack /\ a.to = Peer(e) /\ a.config = [m.config EXCEPT !.version = s.version]
  BY DEF ConfigFrame
<1>3. a.config.counter = m.config.counter /\ a.config.key = m.config.key /\ a.config.enabled = m.config.enabled
  BY <1>0, <1>2 DEF Config
<1>4. \A f \in sent : ~f.ack /\ f.to = Peer(e)
  <2>1. \A cfg : ~ConfigFrame(e, cfg, FALSE, 0).ack /\ ConfigFrame(e, cfg, FALSE, 0).to = Peer(e)
    BY DEF ConfigFrame
  <2> QED
    BY <2>1
<1>5. /\ ep[q].current_peer \in Nat /\ ep[q].prev_peer \in Nat /\ ep[e].current_peer \in Nat
      /\ InFlight(msgs, e) \subseteq Frame /\ InFlight(msgs, q) \subseteq Frame
  BY <1>0 DEF EndpointState, Keys, InFlight
<1>6. /\ Graced(InFlight(msgs, e), ticks[e], ep[e], ep[q].current_peer, ep[q].prev_peer)
      /\ Graced(InFlight(msgs, q), ticks[q], ep[q], ep[e].current_peer, ep[e].prev_peer)
      /\ \A p \in data : p.key # INVALID
  BY <1>0 DEF GraceInv
<1> HIDE DEF a, own, sent, q
<1>7. /\ m \in InFlight(msgs, q) /\ InFlight(msgs', e) = InFlight(msgs, e) \cup sent
      /\ InFlight(msgs', q) = (InFlight(msgs, q) \ {m}) \cup {a}
  <2>1. /\ m \in InFlight(msgs, q) /\ InFlight((msgs \ {m}) \cup {a}, e) = InFlight(msgs, e)
        /\ InFlight((msgs \ {m}) \cup {a}, q) = (InFlight(msgs, q) \ {m}) \cup {a}
    <3>1. /\ m \in InFlight(msgs, Peer(e)) /\ InFlight((msgs \ {m}) \cup {a}, e) = InFlight(msgs, e)
          /\ InFlight((msgs \ {m}) \cup {a}, Peer(e)) = (InFlight(msgs, Peer(e)) \ {m}) \cup {a}
      BY <1>2, PeerFacts DEF InFlight
    <3> QED
      BY <3>1 DEF q
  <2>2. /\ InFlight((msgs \ {m}) \cup {a} \cup sent, e) = InFlight((msgs \ {m}) \cup {a}, e) \cup sent
        /\ InFlight((msgs \ {m}) \cup {a} \cup sent, q) = InFlight((msgs \ {m}) \cup {a}, q)
    BY <1>4, FlightSent DEF q
  <2> QED
    BY <1>1, <2>1, <2>2
<1>8. Graced(InFlight(msgs', e), ticks'[e], ep'[e], ep[q].current_peer, ep[q].prev_peer)
  <2>1. Graced(InFlight(msgs, e), ticks[e], s, ep[q].current_peer, ep[q].prev_peer)
    BY <1>6, GraceSame DEF Kept
  <2>2. Graced(InFlight(msgs, e) \cup sent, ticks[e] \cup own, Rotated(e, s, TRUE), ep[q].current_peer, ep[q].prev_peer)
    BY <1>5, <2>1, GraceRotate DEF sent, own
  <2>3. ticks'[e] = ticks[e] \cup own /\ ep'[e] = Rotated(e, s, TRUE)
    BY <1>0, <1>1
  <2> QED
    BY <1>7, <2>2, <2>3
<1>9. ep'[e].current_peer = s.current_peer /\ ep'[e].prev_peer = s.prev_peer
  BY <1>0, <1>1, RotatedMore
<1>10. Graced(InFlight(msgs', q), ticks[q], ep[q], ep'[e].current_peer, ep'[e].prev_peer)
  <2>1. Graced((InFlight(msgs, q) \ {m}) \cup {a}, ticks[q], ep[q], s.current_peer, s.prev_peer)
    BY <1>0, <1>2, <1>3, <1>5, <1>6, <1>7, GraceTake
  <2> QED
    BY <1>7, <1>9, <2>1
<1>11. ep'[q] = ep[q] /\ ticks'[q] = ticks[q]
  BY <1>0, <1>1
<1> QED
  BY <1>6, <1>8, <1>10, <1>11, GraceStep DEF q

(* A step of e that sends nothing and changes neither key of its peer.     *)
LEMMA GraceQuiet ==
  ASSUME GraceInv, KeyInv', VersionInv', NEW e \in Endpoints,
         \A x \in Endpoints : x # e => ep'[x] = ep[x] /\ ticks'[x] = ticks[x],
         ep'[e].current_peer = ep[e].current_peer, ep'[e].prev_peer = ep[e].prev_peer,
         InFlight(msgs', Peer(e)) \subseteq InFlight(msgs, Peer(e)),
         Graced(InFlight(msgs', e), ticks'[e], ep'[e], ep[Peer(e)].current_peer, ep[Peer(e)].prev_peer),
         \A p \in data' : p.key # INVALID
  PROVE  GraceInv'
<1>1. Peer(e) \in Endpoints /\ Peer(e) # e /\ Peer(Peer(e)) = e
  BY PeerFacts
<1>2. Graced(InFlight(msgs, Peer(e)), ticks[Peer(e)], ep[Peer(e)], ep[e].current_peer, ep[e].prev_peer)
  BY <1>1 DEF GraceInv
<1>3. Alike(ep[Peer(e)], ep[Peer(e)])
  BY DEF Alike
<1>4. Graced(InFlight(msgs', Peer(e)), ticks[Peer(e)], ep[Peer(e)], ep[e].current_peer, ep[e].prev_peer)
  BY <1>2, <1>3, GraceSame
<1> QED
  BY <1>1, <1>4, GraceStep

LEMMA NextGrace ==
  ASSUME GraceInv, [Next]_vars, KeyOutcomes = {TRUE}, Timely
  PROVE  GraceInv'
<1>0. /\ TypeOK /\ KeyInv' /\ VersionInv' /\ KeyInv /\ VersionInv
      /\ ep \in [Endpoints -> EndpointState] /\ ticks \in [Endpoints -> SUBSET Config] /\ msgs \subseteq Frame
      /\ \A p \in data : p.key # INVALID
  BY NextKey, NextVersion DEF GraceInv, KeyInv, TypeOK
<1>ends. ASSUME NEW e \in Endpoints
      PROVE  /\ ep[e] \in EndpointState /\ Kept(ep[e], ep[e])
             /\ Peer(e) \in Endpoints /\ Peer(e) # e /\ Peer(Peer(e)) = e
             /\ ep[Peer(e)].current_peer \in Nat /\ ep[Peer(e)].prev_peer \in Nat
             /\ InFlight(msgs, e) \subseteq Frame /\ ticks[e] \subseteq Config
             /\ Graced(InFlight(msgs, e), ticks[e], ep[e], ep[Peer(e)].current_peer, ep[Peer(e)].prev_peer)
  <2>1. Peer(e) \in Endpoints /\ Peer(e) # e /\ Peer(Peer(e)) = e
    BY PeerFacts
  <2>2. ep[e] \in EndpointState /\ ep[Peer(e)] \in EndpointState /\ ticks[e] \subseteq Config
    BY <1>0, <2>1
  <2>3. ep[Peer(e)].current_peer \in Nat /\ ep[Peer(e)].prev_peer \in Nat
    BY <2>2 DEF EndpointState, Keys
  <2>4. InFlight(msgs, e) \subseteq Frame
    BY <1>0 DEF InFlight
  <2>5. Kept(ep[e], ep[e])
    BY DEF Kept, Alike
  <2> QED
    BY <2>1, <2>2, <2>3, <2>4, <2>5 DEF GraceInv
<1>quiet. ASSUME ep' = ep, ticks' = ticks, msgs' \subseteq msgs, \A p \in data' : p.key # INVALID PROVE GraceInv'
  <2>1. PICK e \in Endpoints : TRUE
    BY EndpointAssumption
  <2>2. /\ InFlight(msgs', Peer(e)) \subseteq InFlight(msgs, Peer(e))
        /\ InFlight(msgs', e) \subseteq InFlight(msgs, e)
    BY <1>quiet, FlightSub
  <2>3. Graced(InFlight(msgs', e), ticks[e], ep[e], ep[Peer(e)].current_peer, ep[Peer(e)].prev_peer)
    BY <1>ends, <2>2, GraceSame DEF Kept
  <2> QED
    BY <1>0, <1>quiet, <2>2, <2>3, GraceQuiet
<1>1. CASE UNCHANGED vars
  BY <1>0, <1>1, <1>quiet DEF vars
<1>2. ASSUME NEW e \in Endpoints, Rotate(e) PROVE GraceInv'
  <2>1. PICK cfg \in RotateConfig(e, ep[e], TRUE) :
          /\ ep' = [ep EXCEPT ![e] = Rotated(e, ep[e], TRUE)]
          /\ msgs' = msgs \cup {ConfigFrame(e, cfg, FALSE, 0)}
          /\ ticks' = [ticks EXCEPT ![e] = @ \cup {cfg}]
    BY <1>2 DEF Rotate
  <2>2. RotateConfig(e, ep[e], TRUE) = {cfg}
    BY <1>2 DEF Rotate, RotateConfig
  <2>3. Graced(InFlight(msgs, e) \cup {ConfigFrame(e, c, FALSE, 0) : c \in {cfg}}, ticks[e] \cup {cfg},
               Rotated(e, ep[e], TRUE), ep[Peer(e)].current_peer, ep[Peer(e)].prev_peer)
    BY <1>ends, <2>2, GraceRotate
  <2>4. {ConfigFrame(e, c, FALSE, 0) : c \in {cfg}} = {ConfigFrame(e, cfg, FALSE, 0)}
    OBVIOUS
  <2>5. \A f \in {ConfigFrame(e, cfg, FALSE, 0)} : ~f.ack /\ f.to = Peer(e)
    BY DEF ConfigFrame
  <2>6. /\ InFlight(msgs', e) = InFlight(msgs, e) \cup {ConfigFrame(e, cfg, FALSE, 0)}
        /\ InFlight(msgs', Peer(e)) = InFlight(msgs, Peer(e))
    BY <2>1, <2>5, FlightSent
  <2>7. Graced(InFlight(msgs', e), ticks'[e], ep'[e], ep[Peer(e)].current_peer, ep[Peer(e)].prev_peer)
    BY <1>0, <2>1, <2>3, <2>4, <2>6
  <2>8. ep'[e].current_peer = ep[e].current_peer /\ ep'[e].prev_peer = ep[e].prev_peer
    BY <1>0, <1>ends, <2>1, RotatedMore
  <2>9. data' = data
    BY <1>2 DEF Rotate
  <2> QED
    BY <1>0, <2>1, <2>6, <2>7, <2>8, <2>9, GraceQuiet
<1>3. ASSUME NEW e \in Endpoints, IntervalElapses(e) PROVE GraceInv'
  <2>1. /\ ep' = [ep EXCEPT ![e] = [ep[e] EXCEPT !.gate = TRUE]] /\ ticks[e] = {}
        /\ ticks' = ticks /\ msgs' = msgs /\ data' = data
    BY <1>0, <1>3 DEF IntervalElapses
  <2>2. PICK t : /\ t = [ep[e] EXCEPT !.gate = TRUE] /\ Alike(ep[e], t)
                 /\ t.retransmit_count = ep[e].retransmit_count
                 /\ t.current_peer = ep[e].current_peer /\ t.prev_peer = ep[e].prev_peer
    <3>1. /\ Alike(ep[e], [ep[e] EXCEPT !.gate = TRUE])
          /\ [ep[e] EXCEPT !.gate = TRUE].retransmit_count = ep[e].retransmit_count
          /\ [ep[e] EXCEPT !.gate = TRUE].current_peer = ep[e].current_peer
          /\ [ep[e] EXCEPT !.gate = TRUE].prev_peer = ep[e].prev_peer
      BY <1>ends DEF EndpointState, Alike, Degraded
    <3> QED
      BY <3>1
  <2>3. ep'[e] = t
    BY <1>0, <2>1, <2>2
  <2>4. Graced(InFlight(msgs, e), ticks[e], t, ep[Peer(e)].current_peer, ep[Peer(e)].prev_peer)
    BY <1>ends, <2>1, <2>2, GraceGate
  <2> QED
    BY <1>0, <2>1, <2>2, <2>3, <2>4, GraceQuiet, ZenonT(40)
<1>due. ASSUME NEW e \in Endpoints, NEW cfg \in ticks[e], TickDue(e, cfg)
        PROVE  \A m \in InFlight(msgs, e) : m.config.counter # cfg.counter
  <2>1. \A m \in msgs : m.config.counter = cfg.counter => m.ack = (m.to # e)
    BY <1>due DEF TickDue
  <2>2. \A m \in msgs : m.ack \in BOOLEAN
    BY <1>0, FrameNumbers
  <2> QED
    BY <2>1, <2>2 DEF InFlight
<1>4. ASSUME NEW e \in Endpoints, NEW cfg \in ticks[e], TickSettled(e, cfg) \/ TickExhausted(e, cfg) PROVE GraceInv'
  <2>1. /\ TickDue(e, cfg) /\ msgs' = msgs /\ data' = data /\ ticks' = [ticks EXCEPT ![e] = @ \ {cfg}]
        /\ ep' = ep \/ ep' = [ep EXCEPT ![e] = [ep[e] EXCEPT !.state = "Inactive", !.gate = TRUE]]
        /\ ep' # ep => ep[e].state # "Degraded"
    BY <1>0, <1>4 DEF TickSettled, TickExhausted
  <2>2. PICK t : /\ ep' = [ep EXCEPT ![e] = t] /\ Alike(ep[e], t)
                 /\ t.retransmit_count = ep[e].retransmit_count
                 /\ t.current_peer = ep[e].current_peer /\ t.prev_peer = ep[e].prev_peer
    <3>1. CASE ep' = ep
      <4>1. ep' = [ep EXCEPT ![e] = ep[e]]
        BY <1>0, <3>1
      <4> QED
        BY <4>1 DEF Alike
    <3>2. CASE ep' # ep
      <4>1. ep' = [ep EXCEPT ![e] = [ep[e] EXCEPT !.state = "Inactive", !.gate = TRUE]] /\ ep[e].state # "Degraded"
        BY <2>1, <3>2
      <4>2. PICK t : /\ t = [ep[e] EXCEPT !.state = "Inactive", !.gate = TRUE] /\ Alike(ep[e], t)
                     /\ t.retransmit_count = ep[e].retransmit_count
                     /\ t.current_peer = ep[e].current_peer /\ t.prev_peer = ep[e].prev_peer
        <5>1. /\ Alike(ep[e], [ep[e] EXCEPT !.state = "Inactive", !.gate = TRUE])
              /\ [ep[e] EXCEPT !.state = "Inactive", !.gate = TRUE].retransmit_count = ep[e].retransmit_count
              /\ [ep[e] EXCEPT !.state = "Inactive", !.gate = TRUE].current_peer = ep[e].current_peer
              /\ [ep[e] EXCEPT !.state = "Inactive", !.gate = TRUE].prev_peer = ep[e].prev_peer
          BY <1>ends, <4>1 DEF EndpointState, Alike, Degraded
        <5> QED
          BY <5>1
      <4> QED
        BY <4>1, <4>2
    <3> QED
      BY <3>1, <3>2
  <2>3. ep'[e] = t /\ ticks'[e] = ticks[e] \ {cfg}
    BY <1>0, <2>1, <2>2
  <2>4. Graced(InFlight(msgs, e), ticks[e] \ {cfg}, t, ep[Peer(e)].current_peer, ep[Peer(e)].prev_peer)
    BY <1>ends, <1>due, <2>1, <2>2, GraceTick
  <2>5. \A x \in Endpoints : x # e => ep'[x] = ep[x] /\ ticks'[x] = ticks[x]
    BY <1>0, <2>1, <2>2
  <2> QED
    BY <1>0, <2>1, <2>2, <2>3, <2>4, <2>5, GraceQuiet
<1>5. ASSUME NEW e \in Endpoints, NEW cfg \in ticks[e], TickRetransmit(e, cfg) PROVE GraceInv'
  <2>1. PICK f : /\ f = ConfigFrame(e, cfg, FALSE, ep[e].retransmit_count + 1)
                 /\ ~f.ack /\ f.config = cfg /\ f.to = Peer(e)
    <3>1. LET f == ConfigFrame(e, cfg, FALSE, ep[e].retransmit_count + 1)
          IN ~f.ack /\ f.config = cfg /\ f.to = Peer(e)
      BY DEF ConfigFrame
    <3> QED
      BY <3>1
  <2>2. /\ TickDue(e, cfg) /\ ~Settled(ep[e], cfg)
        /\ ep' = [ep EXCEPT ![e] = [ep[e] EXCEPT !.retransmit_count = @ + 1]]
        /\ msgs' = msgs \cup {f} /\ ticks' = ticks /\ data' = data
    BY <1>0, <1>5, <2>1 DEF TickRetransmit
  <2>3. PICK t : /\ t = [ep[e] EXCEPT !.retransmit_count = @ + 1]
                 /\ Alike(ep[e], t) /\ t.gate = ep[e].gate /\ t.retransmit_count > 0
                 /\ t.current_peer = ep[e].current_peer /\ t.prev_peer = ep[e].prev_peer
    <3>1. ep[e].retransmit_count \in Nat
      BY <1>ends, StateNumbers
    <3>2. LET t == [ep[e] EXCEPT !.retransmit_count = @ + 1]
          IN /\ Alike(ep[e], t) /\ t.gate = ep[e].gate /\ t.retransmit_count = ep[e].retransmit_count + 1
             /\ t.current_peer = ep[e].current_peer /\ t.prev_peer = ep[e].prev_peer
      BY <1>ends DEF EndpointState, Alike, Degraded
    <3>3. ep[e].retransmit_count + 1 > 0
      BY <3>1
    <3> QED
      BY <3>2, <3>3
  <2>4. cfg.counter = ep[e].config_counter /\ cfg.key # ep[e].current_self /\ cfg \in Config
    BY <1>ends, <2>2 DEF Settled
  <2>5. Graced(InFlight(msgs, e) \cup {f}, ticks[e], t, ep[Peer(e)].current_peer, ep[Peer(e)].prev_peer)
    BY <1>ends, <1>due, <2>1, <2>2, <2>3, <2>4, GraceRepeat
  <2>6. InFlight(msgs', e) = InFlight(msgs, e) \cup {f} /\ InFlight(msgs', Peer(e)) = InFlight(msgs, Peer(e))
    <3>1. \A g \in {f} : ~g.ack /\ g.to = Peer(e)
      BY <2>1
    <3> QED
      BY <2>2, <3>1, FlightSent
  <2>7. ep'[e] = t
    BY <1>0, <2>2, <2>3
  <2> QED
    BY <1>0, <2>2, <2>3, <2>5, <2>6, <2>7, GraceQuiet
<1>6. ASSUME NEW e \in Endpoints, Degrade(e) PROVE GraceInv'
  <2> DEFINE notice == [counter |-> ep[e].config_counter + 1, key |-> INVALID,
                        enabled |-> FALSE, version |-> OutgoingVersion(e, ep[e])]
  <2>1. notice \in Config
    <3>1. OutgoingVersion(e, ep[e]) \in Versions
      BY <1>ends, EndpointAssumption DEF OutgoingVersion, Versions, EndpointState
    <3> QED
      BY <1>ends, <3>1 DEF Config, EndpointState, Keys, INVALID
  <2>2. /\ ep' = [ep EXCEPT ![e] = [Staged(ep[e], INVALID, TRUE) EXCEPT !.state = "Degraded"]]
        /\ msgs' = msgs \cup {ConfigFrame(e, notice, FALSE, 0)}
        /\ ticks' = [ticks EXCEPT ![e] = @ \cup {notice}] /\ data' = data /\ ready(ep[e])
    BY <1>6 DEF Degrade
  <2>3. notice.counter = ep[e].config_counter + 1 /\ ~notice.enabled
    OBVIOUS
  <2> HIDE DEF notice
  <2>4. PICK u \in EndpointState :
          /\ u = Staged(ep[e], INVALID, TRUE) /\ u.config_counter = ep[e].config_counter + 1
          /\ u.current_self = ep[e].current_self
          /\ u.current_peer = ep[e].current_peer /\ u.prev_peer = ep[e].prev_peer
    <3>1. INVALID \in Keys
      BY DEF INVALID, Keys
    <3>2. Staged(ep[e], INVALID, TRUE) \in EndpointState
      BY <1>ends, <3>1, StagedType
    <3>3. /\ Staged(ep[e], INVALID, TRUE).config_counter = ep[e].config_counter + 1
          /\ Staged(ep[e], INVALID, TRUE).current_self = ep[e].current_self
      BY <1>ends, <3>1, StagedFields
    <3>4. /\ Staged(ep[e], INVALID, TRUE).current_peer = ep[e].current_peer
          /\ Staged(ep[e], INVALID, TRUE).prev_peer = ep[e].prev_peer
      BY <1>ends, <3>1, StagedMore
    <3> QED
      BY <3>2, <3>3, <3>4
  <2>5. PICK t \in EndpointState :
          /\ t = [u EXCEPT !.state = "Degraded"] /\ t.config_counter = ep[e].config_counter + 1
          /\ t.current_self = ep[e].current_self /\ Degraded(t)
          /\ t.current_peer = ep[e].current_peer /\ t.prev_peer = ep[e].prev_peer
    <3>1. LET t == [u EXCEPT !.state = "Degraded"]
          IN /\ t \in EndpointState /\ t.config_counter = u.config_counter /\ t.current_self = u.current_self
             /\ t.current_peer = u.current_peer /\ t.prev_peer = u.prev_peer /\ t.state = "Degraded"
      BY DEF EndpointState, ExpresslaneState
    <3> QED
      BY <2>4, <3>1 DEF Degraded
  <2>6. PICK f : /\ f = ConfigFrame(e, notice, FALSE, 0) /\ ~f.ack /\ f.config = notice /\ f.to = Peer(e)
    <3>1. LET f == ConfigFrame(e, notice, FALSE, 0)
          IN ~f.ack /\ f.config = notice /\ f.to = Peer(e)
      BY DEF ConfigFrame
    <3> QED
      BY <3>1
  <2>7. ~Degraded(ep[e])
    BY <2>2 DEF ready, Degraded
  <2>8. Graced(InFlight(msgs, e) \cup {f}, ticks[e] \cup {notice}, t, ep[Peer(e)].current_peer, ep[Peer(e)].prev_peer)
    BY <1>ends, <2>1, <2>3, <2>5, <2>6, <2>7, GraceNotice
  <2>9. msgs' = msgs \cup {f}
    BY <2>2, <2>6
  <2>10. InFlight(msgs', e) = InFlight(msgs, e) \cup {f} /\ InFlight(msgs', Peer(e)) = InFlight(msgs, Peer(e))
    <3>1. \A g \in {f} : ~g.ack /\ g.to = Peer(e)
      BY <2>6
    <3> QED
      BY <2>9, <3>1, FlightSent
  <2>11. ep'[e] = t /\ ticks'[e] = ticks[e] \cup {notice}
    BY <1>0, <2>2, <2>4, <2>5
  <2>12. \A x \in Endpoints : x # e => ep'[x] = ep[x] /\ ticks'[x] = ticks[x]
    BY <1>0, <2>2
  <2> QED
    BY <1>0, <2>2, <2>5, <2>8, <2>10, <2>11, <2>12, GraceQuiet
<1>7. ASSUME NEW e \in Endpoints, SendData(e) PROVE GraceInv'
  <2>1. /\ ep' = [ep EXCEPT ![e] = [ep[e] EXCEPT !.sent = TRUE]] /\ ticks' = ticks /\ msgs' = msgs
        /\ data' = data \cup {[to |-> Peer(e), key |-> ep[e].current_self, version |-> ep[e].version]}
        /\ ep[e].current_self # INVALID
    BY <1>0, <1>7 DEF SendData, ready, has_valid_keys
  <2>2. PICK t : /\ t = [ep[e] EXCEPT !.sent = TRUE] /\ Kept(ep[e], t)
                 /\ t.current_peer = ep[e].current_peer /\ t.prev_peer = ep[e].prev_peer
    <3>1. LET t == [ep[e] EXCEPT !.sent = TRUE]
          IN Kept(ep[e], t) /\ t.current_peer = ep[e].current_peer /\ t.prev_peer = ep[e].prev_peer
      BY <1>ends DEF EndpointState, Kept, Alike, Degraded
    <3> QED
      BY <3>1
  <2>3. ep'[e] = t
    BY <1>0, <2>1, <2>2
  <2>4. Graced(InFlight(msgs, e), ticks[e], t, ep[Peer(e)].current_peer, ep[Peer(e)].prev_peer)
    <3>1. InFlight(msgs, e) \subseteq InFlight(msgs, e)
      OBVIOUS
    <3> QED
      <4>1. Alike(ep[e], t) /\ t.gate = ep[e].gate /\ t.retransmit_count = ep[e].retransmit_count
        BY <2>2 DEF Kept
      <4>2. Graced(InFlight(msgs, e), ticks[e], ep[e], ep[Peer(e)].current_peer, ep[Peer(e)].prev_peer)
        BY <1>ends
      <4> QED
        BY <3>1, <4>1, <4>2, GraceSame
  <2>5. \A p \in data' : p.key # INVALID
    BY <1>0, <2>1
  <2>6. ep'[e].current_peer = ep[e].current_peer /\ ep'[e].prev_peer = ep[e].prev_peer
    BY <2>2, <2>3
  <2> QED
    BY <1>0, <2>1, <2>3, <2>4, <2>5, <2>6, GraceQuiet
<1>adopt. ASSUME NEW e \in Endpoints, NEW m \in msgs, m.to = e
          PROVE  \E a \in EndpointState :
                   /\ a = AdoptVersion(e, ep[e], m.config.version) /\ Kept(ep[e], a)
                   /\ a.current_peer = ep[e].current_peer /\ a.prev_peer = ep[e].prev_peer /\ a.state = ep[e].state
  <2>1. m.config.version \in Versions
    BY <1>0 DEF Frame, Config
  <2>2. AdoptVersion(e, ep[e], m.config.version) \in EndpointState
    BY <1>ends, <2>1, AdoptVersionType
  <2>3. LET a == AdoptVersion(e, ep[e], m.config.version)
        IN /\ Kept(ep[e], a) /\ a.state = ep[e].state
           /\ a.current_peer = ep[e].current_peer /\ a.prev_peer = ep[e].prev_peer
    BY <1>ends DEF AdoptVersion, EndpointState, Kept, Alike, Degraded
  <2> QED
    BY <2>2, <2>3
<1>8. ASSUME NEW e \in Endpoints, NEW m \in msgs, HandleAck(e, m) PROVE GraceInv'
  <2>0. m.to = e /\ m.ack /\ msgs' = msgs \ {m} /\ ticks' = ticks /\ data' = data
    BY <1>8 DEF HandleAck
  <2>1. PICK a \in EndpointState :
          /\ a = AdoptVersion(e, ep[e], m.config.version) /\ Kept(ep[e], a)
          /\ a.current_peer = ep[e].current_peer /\ a.prev_peer = ep[e].prev_peer /\ a.state = ep[e].state
    BY <1>adopt, <2>0
  <2>2. ep' = [ep EXCEPT ![e] = IF m.config.counter = a.config_counter THEN AckedState(a) ELSE a]
    BY <1>8, <2>1 DEF HandleAck
  <2>3. Graced(InFlight(msgs, e), ticks[e], a, ep[Peer(e)].current_peer, ep[Peer(e)].prev_peer)
    <3>1. InFlight(msgs, e) \subseteq InFlight(msgs, e)
      OBVIOUS
    <3> QED
      BY <1>ends, <2>1, <3>1, GraceSame DEF Kept
  <2>4. /\ m \in InFlight(msgs, e) /\ InFlight(msgs', e) = InFlight(msgs, e) \ {m}
        /\ InFlight(msgs', Peer(e)) \subseteq InFlight(msgs, Peer(e))
    BY <2>0, FlightAcked
  <2>5. \A x \in Endpoints : x # e => ep'[x] = ep[x] /\ ticks'[x] = ticks[x]
    BY <1>0, <2>0, <2>2
  <2>6. CASE m.config.counter = a.config_counter
    <3>1. ep'[e] = AckedState(a)
      BY <1>0, <2>2, <2>6
    <3>2. PICK t \in EndpointState :
            /\ t = AckedState(a) /\ t.config_counter = a.config_counter /\ t.next_self = None
            /\ t.current_self = (IF a.next_self = None THEN a.current_self ELSE a.next_self)
            /\ t.gate = a.gate /\ (t.state = "Degraded" <=> a.state = "Degraded")
            /\ t.current_peer = a.current_peer /\ t.prev_peer = a.prev_peer
      BY AckedType, AckedFields, AckedMore
    <3>3. OwnConfig(e, m.config)
      BY <1>0, <2>0 DEF KeyInv, AcksVouch
    <3>4. /\ a.next_self # None => m.config.key = a.next_self
          /\ m.config.enabled \/ m.config.key = INVALID
      BY <2>1, <2>6, <3>3 DEF OwnConfig, Kept, Alike
    <3>5. Degraded(t) <=> Degraded(a)
      BY <3>2 DEF Degraded
    <3>6. Graced(InFlight(msgs, e) \ {m}, ticks[e], t, ep[Peer(e)].current_peer, ep[Peer(e)].prev_peer)
      BY <1>ends, <2>0, <2>3, <2>4, <2>6, <3>2, <3>4, <3>5, GraceAck
    <3>7. ep'[e] = t /\ t.current_peer = ep[e].current_peer /\ t.prev_peer = ep[e].prev_peer
      BY <2>1, <3>1, <3>2
    <3> QED
      BY <1>0, <2>0, <2>4, <2>5, <3>6, <3>7, GraceQuiet
  <2>7. CASE m.config.counter # a.config_counter
    <3>1. ep'[e] = a
      BY <1>0, <2>2, <2>7
    <3>2. Graced(InFlight(msgs', e), ticks[e], a, ep[Peer(e)].current_peer, ep[Peer(e)].prev_peer)
      <4>1. InFlight(msgs', e) \subseteq InFlight(msgs, e)
        BY <2>4
      <4> QED
        BY <1>ends, <2>1, <4>1, GraceSame DEF Kept
    <3> QED
      BY <1>0, <2>0, <2>1, <2>4, <2>5, <3>1, <3>2, GraceQuiet
  <2> QED
    BY <2>6, <2>7
<1>9. ASSUME NEW e \in Endpoints, NEW m \in msgs, HandleConfigDegraded(e, m) PROVE GraceInv'
  <2>0. m.to = e /\ msgs' = msgs \ {m} /\ ticks' = ticks /\ data' = data
    BY <1>9 DEF HandleConfigDegraded
  <2>1. PICK a \in EndpointState :
          /\ a = AdoptVersion(e, ep[e], m.config.version) /\ Kept(ep[e], a)
          /\ a.current_peer = ep[e].current_peer /\ a.prev_peer = ep[e].prev_peer /\ a.state = ep[e].state
    BY <1>adopt, <2>0
  <2>2. ep' = [ep EXCEPT ![e] = a]
    BY <1>0, <1>9, <2>1 DEF HandleConfigDegraded
  <2>3. ep'[e] = a /\ \A x \in Endpoints : x # e => ep'[x] = ep[x] /\ ticks'[x] = ticks[x]
    BY <1>0, <2>0, <2>2
  <2>4. /\ InFlight(msgs', e) \subseteq InFlight(msgs, e)
        /\ InFlight(msgs', Peer(e)) \subseteq InFlight(msgs, Peer(e))
    BY <2>0, FlightSub
  <2>5. Graced(InFlight(msgs', e), ticks[e], a, ep[Peer(e)].current_peer, ep[Peer(e)].prev_peer)
    BY <1>ends, <2>1, <2>4, GraceSame DEF Kept
  <2> QED
    BY <1>0, <2>0, <2>1, <2>3, <2>4, <2>5, GraceQuiet
<1>10. ASSUME NEW e \in Endpoints, NEW m \in msgs, HandleConfigEnabled(e, m) PROVE GraceInv'
  <2>0. m.to = e /\ ~m.ack /\ m.config.enabled /\ ep[e].state # "Degraded" /\ data' = data /\ m.config.key \in Keys
    BY <1>0, <1>10 DEF HandleConfigEnabled, Frame, Config
  <2>1. PICK a \in EndpointState :
          /\ a = AdoptVersion(e, ep[e], m.config.version) /\ Kept(ep[e], a)
          /\ a.current_peer = ep[e].current_peer /\ a.prev_peer = ep[e].prev_peer /\ a.state = ep[e].state
    BY <1>adopt, <2>0
  <2>2. PICK s \in EndpointState :
          /\ s = PeerKeyState(Woken(a), m.config.key) /\ KeyFields(s) = KeyFields(a)
          /\ s.current_peer = m.config.key /\ s.prev_peer = a.current_peer
          /\ s.gate = a.gate /\ s.retransmit_count = a.retransmit_count /\ s.state # "Degraded"
    BY <2>0, <2>1, PeerKeyFields
  <2>3. Kept(ep[e], s)
    BY <2>0, <2>1, <2>2 DEF Kept, Alike, KeyFields, Degraded
  <2>4. AckAndRotate(e, m, s)
    BY <1>10, <2>1, <2>2 DEF HandleConfigEnabled
  <2> QED
    BY <1>0, <2>0, <2>1, <2>2, <2>3, <2>4, AckAndRotateGrace
<1>11. ASSUME NEW e \in Endpoints, NEW m \in msgs, HandleConfigDisabled(e, m) PROVE GraceInv'
  <2>0. m.to = e /\ ~m.ack /\ ~m.config.enabled /\ ep[e].state # "Degraded" /\ data' = data
    BY <1>11 DEF HandleConfigDisabled
  <2>1. PICK a \in EndpointState :
          /\ a = AdoptVersion(e, ep[e], m.config.version) /\ Kept(ep[e], a)
          /\ a.current_peer = ep[e].current_peer /\ a.prev_peer = ep[e].prev_peer /\ a.state = ep[e].state
    BY <1>adopt, <2>0
  <2>2. PICK s \in EndpointState :
          /\ s = [a EXCEPT !.state = "Inactive"] /\ Kept(a, s)
          /\ s.current_peer = a.current_peer /\ s.prev_peer = a.prev_peer
    <3>1. LET s == [a EXCEPT !.state = "Inactive"]
          IN /\ s \in EndpointState /\ Kept(a, s)
             /\ s.current_peer = a.current_peer /\ s.prev_peer = a.prev_peer
      BY <2>0, <2>1 DEF EndpointState, ExpresslaneState, Kept, Alike, Degraded
    <3> QED
      BY <3>1
  <2>3. Kept(ep[e], s)
    BY <2>1, <2>2 DEF Kept, Alike
  <2>4. AckAndRotate(e, m, s)
    BY <1>11, <2>1, <2>2 DEF HandleConfigDisabled
  <2> QED
    BY <1>0, <2>0, <2>1, <2>2, <2>3, <2>4, AckAndRotateGrace
<1>12. ASSUME NEW e \in Endpoints, NEW m \in msgs, HandleConfigKeyFails(e, m) PROVE GraceInv'
  BY <1>12 DEF HandleConfigKeyFails
<1>13. ASSUME NEW p \in data, DataLeaves(p) PROVE GraceInv'
  BY <1>0, <1>13, <1>quiet DEF DataLeaves
<1>14. ASSUME NEW m \in msgs, Lose(m) PROVE GraceInv'
  BY <1>0, <1>14, <1>quiet DEF Lose
<1> QED
  BY <1>1, <1>2, <1>3, <1>4, <1>5, <1>6, <1>7, <1>8, <1>9, <1>10, <1>11, <1>12, <1>13, <1>14 DEF Next, Tick, Receive

LEMMA InitGrace == Init => GraceInv
<1> SUFFICES ASSUME Init PROVE GraceInv
  OBVIOUS
<1>1. KeyInv /\ VersionInv
  <2>1. ASSUME NEW e \in Endpoints PROVE VersionsMet(e, ep[e]) /\ ep[e].current_self = INVALID
    BY DEF Init, VersionsMet
  <2> QED
    BY <2>1, InitKey, InitType DEF Init, VersionInv
<1>2. ASSUME NEW e \in Endpoints
      PROVE  Graced(InFlight(msgs, e), ticks[e], ep[e], ep[Peer(e)].current_peer, ep[Peer(e)].prev_peer)
  <2>1. InFlight(msgs, e) = {} /\ ticks[e] = {}
    BY DEF Init, InFlight
  <2>2. /\ ep[e].current_self = 0 /\ ep[e].config_counter = 0 /\ ep[e].next_self = None
        /\ ep[e].state # "Degraded" /\ ep[Peer(e)].current_peer = 0
    BY PeerFacts DEF Init, INVALID, InitialState
  <2>3. LatestOnly({}, ep[e]) /\ Answered({}, ep[e], 0) /\ Ticking({}, {}, ep[e])
    BY <2>2 DEF LatestOnly, Answered, Ticking
  <2>4. Counted(ep[e], 0) /\ Held(ep[e], 0, ep[Peer(e)].prev_peer)
    BY <2>2 DEF Counted, Held, Degraded, INVALID
  <2> QED
    BY <2>1, <2>2, <2>3, <2>4 DEF Graced
<1> QED
  BY <1>1, <1>2 DEF GraceInv, Init

LEMMA GraceFollows == ASSUME GraceInv PROVE GraceKept
<1> SUFFICES ASSUME NEW p \in data, p.key = ep[Peer(p.to)].current_self
             PROVE  \/ Opens(ep[p.to], p)
                    \/ ep[Peer(p.to)].retransmit_count > 0
                    \/ ep[Peer(p.to)].config_counter > ep[Peer(p.to)].current_self + 1
  BY DEF GraceKept
<1> DEFINE s == ep[Peer(p.to)]
           r == ep[p.to]
<1>1. p.to \in Endpoints /\ Peer(p.to) \in Endpoints /\ Peer(Peer(p.to)) = p.to
  BY PeerFacts DEF GraceInv, KeyInv, TypeOK, DataPacket
<1>2. Held(s, r.current_peer, r.prev_peer) /\ Counted(s, r.current_peer)
  BY <1>1 DEF GraceInv, Graced
<1>3. p.key # INVALID /\ p.version = r.version
  BY DEF GraceInv, VersionInv
<1>4. s \in EndpointState
  BY <1>1 DEF GraceInv, KeyInv, TypeOK
<1>5. p.key = s.current_self
  OBVIOUS
<1> HIDE DEF s, r
<1>6. s.config_counter \in Nat /\ s.current_self \in Nat
  BY <1>4, StateNumbers
<1>7. \/ s.config_counter > s.current_self + 1 \/ s.retransmit_count > 0
      \/ r.current_peer = s.current_self
      \/ r.current_peer = s.current_self + 1 /\ r.prev_peer = s.current_self
  BY <1>2, <1>3, <1>5 DEF Held
<1>8. ASSUME r.current_peer = s.current_self \/ (r.current_peer = s.current_self + 1 /\ r.prev_peer = s.current_self)
      PROVE  Opens(r, p)
  <2>1. r.current_peer # INVALID
    BY <1>3, <1>5, <1>6, <1>8 DEF INVALID
  <2> QED
    BY <1>3, <1>5, <1>8, <2>1 DEF Opens
<1> QED
  BY <1>7, <1>8 DEF s, r

(* GraceKept: while timers outlast a round trip, no rotation that goes     *)
(* through without a retransmission costs a packet: the receiver holds the *)
(* key its peer is sending under as current or as previous peer key, for   *)
(* every interleaving of rotations, acks, losses and degradations of both  *)
(* ends (update_peer_key, promote_self_key, try_from_wire).                *)
THEOREM GraceIsKept ==
  ASSUME KeyOutcomes = {TRUE}
  PROVE  Spec => []GraceKept
<1>1. CASE Timely
  <2>1. GraceInv /\ [Next]_vars => GraceInv'
    BY <1>1, NextGrace
  <2>2. GraceInv => GraceKept
    BY GraceFollows
  <2> QED
    BY <2>1, <2>2, InitGrace, PTL DEF Spec
<1>2. CASE ~Timely
  <2>1. TRUE => GraceKept
    BY <1>2 DEF GraceKept
  <2> QED
    BY <2>1, PTL
<1> QED
  BY <1>1, <1>2
=============================================================================
