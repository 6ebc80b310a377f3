----------------------------- MODULE ServerProofs -----------------------------
(***************************************************************************)
(* Proofs about the server around its connections, for any number of       *)
(* connections, rotations, datagrams and slots: the statistics of          *)
(* offloaded sessions count each observed byte once and let no connection  *)
(* be evicted that is known to have been heard, each datagram received is  *)
(* handled once, as far as it fits and in order, and each packet of the    *)
(* TUN goes to the holder of its destination, its inside IP being in one   *)
(* place.                                                                  *)
(***************************************************************************)
EXTENDS ServerStats, UdpReceive, InsideLoop, FiniteSetTheorems, SequenceTheorems, TLAPS

(* Statistics and eviction.  A session id was drawn for one connection and *)
(* is observed only afterwards; what was heard of a connection is noted in *)
(* its age, or it is not known yet.                                        *)
StatTyped ==
  /\ online \subseteq StatConns /\ sid \in [StatConns -> SidRange] /\ next_sid \in Nat
  /\ carried \in [StatConns -> 0..MaxBytes] /\ seen_bytes \in [SidRange -> 0..NoBytes]
  /\ reported \in [StatConns -> Nat] /\ skipped \in [StatConns -> Nat]
  /\ outside_age \in [StatConns -> 0..OldAge] /\ traffic_age \in [StatConns -> 0..OldAge]
  /\ heard_age \in [StatConns -> 0..OldAge] /\ baselined \subseteq SidRange /\ hidden \subseteq StatConns

IdsApart ==
  /\ \A a, b \in StatConns : sid[a] = sid[b] => a = b
  /\ \A c \in StatConns : sid[c] < next_sid
  /\ \A i \in SidRange : i >= next_sid => seen_bytes[i] = NoBytes /\ i \notin baselined

Noted == \A c \in StatConns : heard_age[c] >= outside_age[c] \/ Unknown(c)

StatInv == StatTyped /\ IdsApart /\ BytesOnce /\ Noted

LEMMA StatInvInit == StatInit => StatInv
<1> SUFFICES ASSUME StatInit PROVE StatInv
  OBVIOUS
<1>0. /\ MaxBytes \in Nat /\ MaxIds \in Nat /\ OldAge \in Nat /\ Cardinality(StatConns) \in Nat
      /\ Cardinality(StatConns) <= MaxIds
  BY StatBounds, FS_CardinalityType
<1>1. StatTyped
  <2>1. sid \in [StatConns -> SidRange]
    BY <1>0 DEF StatInit, SidRange
  <2> QED
    BY <1>0, <2>1 DEF StatInit, StatTyped, NoBytes
<1>2. IdsApart
  BY <1>0 DEF StatInit, IdsApart, SidRange
<1>3. BytesOnce
  BY <1>0, <1>1 DEF StatInit, BytesOnce, StatTyped, SidRange
<1>4. Noted
  BY <1>0 DEF StatInit, Noted
<1> QED
  BY <1>1, <1>2, <1>3, <1>4 DEF StatInv

(* The bytes a poll reports and the baselines it takes.                    *)
LEMMA PollCounts ==
  ASSUME StatInv, NEW read \in SUBSET StatConns, NEW tx \in SUBSET StatConns, Poll(read, tx), NEW c \in StatConns
  PROVE  /\ reported'[c] \in Nat /\ skipped'[c] \in Nat
         /\ seen_bytes'[sid[c]] \in 0..NoBytes
         /\ reported'[c] + skipped'[c] <= carried[c]
         /\ seen_bytes'[sid[c]] # NoBytes => reported'[c] + skipped'[c] = seen_bytes'[sid[c]]
         /\ c \in online /\ sid[c] \in baselined' => seen_bytes'[sid[c]] # NoBytes
         /\ heard_age[c] >= outside_age'[c] \/ carried[c] > reported'[c] + skipped'[c] \/ c \in hidden'
<1>0. /\ MaxBytes \in Nat /\ NoBytes = MaxBytes + 1 /\ carried[c] \in 0..MaxBytes /\ sid[c] \in SidRange
      /\ seen_bytes[sid[c]] \in 0..NoBytes /\ reported[c] \in Nat /\ skipped[c] \in Nat
      /\ heard_age[c] \in Nat /\ outside_age[c] \in Nat
  BY StatBounds DEF StatInv, StatTyped, NoBytes
<1>1. /\ reported[c] + skipped[c] <= carried[c]
      /\ seen_bytes[sid[c]] # NoBytes => reported[c] + skipped[c] = seen_bytes[sid[c]]
      /\ c \in online /\ sid[c] \in baselined => seen_bytes[sid[c]] # NoBytes
      /\ heard_age[c] >= outside_age[c] \/ carried[c] > reported[c] + skipped[c] \/ c \in hidden
  BY DEF StatInv, BytesOnce, Noted, Unknown
<1> DEFINE heardIn == {d \in read : decide(d) > 0}
           first == {d \in read : seen_bytes[sid[d]] = NoBytes}
<1>4. /\ hidden' = (hidden \ (heardIn \cup tx)) \cup {d \in first : carried[d] > reported[d] + skipped[d]}
      /\ baselined' = baselined \cup {sid[d] : d \in first}
      /\ tx \subseteq {d \in read : seen_bytes[sid[d]] # NoBytes} /\ read \subseteq online
      /\ outside_age' = [d \in StatConns |-> IF d \in heardIn \cup tx THEN 0 ELSE outside_age[d]]
  BY DEF Poll
<1>2. CASE c \in read
  <2>1. (CHOOSE d \in read : sid[d] = sid[c]) = c
    BY <1>2 DEF StatInv, IdsApart
  <2>2. seen_bytes'[sid[c]] = carried[c]
    BY <1>0, <1>2, <2>1 DEF Poll
  <2>3. /\ reported'[c] = reported[c] + decide(c)
        /\ skipped'[c] = IF seen_bytes[sid[c]] = NoBytes THEN carried[c] - reported[c] ELSE skipped[c]
        /\ decide(c) > 0 \/ c \in tx => outside_age'[c] = 0
        /\ outside_age'[c] = 0 \/ outside_age'[c] = outside_age[c]
    BY <1>2, <1>4 DEF Poll
  <2>4. seen_bytes[sid[c]] = NoBytes => c \notin tx
    BY <1>4
  <2>5. c \in hidden => c \in hidden' \/ decide(c) > 0 \/ c \in tx
    BY <1>4
  <2>6. seen_bytes[sid[c]] = NoBytes /\ carried[c] > reported[c] + skipped[c] => c \in hidden'
    BY <1>2, <1>4
  <2> HIDE DEF heardIn, first
  <2> QED
    BY <1>0, <1>1, <2>2, <2>3, <2>4, <2>5, <2>6 DEF decide
<1>3. CASE c \notin read
  <2>1. seen_bytes'[sid[c]] \in {seen_bytes[sid[c]], NoBytes}
    <3>1. ~ \E d \in read : sid[d] = sid[c]
      BY <1>3 DEF StatInv, IdsApart
    <3> QED
      BY <1>0, <3>1 DEF Poll
  <2>2. /\ reported'[c] = reported[c] + 0 /\ skipped'[c] = skipped[c]
        /\ outside_age'[c] = 0 \/ outside_age'[c] = outside_age[c]
    BY <1>3, <1>4 DEF Poll
  <2>3. c \in hidden => c \in hidden'
    BY <1>3, <1>4
  <2>4. ASSUME c \in online, sid[c] \in baselined' PROVE seen_bytes'[sid[c]] # NoBytes
    <3>1. ~ \E d \in read : sid[d] = sid[c]
      BY <1>3 DEF StatInv, IdsApart
    <3>2. sid[c] \in baselined
      BY <1>4, <2>4, <3>1
    <3>3. sid[c] \in Live
      BY <2>4 DEF Live
    <3> QED
      BY <1>0, <1>1, <2>4, <3>1, <3>2, <3>3 DEF Poll
  <2> QED
    BY <1>0, <1>1, <2>1, <2>2, <2>3, <2>4
<1> QED
  BY <1>2, <1>3

LEMMA PollKeeps ==
  ASSUME StatInv, NEW read \in SUBSET StatConns, NEW tx \in SUBSET StatConns, Poll(read, tx)
  PROVE  StatInv'
<1>0. /\ MaxBytes \in Nat /\ NoBytes = MaxBytes + 1 /\ OldAge \in Nat
      /\ online \subseteq StatConns /\ sid \in [StatConns -> SidRange] /\ next_sid \in Nat
      /\ carried \in [StatConns -> 0..MaxBytes] /\ seen_bytes \in [SidRange -> 0..NoBytes]
      /\ UNCHANGED <<online, sid, next_sid, carried, heard_age>>
  BY StatBounds DEF StatInv, StatTyped, NoBytes, Poll
<1>1. \A i \in SidRange : /\ seen_bytes'[i] \in 0..NoBytes
                          /\ i >= next_sid => seen_bytes'[i] = NoBytes /\ i \notin baselined'
  <2> SUFFICES ASSUME NEW i \in SidRange
               PROVE  /\ seen_bytes'[i] \in 0..NoBytes
                      /\ (i >= next_sid => seen_bytes'[i] = NoBytes /\ i \notin baselined')
    OBVIOUS
  <2>3. i >= next_sid => i \notin baselined'
    <3>1. i >= next_sid => i \notin baselined /\ \A c \in StatConns : sid[c] # i
      <4>1. i >= next_sid => i \notin baselined
        BY DEF StatInv, IdsApart
      <4>2. ASSUME NEW c \in StatConns, i >= next_sid PROVE sid[c] # i
        BY <1>0, <4>2 DEF StatInv, IdsApart, SidRange
      <4> QED
        BY <4>1, <4>2
    <3> QED
      BY <3>1 DEF Poll
  <2>1. CASE \E c \in read : sid[c] = i
    <3>1. PICK c \in read : c = CHOOSE d \in read : sid[d] = i
      BY <2>1
    <3>2. sid[c] = i
      BY <2>1, <3>1
    <3>3. seen_bytes'[i] = carried[c]
      BY <2>1, <3>1 DEF Poll
    <3>4. i < next_sid /\ i \in Nat
      BY <3>2 DEF StatInv, IdsApart, SidRange
    <3> QED
      BY <1>0, <2>3, <3>3, <3>4
  <2>2. CASE ~ \E c \in read : sid[c] = i
    <3>1. seen_bytes'[i] = IF i \in Live THEN seen_bytes[i] ELSE NoBytes
      BY <2>2 DEF Poll
    <3>2. seen_bytes[i] \in 0..NoBytes /\ (i >= next_sid => seen_bytes[i] = NoBytes)
      BY <1>0 DEF StatInv, IdsApart
    <3> QED
      BY <1>0, <2>3, <3>1, <3>2
  <2> QED
    BY <2>1, <2>2
<1>2. seen_bytes' = [i \in SidRange |-> seen_bytes'[i]]
  BY DEF Poll
<1>3. /\ reported' = [c \in StatConns |-> reported'[c]] /\ skipped' = [c \in StatConns |-> skipped'[c]]
  BY DEF Poll
<1>4. outside_age' \in [StatConns -> 0..OldAge] /\ traffic_age' \in [StatConns -> 0..OldAge]
  BY <1>0 DEF Poll, StatInv, StatTyped
<1>5. \A c \in StatConns : /\ reported'[c] \in Nat /\ skipped'[c] \in Nat
                           /\ reported'[c] + skipped'[c] <= carried[c]
                           /\ seen_bytes'[sid[c]] # NoBytes => reported'[c] + skipped'[c] = seen_bytes'[sid[c]]
                           /\ c \in online /\ sid[c] \in baselined' => seen_bytes'[sid[c]] # NoBytes
                           /\ \/ heard_age[c] >= outside_age'[c]
                              \/ carried[c] > reported'[c] + skipped'[c] \/ c \in hidden'
  BY PollCounts
<1>6. StatTyped'
  <2>1. seen_bytes' \in [SidRange -> 0..NoBytes]
    BY <1>1, <1>2
  <2>2. reported' \in [StatConns -> Nat] /\ skipped' \in [StatConns -> Nat]
    BY <1>3, <1>5
  <2>3. baselined' \subseteq SidRange /\ hidden' \subseteq StatConns
    BY <1>0 DEF StatInv, StatTyped, Poll
  <2> QED
    BY <1>0, <1>4, <2>1, <2>2, <2>3 DEF StatInv, StatTyped
<1>7. IdsApart'
  BY <1>0, <1>1 DEF StatInv, IdsApart
<1>8. BytesOnce' /\ Noted'
  BY <1>0, <1>5 DEF BytesOnce, Noted, Unknown
<1> QED
  BY <1>6, <1>7, <1>8 DEF StatInv

LEMMA OlderAges ==
  ASSUME NEW age \in [StatConns -> 0..OldAge]
  PROVE  /\ Older(age) \in [StatConns -> 0..OldAge]
         /\ \A c \in StatConns : Older(age)[c] = IF age[c] < OldAge THEN age[c] + 1 ELSE age[c]
BY StatBounds DEF Older

LEMMA StatInvNext == StatInv /\ [StatNext]_statVars => StatInv'
<1> SUFFICES ASSUME StatInv, [StatNext]_statVars PROVE StatInv'
  OBVIOUS
<1>0. /\ MaxBytes \in Nat /\ NoBytes = MaxBytes + 1 /\ OldAge \in Nat /\ MaxIds \in Nat
      /\ StatTyped /\ IdsApart /\ BytesOnce /\ Noted
  BY StatBounds DEF StatInv, NoBytes
<1>1. ASSUME NEW c \in StatConns, NEW data \in BOOLEAN, Received(c, data) PROVE StatInv'
  <2>1. /\ UNCHANGED <<online, sid, next_sid, carried, seen_bytes, reported, skipped, baselined>>
        /\ hidden' = hidden \ {c}
        /\ outside_age' = [outside_age EXCEPT ![c] = 0] /\ heard_age' = [heard_age EXCEPT ![c] = 0]
        /\ traffic_age' \in {traffic_age, [traffic_age EXCEPT ![c] = 0]}
    BY <1>1 DEF Received
  <2>2. StatTyped' /\ IdsApart' /\ BytesOnce'
    BY <1>0, <2>1 DEF StatTyped, IdsApart, BytesOnce
  <2>3. Noted'
    BY <1>0, <2>1 DEF StatTyped, Noted, Unknown
  <2> QED
    BY <2>2, <2>3 DEF StatInv
<1>2. ASSUME NEW c \in StatConns, Sent(c) PROVE StatInv'
  BY <1>0, <1>2 DEF Sent, StatInv, StatTyped, IdsApart, BytesOnce, Noted, Unknown
<1>3. ASSUME NEW c \in StatConns, Offloaded(c) PROVE StatInv'
  <2>1. /\ UNCHANGED <<online, sid, next_sid, seen_bytes, reported, skipped, baselined, hidden>>
        /\ UNCHANGED <<outside_age, traffic_age>>
        /\ carried[c] \in 0..MaxBytes /\ carried[c] < MaxBytes
        /\ carried' = [carried EXCEPT ![c] = carried[c] + 1] /\ heard_age' = [heard_age EXCEPT ![c] = 0]
    BY <1>0, <1>3 DEF Offloaded, StatTyped
  <2>2. StatTyped' /\ IdsApart'
    BY <1>0, <2>1 DEF StatTyped, IdsApart
  <2>3. \A d \in StatConns : /\ carried[d] <= carried'[d] /\ carried[d] \in Nat /\ carried'[d] \in Nat
                             /\ reported[d] \in Nat /\ skipped[d] \in Nat /\ reported[d] + skipped[d] <= carried[d]
                             /\ IF d = c THEN carried'[d] = carried[d] + 1 ELSE heard_age'[d] = heard_age[d]
    BY <1>0, <2>1 DEF StatTyped, BytesOnce
  <2>4. BytesOnce'
    <3> SUFFICES ASSUME NEW d \in StatConns
                 PROVE  /\ reported[d] + skipped[d] <= carried'[d]
                        /\ seen_bytes[sid[d]] # NoBytes => reported[d] + skipped[d] = seen_bytes[sid[d]]
                        /\ d \in online /\ sid[d] \in baselined => seen_bytes[sid[d]] # NoBytes
      BY <2>1 DEF BytesOnce
    <3> QED
      BY <1>0, <2>3 DEF BytesOnce
  <2>5. Noted'
    BY <1>0, <2>1, <2>3 DEF Noted, Unknown
  <2> QED
    BY <2>2, <2>4, <2>5 DEF StatInv
<1>4. ASSUME NEW c \in StatConns, RotateSid(c) PROVE StatInv'
  <2>1. /\ UNCHANGED <<online, carried, seen_bytes, reported, skipped, baselined, hidden>>
        /\ UNCHANGED <<outside_age, traffic_age, heard_age>>
        /\ sid' = [sid EXCEPT ![c] = next_sid] /\ next_sid' = next_sid + 1 /\ next_sid <= MaxIds
    BY <1>4 DEF RotateSid
  <2>2. next_sid \in SidRange /\ seen_bytes[next_sid] = NoBytes /\ next_sid \notin baselined
    <3>1. sid[c] \in SidRange /\ sid[c] < next_sid /\ next_sid \in Nat
      BY <1>0 DEF StatTyped, IdsApart
    <3>2. next_sid \in SidRange
      BY <1>0, <2>1, <3>1 DEF SidRange
    <3> QED
      BY <1>0, <3>1, <3>2 DEF IdsApart
  <2>3. StatTyped' /\ IdsApart'
    <3>1. next_sid \in Nat /\ \A i \in SidRange : i \in Nat
      BY <1>0 DEF StatTyped, SidRange
    <3>2. StatTyped'
      BY <1>0, <2>1, <2>2, <3>1 DEF StatTyped
    <3>3. \A d \in StatConns : sid[d] \in Nat /\ sid[d] < next_sid /\ sid'[d] = IF d = c THEN next_sid ELSE sid[d]
      BY <1>0, <2>1, <3>1 DEF StatTyped, IdsApart
    <3>4. \A a, b \in StatConns : sid'[a] = sid'[b] => a = b
      BY <1>0, <3>1, <3>3 DEF IdsApart
    <3>5. \A d \in StatConns : sid'[d] < next_sid'
      BY <2>1, <3>1, <3>3
    <3>6. \A i \in SidRange : i >= next_sid' => seen_bytes'[i] = NoBytes /\ i \notin baselined'
      BY <1>0, <2>1, <3>1 DEF IdsApart
    <3> QED
      BY <3>2, <3>4, <3>5, <3>6 DEF IdsApart
  <2>4. BytesOnce' /\ Noted'
    BY <1>0, <2>1, <2>2 DEF StatTyped, BytesOnce, Noted, Unknown
  <2> QED
    BY <2>3, <2>4 DEF StatInv
<1>5. ASSUME NEW c \in StatConns, Evict(c) PROVE StatInv'
  BY <1>0, <1>5 DEF Evict, StatInv, StatTyped, IdsApart, BytesOnce, Noted, Unknown
<1>6. ASSUME NEW read \in SUBSET StatConns, NEW tx \in SUBSET StatConns, Poll(read, tx) PROVE StatInv'
  BY <1>6, PollKeeps
<1>7. CASE StatTick
  <2>1. /\ UNCHANGED <<online, sid, next_sid, carried, seen_bytes, reported, skipped, baselined, hidden>>
        /\ outside_age' = Older(outside_age) /\ traffic_age' = Older(traffic_age) /\ heard_age' = Older(heard_age)
    BY <1>7 DEF StatTick
  <2>2. StatTyped' /\ IdsApart' /\ BytesOnce'
    BY <1>0, <2>1, OlderAges DEF StatTyped, IdsApart, BytesOnce
  <2>3. \A c \in StatConns : heard_age[c] >= outside_age[c] => heard_age'[c] >= outside_age'[c]
    BY <1>0, <2>1, OlderAges DEF StatTyped
  <2>4. Noted'
    BY <1>0, <2>1, <2>3 DEF Noted, Unknown
  <2> QED
    BY <2>2, <2>4 DEF StatInv
<1>8. CASE UNCHANGED statVars
  BY <1>0, <1>8 DEF statVars, StatInv, StatTyped, IdsApart, BytesOnce, Noted, Unknown
<1> QED
  BY <1>1, <1>2, <1>3, <1>4, <1>5, <1>6, <1>7, <1>8 DEF StatNext

LEMMA StatInvSafe == StatInv => StatsSafe
<1> SUFFICES ASSUME StatInv PROVE StatsSafe
  OBVIOUS
<1>1. StatTypeOK
  <2>1. \A c \in StatConns : carried[c] <= MaxBytes /\ reported[c] <= MaxBytes
    BY StatBounds DEF StatInv, StatTyped, BytesOnce
  <2> QED
    BY <2>1 DEF StatInv, StatTyped, StatTypeOK
<1>2. HeardCounted
  <2> SUFFICES ASSUME NEW k \in Intervals, NEW c \in online, heard_age[c] <= k,
                      ~Unknown(c)
               PROVE  c \in Active(k) \cup Standby(k)
    BY DEF HeardCounted
  <2>1. c \in StatConns /\ k \in Nat
    BY StatBounds DEF StatInv, StatTyped
  <2>2. heard_age[c] >= outside_age[c] /\ heard_age[c] \in Nat /\ outside_age[c] \in Nat /\ traffic_age[c] \in Nat
    BY <2>1, StatBounds DEF StatInv, StatTyped, Noted
  <2> QED
    BY <2>1, <2>2 DEF Active, Standby
<1> QED
  BY <1>1, <1>2 DEF StatInv, StatsSafe

(* For any number of connections, session ids and bytes: no byte of an     *)
(* offloaded session is reported twice and none is hidden but by the one   *)
(* baseline of each session id, however often its counter is unreadable;   *)
(* and a client heard in an interval is counted in it, unless what was     *)
(* heard last is unpolled or was taken by such a baseline (decide, the     *)
(* poll of offload_stats.rs, calculate_session_stats).                     *)
THEOREM StatsAreSafe == StatSpec => []StatsSafe
<1>1. StatInit => StatInv
  BY StatInvInit
<1>2. StatInv /\ [StatNext]_statVars => StatInv'
  BY StatInvNext
<1>3. StatInv => StatsSafe
  BY StatInvSafe
<1> QED
  BY <1>1, <1>2, <1>3, PTL DEF StatSpec

(* For any number of connections no connection is evicted whose peer was   *)
(* heard within the maximum idle age, unless what was heard last is bytes  *)
(* that no poll has observed yet or that a baseline took                   *)
(* (evict_idle_connections).                                               *)
THEOREM OnlySilentEvicted == StatSpec => EvictedSilent
<1>1. StatInit => StatInv
  BY StatInvInit
<1>2. StatInv /\ [StatNext]_statVars => StatInv'
  BY StatInvNext
<1>3. StatInv /\ [StatNext]_statVars =>
        [\A c \in online \ online' : heard_age[c] > MaxIdleAge \/ Unknown(c)]_statVars
  <2> SUFFICES ASSUME StatInv, StatNext, NEW c \in online \ online'
               PROVE  heard_age[c] > MaxIdleAge \/ Unknown(c)
    OBVIOUS
  <2>1. PICK d \in StatConns : Evict(d)
    BY DEF StatNext, Received, Sent, Offloaded, RotateSid, Poll, StatTick
  <2>2. c = d /\ outside_age[c] > MaxIdleAge /\ MaxIdleAge \in Nat
    BY <2>1, StatBounds DEF Evict, IsIdle
  <2>3. heard_age[c] \in Nat /\ outside_age[c] \in Nat /\ (heard_age[c] >= outside_age[c] \/ Unknown(c))
    BY StatBounds DEF StatInv, StatTyped, Noted
  <2> QED
    BY <2>2, <2>3
<1> QED
  BY <1>1, <1>2, <1>3, PTL DEF StatSpec, EvictedSilent

-----------------------------------------------------------------------------
(* Receiving datagrams.  The kernel's queue holds the last of those that   *)
(* arrived; those taken and not handled yet are in the slots from `next`   *)
(* on, each in its own, and every other slot the kernel may write to is    *)
(* empty.                                                                  *)
Slots == [buf : Seq(Nat), addr : Nat, control : Nat, truncated : BOOLEAN]
Metas == [peer : Nat, local : Nat]
Handleds == [data : Seq(Nat), truncated : BOOLEAN, meta : Metas]
Loops == [pc : {"recv", "handle", "ended"}, meta : Seq(Metas), next : Nat]

Payload(size, d) == [u \in 1..MinNat(size, RxCapacity) |-> d]
Holds(s, size, d) == s.buf = Payload(size, d) /\ s.truncated = (rx_role.flags /\ size > RxCapacity)
Empty(s) == s.buf = <<>>

RxTyped ==
  /\ rx_role \in Roles /\ rx \in Loops /\ slots \in [1..RxBatch -> Slots]
  /\ arrived \in Seq(RxSizes) /\ kernel \in Seq(Nat) /\ handled \in Seq(Handleds)
  /\ \A i \in 1..RxBatch : Len(slots[i].buf) <= RxCapacity

InKernel ==
  /\ Len(kernel) <= Len(arrived)
  /\ \A i \in 1..Len(kernel) : kernel[i] = Len(arrived) - Len(kernel) + i

Receiving ==
  rx.pc = "recv" => /\ Len(handled) = Len(arrived) - Len(kernel)
                    /\ \A i \in 1..RxBatch : Empty(slots[i])

Handling ==
  rx.pc = "handle" =>
    /\ rx.next \in 1..Len(rx.meta) /\ Len(rx.meta) <= RxBatch
    /\ Len(handled) - rx.next + 1 + Len(rx.meta) = Len(arrived) - Len(kernel)
    /\ \A i \in rx.next..Len(rx.meta) :
         LET d == Len(handled) - rx.next + 1 + i IN
         /\ Holds(slots[i], arrived[d], d)
         /\ rx.meta[i].peer = d /\ (rx_role.pktinfo => rx.meta[i].local = d)
    /\ \A i \in 1..RxBatch : i > Len(rx.meta) \/ (rx_role.server /\ i < rx.next) => Empty(slots[i])

Each(i, h, size) ==
  /\ h.meta.peer = i /\ Holds([buf |-> h.data, truncated |-> h.truncated], size, i)
  /\ rx_role.pktinfo => h.meta.local = i
HandledEach ==
  /\ Len(handled) <= Len(arrived)
  /\ \A i \in 1..Len(handled) : Each(i, handled[i], arrived[i])

RxInv == RxTyped /\ InKernel /\ Receiving /\ Handling /\ HandledEach

LEMMA RxFacts ==
  ASSUME RxInv
  PROVE  /\ RxCapacity \in Nat /\ RxBatch \in Nat
         /\ Len(arrived) \in Nat /\ Len(kernel) \in Nat /\ Len(handled) \in Nat /\ Len(rx.meta) \in Nat
         /\ \A d \in 1..Len(arrived) : arrived[d] \in Nat
         /\ \A i \in 1..RxBatch : slots[i] \in Slots
<1>1. rx.meta \in Seq(Metas)
  BY DEF RxInv, RxTyped, Loops
<1> QED
  BY <1>1, RxBounds, LenProperties, ElementOfSeq DEF RxInv, RxTyped

LEMMA FillHolds ==
  ASSUME RxInv, NEW slot \in Slots, Empty(slot), NEW d \in 1..Len(arrived)
  PROVE  LET s == Fill(slot, d) IN
         /\ s \in Slots /\ Holds(s, arrived[d], d) /\ s.addr = d /\ s.control = d
         /\ Len(s.buf) <= RxCapacity
<1>0. arrived[d] \in Nat /\ d \in Nat /\ RxCapacity \in Nat
  BY RxFacts
<1> DEFINE p == Payload(arrived[d], d)
<1>1. MinNat(arrived[d], RxCapacity) \in Nat /\ MinNat(arrived[d], RxCapacity) <= RxCapacity
  BY <1>0 DEF MinNat
<1>2. p \in Seq(Nat) /\ Len(p) <= RxCapacity
  BY <1>0, <1>1 DEF Payload
<1>3. Len(slot.buf) = 0 /\ slot.buf \o p = p
  BY <1>2 DEF Empty
<1>4. Fill(slot, d) = [buf |-> p, addr |-> d, control |-> d, truncated |-> (rx_role.flags /\ arrived[d] > RxCapacity)]
  <2>1. RxCapacity - Len(slot.buf) = RxCapacity
    BY <1>0, <1>3
  <2> QED
    BY <1>3, <2>1 DEF Fill, Payload
<1> HIDE DEF p
<1>5. LET s == [buf |-> p, addr |-> d, control |-> d, truncated |-> (rx_role.flags /\ arrived[d] > RxCapacity)] IN
      /\ s \in Slots /\ s.buf = p /\ s.addr = d /\ s.control = d /\ s.truncated = (rx_role.flags /\ arrived[d] > RxCapacity)
  BY <1>0, <1>2 DEF Slots
<1> QED
  BY <1>2, <1>4, <1>5 DEF Holds, p

LEMMA RxInvInit == RxInit => RxInv
<1> SUFFICES ASSUME RxInit PROVE RxInv
  OBVIOUS
<1>1. NewSlot \in Slots /\ NewSlot.buf = <<>>
  BY DEF NewSlot, Slots
<1>2. rx \in Loops /\ rx.pc = "recv"
  BY DEF RxInit, Loops
<1>3. RxTyped
  BY <1>1, <1>2, RxBounds DEF RxInit, RxTyped
<1> QED
  BY <1>1, <1>2, <1>3 DEF RxInit, RxInv, InKernel, Receiving, Handling, HandledEach, Empty

LEMMA ArriveKeeps ==
  ASSUME RxInv, NEW size \in RxSizes, Arrive(size)
  PROVE  RxInv'
<1>0. /\ Len(arrived) \in Nat /\ Len(kernel) \in Nat /\ Len(handled) \in Nat /\ Len(rx.meta) \in Nat
      /\ arrived \in Seq(RxSizes) /\ kernel \in Seq(Nat)
  BY RxFacts DEF RxInv, RxTyped
<1>1. /\ UNCHANGED <<rx_role, slots, rx, handled>>
      /\ arrived' = Append(arrived, size) /\ kernel' = Append(kernel, Len(arrived) + 1)
  BY DEF Arrive
<1>2. /\ arrived' \in Seq(RxSizes) /\ Len(arrived') = Len(arrived) + 1
      /\ \A d \in 1..Len(arrived) : arrived'[d] = arrived[d]
  BY <1>0, <1>1
<1>3. /\ kernel' \in Seq(Nat) /\ Len(kernel') = Len(kernel) + 1 /\ kernel'[Len(kernel) + 1] = Len(arrived) + 1
      /\ \A i \in 1..Len(kernel) : kernel'[i] = kernel[i]
  BY <1>0, <1>1
<1>4. RxTyped'
  BY <1>1, <1>2, <1>3 DEF RxInv, RxTyped
<1>5. InKernel'
  <2>1. Len(kernel) <= Len(arrived) /\ \A i \in 1..Len(kernel) : kernel[i] = Len(arrived) - Len(kernel) + i
    BY DEF RxInv, InKernel
  <2>2. ASSUME NEW i \in 1..(Len(kernel) + 1)
        PROVE  kernel'[i] = (Len(arrived) + 1) - (Len(kernel) + 1) + i
    <3>1. CASE i = Len(kernel) + 1
      BY <1>0, <1>3, <3>1
    <3>2. CASE i \in 1..Len(kernel)
      BY <1>0, <1>3, <2>1, <3>2
    <3> QED
      BY <1>0, <3>1, <3>2
  <2>3. Len(kernel') <= Len(arrived')
    BY <1>0, <1>2, <1>3, <2>1
  <2> QED
    BY <1>2, <1>3, <2>2, <2>3 DEF InKernel
<1>6. Receiving'
  <2>1. Len(arrived') - Len(kernel') = Len(arrived) - Len(kernel)
    BY <1>0, <1>2, <1>3
  <2>2. rx' = rx /\ handled' = handled /\ slots' = slots
    BY <1>1
  <2> QED
    BY <2>1, <2>2 DEF RxInv, Receiving, Empty
<1>7. Handling'
  <2> SUFFICES ASSUME rx.pc = "handle" PROVE Handling'
    BY <1>1 DEF Handling
  <2>1. /\ rx.next \in 1..Len(rx.meta) /\ Len(rx.meta) <= RxBatch
        /\ Len(handled) - rx.next + 1 + Len(rx.meta) = Len(arrived) - Len(kernel)
    BY DEF RxInv, Handling
  <2>2. ASSUME NEW i \in rx.next..Len(rx.meta)
        PROVE  LET d == Len(handled) - rx.next + 1 + i IN
               /\ Holds(slots[i], arrived'[d], d)
               /\ rx.meta[i].peer = d /\ (rx_role.pktinfo => rx.meta[i].local = d)
    <3>0. Len(kernel) <= Len(arrived)
      BY DEF RxInv, InKernel
    <3>1. PICK d \in 1..Len(arrived) : d = Len(handled) - rx.next + 1 + i
      <4>1. rx.next \in Nat /\ i \in Nat /\ rx.next <= i /\ i <= Len(rx.meta)
        BY <1>0, <2>1
      <4>2. PICK h \in Nat, x \in Nat, m \in Nat, a \in Nat, k \in Nat :
              h = Len(handled) /\ x = rx.next /\ m = Len(rx.meta) /\ a = Len(arrived) /\ k = Len(kernel)
        BY <1>0, <4>1
      <4>3. x <= i /\ i <= m /\ k <= a /\ h - x + 1 + m = a - k
        BY <2>1, <3>0, <4>1, <4>2
      <4>4. h - x + 1 + i \in 1..a
        BY <4>1, <4>3
      <4> QED
        BY <4>2, <4>4
    <3>2. Holds(slots[i], arrived[d], d) /\ rx.meta[i].peer = d /\ (rx_role.pktinfo => rx.meta[i].local = d)
      BY <3>1 DEF RxInv, Handling
    <3> QED
      BY <1>2, <3>1, <3>2
  <2>3. Len(handled) - rx.next + 1 + Len(rx.meta) = Len(arrived') - Len(kernel')
    BY <1>0, <1>2, <1>3, <2>1
  <2> QED
    BY <1>1, <2>1, <2>2, <2>3 DEF RxInv, Handling, Holds
<1>8. HandledEach'
  BY <1>0, <1>1, <1>2 DEF RxInv, HandledEach, Each, Holds
<1> QED
  BY <1>4, <1>5, <1>6, <1>7, <1>8 DEF RxInv

LEMMA BatchKeeps ==
  ASSUME RxInv, NEW n \in 1..RxBatch, NEW bad \in 0..RxBatch, ReceiveBatch(n, bad)
  PROVE  RxInv'
<1> DEFINE filled == [i \in 1..n |-> Fill(slots[i], kernel[i])]
           base == Len(arrived) - Len(kernel)
<1>0. /\ Len(arrived) \in Nat /\ Len(kernel) \in Nat /\ Len(handled) \in Nat /\ RxBatch \in Nat
      /\ kernel \in Seq(Nat) /\ rx.pc = "recv" /\ n <= Len(kernel) /\ Len(kernel) <= Len(arrived)
      /\ UNCHANGED <<rx_role, arrived, handled>> /\ base \in Nat
      /\ Len(handled) = base /\ \A i \in 1..RxBatch : slots[i] \in Slots /\ Empty(slots[i])
  BY RxFacts DEF RxInv, RxTyped, InKernel, Receiving, ReceiveBatch
<1>1. \A i \in 1..n : /\ filled[i] \in Slots /\ Holds(filled[i], arrived[base + i], base + i)
                      /\ filled[i].addr = base + i /\ filled[i].control = base + i
                      /\ Len(filled[i].buf) <= RxCapacity
  <2> SUFFICES ASSUME NEW i \in 1..n
               PROVE  /\ filled[i] \in Slots /\ Holds(filled[i], arrived[base + i], base + i)
                      /\ filled[i].addr = base + i /\ filled[i].control = base + i
                      /\ Len(filled[i].buf) <= RxCapacity
    OBVIOUS
  <2>1. PICK d \in 1..Len(arrived) : d = base + i /\ d = kernel[i]
    <3>1. i \in 1..Len(kernel) /\ base + i \in 1..Len(arrived)
      BY <1>0
    <3>2. kernel[i] = base + i
      BY <3>1 DEF RxInv, InKernel
    <3> QED
      BY <3>1, <3>2
  <2>2. PICK s \in Slots : s = slots[i] /\ Empty(s)
    BY <1>0
  <2>3. filled[i] = Fill(s, d)
    BY <2>1, <2>2
  <2> QED
    BY <2>1, <2>2, <2>3, FillHolds
<1>2. /\ kernel' \in Seq(Nat) /\ Len(kernel') = Len(kernel) - n
      /\ \A i \in 1..Len(kernel') : kernel'[i] = kernel[n + i]
  <2>1. kernel' = SubSeq(kernel, n + 1, Len(kernel))
    BY DEF ReceiveBatch
  <2>2. n + 1 \in 1..(Len(kernel) + 1) /\ Len(kernel) - (n + 1) + 1 = Len(kernel) - n
    BY <1>0
  <2>3. kernel' \in Seq(Nat) /\ Len(kernel') = Len(kernel) - n
    <3>1. \A i \in n + 1..Len(kernel) : kernel[i] \in Nat
      BY <1>0, <2>2, ElementOfSeq
    <3>2. n + 1 \in Int /\ Len(kernel) \in Int
      BY <1>0
    <3>3. /\ kernel' \in Seq(Nat)
          /\ Len(kernel') = IF n + 1 <= Len(kernel) THEN Len(kernel) - (n + 1) + 1 ELSE 0
      BY <2>1, <3>1, <3>2, SubSeqProperties
    <3>4. CASE n + 1 <= Len(kernel)
      BY <2>2, <3>3, <3>4
    <3>5. CASE ~(n + 1 <= Len(kernel))
      <4>1. Len(kernel) - n = 0
        BY <1>0, <3>5
      <4> QED
        BY <3>3, <3>5, <4>1
    <3> QED
      BY <3>4, <3>5
  <2>4. ASSUME NEW i \in 1..(Len(kernel) - n) PROVE kernel'[i] = kernel[n + i]
    BY <1>0, <2>1, <2>2, SubSeqProperties
  <2> QED
    BY <2>3, <2>4
<1>3. InKernel'
  <2>1. \A i \in 1..(Len(kernel) - n) : kernel[n + i] = Len(arrived) - (Len(kernel) - n) + i
    BY <1>0 DEF RxInv, InKernel
  <2>2. Len(kernel) \in Nat /\ Len(arrived) \in Nat /\ Len(kernel) <= Len(arrived)
    BY <1>0 DEF RxInv, InKernel
  <2>3. PICK k \in Nat, m \in Nat : k = Len(kernel) /\ m = Len(arrived)
    BY <2>2
  <2>4. n \in Nat /\ n <= k /\ k <= m /\ Len(arrived') = m
    BY <1>0, <2>2, <2>3 DEF ReceiveBatch
  <2>5. Len(kernel') = k - n /\ \A i \in 1..(k - n) : kernel'[i] = m - (k - n) + i
    BY <1>2, <2>1, <2>3
  <2>6. k - n <= m
    BY <2>4
  <2> QED
    BY <2>4, <2>5, <2>6 DEF InKernel
<1>4. slots' = [i \in 1..RxBatch |->
                  IF i > n THEN slots[i]
                  ELSE IF rx_role.server /\ (bad = 0 \/ i <= bad) THEN [filled[i] EXCEPT !.addr = 0]
                  ELSE filled[i]]
  BY DEF ReceiveBatch, RxInv, RxTyped
<1>5. \A i \in 1..n : LET s == [filled[i] EXCEPT !.addr = 0] IN
        s \in Slots /\ s.buf = filled[i].buf /\ s.truncated = filled[i].truncated
  <2> SUFFICES ASSUME NEW i \in 1..n
               PROVE  LET s == [filled[i] EXCEPT !.addr = 0] IN
                      s \in Slots /\ s.buf = filled[i].buf /\ s.truncated = filled[i].truncated
    OBVIOUS
  <2>1. PICK f \in Slots : f = filled[i]
    BY <1>1
  <2>2. LET s == [f EXCEPT !.addr = 0] IN s \in Slots /\ s.buf = f.buf /\ s.truncated = f.truncated
    BY DEF Slots
  <2> QED
    BY <2>1, <2>2
<1> HIDE DEF filled, base
<1>6. /\ \A i \in 1..n : /\ slots'[i] \in Slots /\ slots'[i].buf = filled[i].buf
                         /\ slots'[i].truncated = filled[i].truncated
      /\ \A i \in 1..RxBatch : i > n => slots'[i] = slots[i]
  <2>1. \A i \in 1..n : i \in 1..RxBatch /\ ~(i > n)
    BY <1>0
  <2>2. \A i \in 1..n : slots'[i] = [filled[i] EXCEPT !.addr = 0] \/ slots'[i] = filled[i]
    BY <1>4, <2>1
  <2>3. \A i \in 1..RxBatch : i > n => slots'[i] = slots[i]
    BY <1>4
  <2> QED
    BY <1>1, <1>5, <2>2, <2>3
<1>7. /\ slots' \in [1..RxBatch -> Slots] /\ \A i \in 1..RxBatch : Len(slots'[i].buf) <= RxCapacity
  <2>1. \A i \in 1..RxBatch : i > n \/ i \in 1..n
    BY <1>0
  <2>2. \A i \in 1..RxBatch : slots'[i] \in Slots /\ Len(slots'[i].buf) <= RxCapacity
    BY <1>0, <1>1, <1>6, <2>1 DEF RxInv, RxTyped
  <2>3. slots' = [i \in 1..RxBatch |-> slots'[i]]
    BY <1>4
  <2> QED
    BY <2>2, <2>3
<1>8. CASE bad # 0
  <2>1. rx' = [pc |-> "ended", meta |-> <<>>, next |-> 1]
    BY <1>8 DEF ReceiveBatch
  <2>2. rx' \in Loops /\ rx'.pc = "ended"
    BY <2>1 DEF Loops
  <2>3. RxTyped'
    BY <1>0, <1>2, <1>7, <2>2 DEF RxInv, RxTyped
  <2> QED
    BY <1>0, <1>3, <2>2, <2>3 DEF RxInv, Receiving, Handling, HandledEach, Each, Holds
<1>9. CASE bad = 0
  <2> DEFINE meta == [i \in 1..n |-> Metadata(filled[i])]
  <2>1. rx' = [pc |-> "handle", meta |-> meta, next |-> 1]
    BY <1>9 DEF ReceiveBatch, filled
  <2>2. \A i \in 1..n : /\ meta[i] \in Metas /\ meta[i].peer = base + i
                        /\ (rx_role.pktinfo => meta[i].local = base + i)
    <3> SUFFICES ASSUME NEW i \in 1..n
                 PROVE  /\ Metadata(filled[i]) \in Metas /\ Metadata(filled[i]).peer = base + i
                        /\ (rx_role.pktinfo => Metadata(filled[i]).local = base + i)
      OBVIOUS
    <3>1. filled[i].addr = base + i /\ filled[i].control = base + i
      BY <1>1
    <3>2. i \in Nat /\ base + i \in Nat /\ 0 \in Nat
      BY <1>0
    <3> QED
      BY <3>1, <3>2 DEF Metadata, Metas
  <2>3. meta \in Seq(Metas) /\ Len(meta) = n
    BY <1>0, <2>2
  <2> HIDE DEF meta
  <2>4. rx' \in Loops /\ rx'.pc = "handle" /\ rx'.meta = meta /\ rx'.next = 1
    BY <2>1, <2>3 DEF Loops
  <2>5. RxTyped'
    BY <1>0, <1>2, <1>7, <2>4 DEF RxInv, RxTyped
  <2>6. Handling'
    <3>1. ASSUME NEW i \in 1..n
          PROVE  LET d == Len(handled) - 1 + 1 + i IN
                 /\ Holds(slots'[i], arrived[d], d)
                 /\ meta[i].peer = d /\ (rx_role.pktinfo => meta[i].local = d)
      <4>1. PICK d : d = base + i /\ d = Len(handled) - 1 + 1 + i
        BY <1>0
      <4> QED
        BY <1>1, <1>6, <2>2, <4>1 DEF Holds
    <3>2. \A i \in 1..RxBatch : i > n => Empty(slots'[i])
      BY <1>0, <1>6
    <3>3. Len(handled) - 1 + 1 + n = Len(arrived) - Len(kernel')
      BY <1>0, <1>2 DEF base
    <3>4. \A i \in 1..RxBatch : ~(i < 1)
      OBVIOUS
    <3>5. 1 \in 1..n /\ n <= RxBatch
      BY <1>0
    <3> QED
      BY <1>0, <2>3, <2>4, <3>1, <3>2, <3>3, <3>4, <3>5 DEF Handling, Holds
  <2> QED
    BY <1>0, <1>3, <2>4, <2>5, <2>6 DEF RxInv, Receiving, HandledEach, Each, Holds
<1> QED
  BY <1>8, <1>9

LEMMA ResetFacts ==
  ASSUME NEW s \in Slots
  PROVE  reset(s) \in Slots /\ Empty(reset(s)) /\ Len(reset(s).buf) = 0
<1>0. DOMAIN s = {"buf", "addr", "control", "truncated"}
  BY DEF Slots
<1>1. reset(s) = [buf |-> <<>>, addr |-> s.addr, control |-> 0, truncated |-> FALSE]
  <2>1. DOMAIN reset(s) = {"buf", "addr", "control", "truncated"}
    BY <1>0 DEF reset
  <2>2. reset(s).buf = <<>>
    BY <1>0 DEF reset
  <2>3. reset(s).addr = s.addr
    BY <1>0 DEF reset
  <2>4. reset(s).control = 0
    BY <1>0 DEF reset
  <2>5. reset(s).truncated = FALSE
    BY <1>0 DEF reset
  <2>6. reset(s) = [f \in DOMAIN s |-> reset(s)[f]]
    BY DEF reset
  <2> QED
    BY <1>0, <2>2, <2>3, <2>4, <2>5, <2>6
<1>2. s.addr \in Nat
  BY DEF Slots
<1>3. [buf |-> <<>>, addr |-> s.addr, control |-> 0, truncated |-> FALSE] \in Slots
  BY <1>2 DEF Slots
<1> QED
  BY <1>1, <1>3 DEF Empty

LEMMA HandleKeeps ==
  ASSUME RxInv, NEW fatal \in BOOLEAN, Handle(fatal)
  PROVE  RxInv'
<1>0. /\ Len(arrived) \in Nat /\ Len(kernel) \in Nat /\ Len(handled) \in Nat /\ RxBatch \in Nat
      /\ RxCapacity \in Nat /\ \A i \in 1..RxBatch : slots[i] \in Slots /\ Len(slots[i].buf) <= RxCapacity
  BY RxFacts DEF RxInv, RxTyped
<1>1. rx_role' = rx_role /\ kernel' = kernel /\ arrived' = arrived /\ rx.pc = "handle"
  BY DEF Handle
<1>2. PICK x \in Nat, n \in Nat : x = rx.next /\ n = Len(rx.meta)
  BY RxFacts DEF RxInv, RxTyped, Loops
<1>3. /\ 1 <= x /\ x <= n /\ n <= RxBatch /\ Len(kernel) <= Len(arrived)
      /\ Len(handled) - x + 1 + n = Len(arrived) - Len(kernel)
  BY <1>1, <1>2 DEF RxInv, Handling, InKernel
<1>4. x \in 1..RxBatch /\ x \in x..n /\ Len(handled) + 1 <= Len(arrived) /\ Len(handled) - x + 1 + x = Len(handled) + 1
  <2>1. PICK e \in Nat, a \in Nat, k \in Nat : e = Len(handled) /\ a = Len(arrived) /\ k = Len(kernel)
    BY <1>0
  <2>2. k <= a /\ e - x + 1 + n = a - k
    BY <1>3, <2>1
  <2>3. e + 1 <= a /\ e - x + 1 + x = e + 1
    BY <1>3, <2>2
  <2> QED
    BY <1>0, <1>3, <2>1, <2>3
<1> DEFINE h == [data |-> slots[x].buf, truncated |-> slots[x].truncated, meta |-> rx.meta[x]]
           D == Len(handled) + 1
<1>5. Holds(slots[x], arrived[D], D) /\ rx.meta[x].peer = D /\ (rx_role.pktinfo => rx.meta[x].local = D)
  BY <1>1, <1>2, <1>4 DEF RxInv, Handling
<1>6. h \in Handleds /\ Each(D, h, arrived[D])
  <2>1. slots[x] \in Slots
    BY <1>0, <1>4
  <2>2. slots[x].buf \in Seq(Nat) /\ slots[x].truncated \in BOOLEAN
    BY <2>1 DEF Slots
  <2>3. rx.meta[x] \in Metas
    BY <1>2, <1>3, ElementOfSeq DEF RxInv, RxTyped, Loops
  <2>4. h \in Handleds
    BY <2>2, <2>3 DEF Handleds
  <2>5. Each(D, h, arrived[D])
    BY <1>5 DEF Each, Holds
  <2> QED
    BY <2>4, <2>5
<1> HIDE DEF h
<1>7. handled' = Append(handled, h)
  BY <1>2 DEF Handle, h
<1>8. /\ handled' \in Seq(Handleds) /\ Len(handled') = D /\ handled'[D] = h
      /\ \A i \in 1..Len(handled) : handled'[i] = handled[i]
  BY <1>6, <1>7, AppendProperties DEF RxInv, RxTyped
<1>9. HandledEach'
  <2>1. ASSUME NEW i \in 1..D PROVE Each(i, handled'[i], arrived[i])
    <3>1. CASE i = D
      BY <1>6, <1>8, <3>1
    <3>2. CASE i \in 1..Len(handled)
      BY <1>8, <3>2 DEF RxInv, HandledEach
    <3> QED
      BY <1>0, <3>1, <3>2
  <2> QED
    BY <1>1, <1>4, <1>8, <2>1 DEF HandledEach, Each, Holds
<1>10. InKernel'
  BY <1>1 DEF RxInv, InKernel
<1>11. ASSUME NEW i \in 1..RxBatch PROVE reset(slots[i]) \in Slots /\ Empty(reset(slots[i])) /\ Len(reset(slots[i]).buf) = 0
  BY <1>0, ResetFacts
<1>12. slots = [i \in 1..RxBatch |-> slots[i]] /\ DOMAIN slots = 1..RxBatch
  BY DEF RxInv, RxTyped
<1>13. /\ slots' \in [1..RxBatch -> Slots] /\ \A i \in 1..RxBatch : Len(slots'[i].buf) <= RxCapacity
       /\ \A i \in 1..RxBatch : slots'[i] = slots[i] \/ slots'[i] = reset(slots[i])
  <2>1. \/ slots' = [slots EXCEPT ![x] = reset(slots[x])] \/ slots' = slots
        \/ slots' = [i \in 1..RxBatch |-> IF i <= n THEN reset(slots[i]) ELSE slots[i]]
    BY <1>2, <1>12 DEF Handle
  <2>2. \A i \in 1..RxBatch : slots'[i] = slots[i] \/ slots'[i] = reset(slots[i])
    BY <1>12, <2>1
  <2>3. slots' = [i \in 1..RxBatch |-> slots'[i]]
    BY <1>12, <2>1
  <2>4. \A i \in 1..RxBatch : slots'[i] \in Slots /\ Len(slots'[i].buf) <= RxCapacity
    BY <1>0, <1>11, <2>2
  <2> QED
    BY <2>2, <2>3, <2>4
<1>14. \A i \in 1..RxBatch : Empty(slots[i]) => Empty(slots'[i])
  BY <1>11, <1>13
<1>15. ASSUME rx' \in Loops PROVE RxTyped'
  BY <1>1, <1>8, <1>13, <1>15 DEF RxInv, RxTyped
<1>16. PICK m \in Seq(Metas) : m = rx.meta /\ rx = [pc |-> "handle", meta |-> m, next |-> x]
  <2>1. rx \in Loops
    BY DEF RxInv, RxTyped
  <2> QED
    BY <1>1, <1>2, <2>1 DEF Loops
<1>17. CASE fatal
  <2>1. rx' = [pc |-> "ended", meta |-> m, next |-> x]
    BY <1>16, <1>17 DEF Handle
  <2>2. rx' \in Loops /\ rx'.pc = "ended"
    BY <2>1 DEF Loops
  <2> QED
    BY <1>9, <1>10, <1>15, <2>2 DEF RxInv, Receiving, Handling
<1>18. CASE ~fatal /\ x < n
  <2>1. rx' = [pc |-> "handle", meta |-> m, next |-> x + 1]
    BY <1>2, <1>16, <1>18 DEF Handle
  <2>2. rx' \in Loops /\ rx'.pc = "handle" /\ rx'.meta = m /\ rx'.next = x + 1 /\ Len(m) = n
    BY <1>2, <1>16, <2>1 DEF Loops
  <2>3. slots' = IF rx_role.server THEN [slots EXCEPT ![x] = reset(slots[x])] ELSE slots
    BY <1>2, <1>3, <1>18 DEF Handle
  <2>4. ASSUME NEW i \in (x + 1)..n
        PROVE  LET d == Len(handled') - (x + 1) + 1 + i IN
               /\ Holds(slots'[i], arrived[d], d)
               /\ m[i].peer = d /\ (rx_role.pktinfo => m[i].local = d)
    <3>1. i \in x..n /\ i # x /\ i \in 1..RxBatch /\ Len(handled') - (x + 1) + 1 + i = Len(handled) - x + 1 + i
      BY <1>0, <1>3, <1>8, SMTT(30)
    <3>2. slots'[i] = slots[i]
      BY <1>12, <2>3, <3>1
    <3>3. LET d == Len(handled) - x + 1 + i IN
          /\ Holds(slots[i], arrived[d], d)
          /\ m[i].peer = d /\ (rx_role.pktinfo => m[i].local = d)
      BY <1>1, <1>2, <1>16, <3>1 DEF RxInv, Handling
    <3> QED
      BY <3>1, <3>2, <3>3
  <2>5. ASSUME NEW i \in 1..RxBatch, i > n \/ (rx_role.server /\ i < x + 1) PROVE Empty(slots'[i])
    <3>1. CASE i > n
      BY <1>1, <1>2, <1>14, <3>1 DEF RxInv, Handling
    <3>2. CASE rx_role.server /\ i = x
      BY <1>11, <1>12, <2>3, <3>2
    <3>3. CASE rx_role.server /\ i < x
      BY <1>1, <1>2, <1>14, <3>3 DEF RxInv, Handling
    <3> QED
      BY <1>2, <2>5, <3>1, <3>2, <3>3
  <2>6. /\ x + 1 \in 1..n /\ n <= RxBatch
        /\ Len(handled') - (x + 1) + 1 + n = Len(arrived) - Len(kernel)
    BY <1>0, <1>3, <1>8, <1>18
  <2>7. Handling'
    BY <1>1, <2>2, <2>4, <2>5, <2>6 DEF Handling, Holds
  <2> QED
    BY <1>9, <1>10, <1>15, <2>2, <2>7 DEF RxInv, Receiving
<1>19. CASE ~fatal /\ ~(x < n)
  <2>1. rx' = [pc |-> "recv", meta |-> <<>>, next |-> 1]
    BY <1>2, <1>19 DEF Handle
  <2>2. rx' \in Loops /\ rx'.pc = "recv"
    BY <2>1 DEF Loops
  <2>3. x = n /\ Len(handled') = Len(arrived) - Len(kernel)
    BY <1>0, <1>3, <1>8, <1>19
  <2>4. ASSUME NEW i \in 1..RxBatch PROVE Empty(slots'[i])
    <3>1. CASE i > n
      BY <1>1, <1>2, <1>14, <3>1 DEF RxInv, Handling
    <3>2. CASE rx_role.server /\ i < x
      BY <1>1, <1>2, <1>14, <3>2 DEF RxInv, Handling
    <3>3. CASE rx_role.server /\ i = x
      <4>1. slots' = [slots EXCEPT ![x] = reset(slots[x])]
        BY <1>2, <3>3 DEF Handle
      <4> QED
        BY <1>11, <1>12, <3>3, <4>1
    <3>4. CASE ~rx_role.server /\ i <= n
      <4>1. slots' = [j \in 1..RxBatch |-> IF j <= n THEN reset(slots[j]) ELSE slots[j]]
        BY <1>2, <1>12, <1>19, <2>3, <3>4 DEF Handle
      <4> QED
        BY <1>11, <3>4, <4>1
    <3> QED
      BY <1>2, <2>3, <3>1, <3>2, <3>3, <3>4
  <2>5. Receiving'
    BY <1>1, <2>3, <2>4 DEF Receiving
  <2> QED
    BY <1>9, <1>10, <1>15, <2>2, <2>5 DEF RxInv, Handling
<1> QED
  BY <1>17, <1>18, <1>19

LEMMA FailsKeeps == RxInv /\ ReceiveFails => RxInv'
<1> SUFFICES ASSUME RxInv, ReceiveFails PROVE RxInv'
  OBVIOUS
<1>1. /\ rx_role' = rx_role /\ kernel' = kernel /\ slots' = slots /\ arrived' = arrived /\ handled' = handled
      /\ rx' = [rx EXCEPT !.pc = "ended"]
  BY DEF ReceiveFails
<1>2. PICK m \in Seq(Metas), x \in Nat : rx = [pc |-> rx.pc, meta |-> m, next |-> x]
  BY DEF RxInv, RxTyped, Loops
<1>3. rx' = [pc |-> "ended", meta |-> m, next |-> x]
  BY <1>1, <1>2
<1>4. rx' \in Loops /\ rx'.pc = "ended"
  BY <1>3 DEF Loops
<1>5. RxTyped'
  BY <1>1, <1>4 DEF RxInv, RxTyped
<1> QED
  BY <1>1, <1>4, <1>5 DEF RxInv, InKernel, Receiving, Handling, HandledEach, Each, Holds

LEMMA RxInvNext == RxInv /\ [RxNext]_rxVars => RxInv'
<1> SUFFICES ASSUME RxInv, [RxNext]_rxVars PROVE RxInv'
  OBVIOUS
<1>1. ASSUME NEW size \in RxSizes, Arrive(size) PROVE RxInv'
  BY <1>1, ArriveKeeps
<1>2. ASSUME NEW n \in 1..RxBatch, NEW bad \in 0..RxBatch, ReceiveBatch(n, bad) PROVE RxInv'
  BY <1>2, BatchKeeps
<1>3. CASE ReceiveFails
  BY <1>3, FailsKeeps
<1>4. ASSUME NEW fatal \in BOOLEAN, Handle(fatal) PROVE RxInv'
  BY <1>4, HandleKeeps
<1>5. CASE UNCHANGED rxVars
  BY <1>5 DEF rxVars, RxInv, RxTyped, InKernel, Receiving, Handling, HandledEach, Each, Empty, Holds
<1> QED
  BY <1>1, <1>2, <1>3, <1>4, <1>5 DEF RxNext

LEMMA RxInvSafe == RxInv => ReceiveExact
<1> SUFFICES ASSUME RxInv PROVE ReceiveExact
  OBVIOUS
<1>0. /\ Len(arrived) \in Nat /\ Len(kernel) \in Nat /\ Len(handled) \in Nat /\ Len(kernel) <= Len(arrived)
      /\ DOMAIN arrived = 1..Len(arrived) /\ DOMAIN kernel = 1..Len(kernel) /\ DOMAIN handled = 1..Len(handled)
      /\ kernel \in Seq(Nat) /\ DOMAIN slots = 1..RxBatch
  BY RxFacts DEF RxInv, RxTyped, InKernel
<1>1. RxTypeOK
  <2>1. Range(kernel) \subseteq DOMAIN arrived
    <3>1. \A i \in 1..Len(kernel) : kernel[i] \in 1..Len(arrived)
      <4>1. \A i \in 1..Len(kernel) : Len(arrived) - Len(kernel) + i \in 1..Len(arrived)
        BY <1>0
      <4> QED
        BY <4>1 DEF RxInv, InKernel
    <3> QED
      BY <1>0, <3>1 DEF Range
  <2>2. Range(arrived) \subseteq RxSizes
    BY <1>0, ElementOfSeq DEF Range, RxInv, RxTyped
  <2>3. rx.pc \in {"recv", "handle", "ended"} /\ rx_role \in Roles
    BY DEF RxInv, RxTyped, Loops
  <2> QED
    BY <1>0, <2>1, <2>2, <2>3 DEF RxTypeOK, RxInv, RxTyped
<1>2. HandledIntact
  <2> SUFFICES ASSUME NEW i \in DOMAIN handled
               PROVE  /\ handled[i].data = [u \in 1..MinNat(arrived[i], RxCapacity) |-> i]
                      /\ handled[i].truncated = (rx_role.flags /\ arrived[i] > RxCapacity)
                      /\ rx_role.pktinfo => handled[i].meta.local = i
    BY DEF HandledIntact
  <2>1. Each(i, handled[i], arrived[i])
    BY <1>0 DEF RxInv, HandledEach
  <2>2. Holds([buf |-> handled[i].data, truncated |-> handled[i].truncated], arrived[i], i)
    BY <2>1 DEF Each
  <2>3. handled[i].data = Payload(arrived[i], i) /\ handled[i].truncated = (rx_role.flags /\ arrived[i] > RxCapacity)
    BY <2>2 DEF Holds
  <2>4. rx_role.pktinfo => handled[i].meta.local = i
    BY <2>1 DEF Each
  <2> QED
    BY <2>3, <2>4 DEF Payload
<1>3. ASSUME NEW i \in DOMAIN handled PROVE handled[i].meta.peer = i
  <2>1. Each(i, handled[i], arrived[i])
    BY <1>0 DEF RxInv, HandledEach
  <2> QED
    BY <2>1 DEF Each
<1>4. ASSUME rx.pc = "recv"
      PROVE  [i \in DOMAIN handled |-> i] \o kernel = [i \in DOMAIN arrived |-> i]
  <2> DEFINE a == [i \in 1..Len(handled) |-> i]
             b == [i \in 1..Len(arrived) |-> i]
  <2>1. a \in Seq(Nat) /\ Len(a) = Len(handled) /\ b \in Seq(Nat) /\ Len(b) = Len(arrived)
    BY <1>0
  <2>2. Len(handled) = Len(arrived) - Len(kernel)
    BY <1>4 DEF RxInv, Receiving
  <2>3. /\ a \o kernel \in Seq(Nat) /\ Len(a \o kernel) = Len(handled) + Len(kernel)
        /\ \A i \in 1..(Len(handled) + Len(kernel)) :
             (a \o kernel)[i] = IF i <= Len(handled) THEN a[i] ELSE kernel[i - Len(handled)]
    BY <1>0, <2>1, ConcatProperties
  <2>4. ASSUME NEW i \in 1..Len(arrived) PROVE (a \o kernel)[i] = i
    <3>1. CASE i <= Len(handled)
      BY <1>0, <2>2, <2>3, <3>1
    <3>2. CASE ~(i <= Len(handled))
      <4>1. i - Len(handled) \in 1..Len(kernel) /\ Len(arrived) - Len(kernel) + (i - Len(handled)) = i
        BY <1>0, <2>2, <3>2
      <4>2. kernel[i - Len(handled)] = i
        BY <4>1 DEF RxInv, InKernel
      <4> QED
        BY <1>0, <2>2, <2>3, <3>2, <4>2
    <3> QED
      BY <3>1, <3>2
  <2>5. Len(a \o kernel) = Len(b)
    BY <1>0, <2>1, <2>2, <2>3
  <2>6. \A i \in 1..Len(a \o kernel) : (a \o kernel)[i] = b[i]
    BY <2>1, <2>4, <2>5
  <2> HIDE DEF a, b
  <2>7. PICK q \in Seq(Nat) : q = a \o kernel
    BY <2>3
  <2>8. q = b
    BY <2>1, <2>5, <2>6, <2>7, SeqEqual
  <2> QED
    BY <1>0, <2>7, <2>8 DEF a, b
<1> QED
  BY <1>1, <1>2, <1>3, <1>4 DEF ReceiveExact, HandledInOrder

(* Each datagram is handled once, in order, with its own bytes as far as   *)
(* they fit and its own addresses, whatever the batch size, the buffers'   *)
(* capacity and the sizes that arrive; the cut ones are counted as cut     *)
(* where the receive call reports it, and nowhere else (run_single,        *)
(* run_batch, batch_receive.rs).                                           *)
THEOREM ReceivedExactly == RxSpec => []ReceiveExact
<1>1. RxInit => RxInv
  BY RxInvInit
<1>2. RxInv /\ [RxNext]_rxVars => RxInv'
  BY RxInvNext
<1>3. RxInv => ReceiveExact
  BY RxInvSafe
<1> QED
  BY <1>1, <1>2, <1>3, PTL DEF RxSpec

-----------------------------------------------------------------------------
(* The inside loop.  A datagram is in one place under a number of its own: *)
(* taken by the socket, being flushed, queued, or dropped; those being     *)
(* flushed or queued are in order, and what is queued comes after all that *)
(* left the queue.                                                         *)
Sealed == {d \in Datagram : d.owned}
Distinct(s) == \A i, j \in 1..Len(s) : s[i].id = s[j].id => i = j
Increasing(s) == \A i, j \in 1..Len(s) : i < j => s[i].id < s[j].id

Placed(so, ms, sq, dr, n) ==
  /\ so \in Seq(Sealed) /\ ms \in Seq(Sealed) /\ sq \in Seq(Sealed) /\ n \in Nat
  /\ Distinct(so) /\ Increasing(ms) /\ Increasing(sq)
  /\ Ids(so) \cap Ids(ms) = {}
  /\ \A q \in Ids(sq) : \A e \in Ids(so) \cup Ids(ms) : e < q
  /\ dr \cap (Ids(so) \cup Ids(ms) \cup Ids(sq)) = {}
  /\ Ids(so) \cup Ids(ms) \cup Ids(sq) \cup dr = 1..n

(* Where the loop is: a window is open only while the batched loop fills   *)
(* it, and nothing is queued without one.  The connection looked up still  *)
(* holds the destination, or has been disconnected since.                  *)
LoopTyped ==
  /\ setup \in Configs /\ window \in BOOLEAN /\ accepted <= MaxDatagrams
  /\ inside \in [pc : {"recv", "lookup", "forward", "flush", "flushing", "ended"},
                 pkts : Seq(PoolNet \cup {NoIp}), conn : InConns \cup {NoInConn}]
LoopAt ==
  /\ inside.pc \in {"lookup", "forward"} => inside.pkts # <<>>
  /\ window => Batched /\ inside.pc \in {"lookup", "forward", "flush"}
  /\ ~window => send_queue = <<>>
  /\ inside.pc = "flushing" <=> msgs # <<>>
LookedUp ==
  inside.pc = "forward" =>
    /\ inside.conn \in InConns /\ Head(inside.pkts) # NoIp
    /\ client[inside.conn].internal_ip = Head(inside.pkts) \/ client[inside.conn].state = "Disconnected"

(* An IP waits once in its pool, or the map and its holder agree on it.    *)
PoolsTyped ==
  /\ ip_pools \in [Pools -> [available : Seq(PoolNet), allocated : SUBSET PoolNet]]
  /\ ip_owner \in [PoolNet -> InConns \cup {NoInConn}]
  /\ client \in [InConns -> [state : {"LinkUp", "Online", "Refused", "Disconnected"},
                             internal_ip : PoolNet \cup {NoIp}]]
PoolHolds(p, available, allocated) ==
  /\ Range(available) \cup allocated = split_subnet(p)
  /\ Range(available) \cap allocated = {}
  /\ \A i, j \in 1..Len(available) : available[i] = available[j] => i = j
PoolsHold == \A p \in Pools : PoolHolds(p, ip_pools[p].available, ip_pools[p].allocated)
Held ==
  /\ \A p \in Pools : \A ip \in ip_pools[p].allocated :
       ip_owner[ip] # NoInConn /\ PoolOf(ip_owner[ip]) = p
  /\ \A ip \in PoolNet : ip_owner[ip] # NoInConn => client[ip_owner[ip]].internal_ip = ip
  /\ \A c \in InConns : client[c].internal_ip # NoIp =>
       /\ client[c].internal_ip \in ip_pools[PoolOf(c)].allocated
       /\ ip_owner[client[c].internal_ip] = c

IpsInv == PoolsTyped /\ PoolsHold /\ Held

InsideInv ==
  LoopTyped /\ LoopAt /\ LookedUp /\ Placed(socket, msgs, send_queue, dropped, accepted) /\ IpsInv

(* What a sequence of datagrams holds, and what Append, \o and SubSeq make *)
(* of it.                                                                  *)
LEMMA IdsOf ==
  ASSUME NEW s \in Seq(Sealed)
  PROVE  /\ Len(s) \in Nat /\ DOMAIN s = 1..Len(s)
         /\ \A i \in 1..Len(s) : s[i] \in Sealed /\ s[i].id \in Nat /\ s[i].id \in Ids(s)
         /\ \A x \in Ids(s) : x \in Nat /\ \E i \in 1..Len(s) : x = s[i].id
<1>1. Len(s) \in Nat /\ DOMAIN s = 1..Len(s) /\ \A i \in 1..Len(s) : s[i] \in Sealed
  BY ElementOfSeq, LenProperties
<1>2. \A d \in Sealed : d.id \in Nat
  BY InsideBounds DEF Sealed, Datagram
<1> QED
  BY <1>1, <1>2 DEF Ids

LEMMA IdsNone == <<>> \in Seq(Sealed) /\ Len(<<>>) = 0 /\ Ids(<<>>) = {} /\ Distinct(<<>>) /\ Increasing(<<>>)
<1>1. <<>> \in Seq(Sealed) /\ Len(<<>>) = 0
  OBVIOUS
<1>2. Ids(<<>>) = {}
  <2>1. \A x \in Ids(<<>>) : \E i \in 1..0 : TRUE
    BY <1>1, IdsOf
  <2> QED
    BY <2>1
<1> QED
  BY <1>1, <1>2 DEF Distinct, Increasing

LEMMA IdsAppend ==
  ASSUME NEW s \in Seq(Sealed), NEW d \in Sealed
  PROVE  /\ Append(s, d) \in Seq(Sealed) /\ Ids(Append(s, d)) = Ids(s) \cup {d.id}
         /\ Distinct(s) /\ d.id \notin Ids(s) => Distinct(Append(s, d))
         /\ Increasing(s) /\ (\A e \in Ids(s) : e < d.id) => Increasing(Append(s, d))
<1> DEFINE t == Append(s, d)
<1> HIDE DEF t
<1>1. /\ t \in Seq(Sealed) /\ Len(t) = Len(s) + 1 /\ Len(s) \in Nat
      /\ (\A i \in 1..Len(s) : t[i] = s[i]) /\ t[Len(s) + 1] = d
  BY AppendProperties, LenProperties DEF t
<1>2. PICK n \in Nat : n = Len(s)
  BY <1>1
<1>3. Ids(t) = Ids(s) \cup {d.id}
  <2>1. ASSUME NEW x \in Ids(t) PROVE x \in Ids(s) \cup {d.id}
    <3>1. PICK i \in 1..(n + 1) : x = t[i].id
      BY <1>1, <1>2, IdsOf
    <3>2. CASE i = n + 1
      BY <1>1, <1>2, <3>1, <3>2
    <3>3. CASE i # n + 1
      <4>1. i \in 1..n
        BY <3>3
      <4> QED
        BY <1>1, <1>2, <3>1, <4>1, IdsOf
    <3> QED
      BY <3>2, <3>3
  <2>2. ASSUME NEW x \in Ids(s) PROVE x \in Ids(t)
    <3>1. PICK i \in 1..n : x = s[i].id
      BY <1>2, IdsOf
    <3>2. i \in 1..(n + 1) /\ t[i] = s[i]
      BY <1>1, <1>2
    <3> QED
      BY <1>1, <1>2, <3>1, <3>2, IdsOf
  <2>3. d.id \in Ids(t)
    <3>1. n + 1 \in 1..(n + 1)
      OBVIOUS
    <3> QED
      BY <1>1, <1>2, <3>1, IdsOf
  <2> QED
    BY <2>1, <2>2, <2>3
<1>4. ASSUME Distinct(s), d.id \notin Ids(s) PROVE Distinct(t)
  <2> SUFFICES ASSUME NEW i \in 1..(n + 1), NEW j \in 1..(n + 1), t[i].id = t[j].id PROVE i = j
    BY <1>1, <1>2 DEF Distinct
  <2>1. \A k \in 1..(n + 1) : k \in 1..n \/ k = n + 1
    OBVIOUS
  <2>2. \A k \in 1..n : t[k].id \in Ids(s) /\ t[k] = s[k]
    BY <1>1, <1>2, IdsOf
  <2> QED
    BY <1>1, <1>2, <1>4, <2>1, <2>2 DEF Distinct
<1>5. ASSUME Increasing(s), \A e \in Ids(s) : e < d.id PROVE Increasing(t)
  <2> SUFFICES ASSUME NEW i \in 1..(n + 1), NEW j \in 1..(n + 1), i < j PROVE t[i].id < t[j].id
    BY <1>1, <1>2 DEF Increasing
  <2>1. i \in 1..n /\ (j \in 1..n \/ j = n + 1)
    OBVIOUS
  <2>2. \A k \in 1..n : t[k].id \in Ids(s) /\ t[k] = s[k]
    BY <1>1, <1>2, IdsOf
  <2> QED
    BY <1>1, <1>2, <1>5, <2>1, <2>2 DEF Increasing
<1> QED
  BY <1>1, <1>3, <1>4, <1>5 DEF t

LEMMA IdsConcat ==
  ASSUME NEW s \in Seq(Sealed), NEW u \in Seq(Sealed)
  PROVE  /\ s \o u \in Seq(Sealed) /\ Ids(s \o u) = Ids(s) \cup Ids(u)
         /\ Distinct(s) /\ Distinct(u) /\ Ids(s) \cap Ids(u) = {} => Distinct(s \o u)
<1> DEFINE t == s \o u
<1> HIDE DEF t
<1>1. /\ t \in Seq(Sealed) /\ Len(t) = Len(s) + Len(u) /\ Len(s) \in Nat /\ Len(u) \in Nat
      /\ \A i \in 1..Len(t) : t[i] = IF i <= Len(s) THEN s[i] ELSE u[i - Len(s)]
  BY ConcatProperties, LenProperties DEF t
<1>2. PICK n \in Nat, m \in Nat : n = Len(s) /\ m = Len(u)
  BY <1>1
<1>3. \A i \in 1..(n + m) : (i \in 1..n /\ t[i] = s[i]) \/ (i > n /\ i - n \in 1..m /\ t[i] = u[i - n])
  BY <1>1, <1>2
<1>4. \A i \in 1..n : i \in 1..(n + m) /\ t[i] = s[i]
  BY <1>1, <1>2
<1>5. \A i \in 1..m : i + n \in 1..(n + m) /\ t[i + n] = u[i]
  <2>1. \A i \in 1..m : i + n \in 1..(n + m) /\ ~(i + n <= n) /\ (i + n) - n = i
    OBVIOUS
  <2> QED
    BY <1>1, <1>2, <2>1
<1>6. Ids(t) = Ids(s) \cup Ids(u)
  <2>1. ASSUME NEW x \in Ids(t) PROVE x \in Ids(s) \cup Ids(u)
    <3>1. PICK i \in 1..(n + m) : x = t[i].id
      BY <1>1, <1>2, IdsOf
    <3> QED
      BY <1>2, <1>3, <3>1, IdsOf
  <2>2. ASSUME NEW x \in Ids(s) PROVE x \in Ids(t)
    <3>1. PICK i \in 1..n : x = s[i].id
      BY <1>2, IdsOf
    <3> QED
      BY <1>1, <1>2, <1>4, <3>1, IdsOf
  <2>3. ASSUME NEW x \in Ids(u) PROVE x \in Ids(t)
    <3>1. PICK i \in 1..m : x = u[i].id
      BY <1>2, IdsOf
    <3> QED
      BY <1>1, <1>2, <1>5, <3>1, IdsOf
  <2> QED
    BY <2>1, <2>2, <2>3
<1>7. ASSUME Distinct(s), Distinct(u), Ids(s) \cap Ids(u) = {} PROVE Distinct(t)
  <2> SUFFICES ASSUME NEW i \in 1..(n + m), NEW j \in 1..(n + m), t[i].id = t[j].id PROVE i = j
    BY <1>1, <1>2 DEF Distinct
  <2>1. /\ \A k \in 1..n : s[k].id \in Ids(s)
        /\ \A k \in 1..m : u[k].id \in Ids(u)
    BY <1>2, IdsOf
  <2>2. CASE i \in 1..n /\ j \in 1..n
    BY <1>2, <1>4, <1>7, <2>2 DEF Distinct
  <2>3. CASE i > n /\ j > n
    <3>1. i - n \in 1..m /\ j - n \in 1..m /\ t[i] = u[i - n] /\ t[j] = u[j - n]
      BY <1>3, <2>3
    <3>2. i - n = j - n
      BY <1>2, <1>7, <3>1 DEF Distinct
    <3> QED
      BY <3>2
  <2>4. CASE (i \in 1..n /\ j > n) \/ (j \in 1..n /\ i > n)
    <3>1. i \in 1..n /\ j > n => FALSE
      <4> SUFFICES ASSUME i \in 1..n, j > n PROVE FALSE
        OBVIOUS
      <4>1. j - n \in 1..m /\ t[j] = u[j - n] /\ t[i] = s[i]
        BY <1>3, <1>4
      <4> QED
        BY <1>7, <2>1, <4>1
    <3>2. j \in 1..n /\ i > n => FALSE
      <4> SUFFICES ASSUME j \in 1..n, i > n PROVE FALSE
        OBVIOUS
      <4>1. i - n \in 1..m /\ t[i] = u[i - n] /\ t[j] = s[j]
        BY <1>3, <1>4
      <4> QED
        BY <1>7, <2>1, <4>1
    <3> QED
      BY <2>4, <3>1, <3>2
  <2> QED
    BY <1>3, <2>2, <2>3, <2>4
<1> QED
  BY <1>1, <1>6, <1>7 DEF t

LEMMA IdsSplit ==
  ASSUME NEW s \in Seq(Sealed), NEW n \in 0..Len(s), Increasing(s)
  PROVE  LET front == SubSeq(s, 1, n)  rest == SubSeq(s, n + 1, Len(s)) IN
         /\ front \in Seq(Sealed) /\ rest \in Seq(Sealed) /\ Increasing(front) /\ Increasing(rest)
         /\ Distinct(front) /\ Ids(front) \cap Ids(rest) = {} /\ Ids(s) = Ids(front) \cup Ids(rest)
         /\ Ids(rest) = {s[i].id : i \in n + 1 .. Len(s)} /\ Len(rest) = Len(s) - n
<1> DEFINE front == SubSeq(s, 1, n)  rest == SubSeq(s, n + 1, Len(s))
<1>1. PICK m \in Nat : m = Len(s) /\ n \in 0..m
  BY LenProperties
<1>2. front \in Seq(Sealed) /\ Len(front) = n /\ \A i \in 1..n : front[i] = s[i] /\ i \in 1..m
  <2>1. \A i \in 1..n : i \in 1..m /\ s[i] \in Sealed
    BY <1>1, IdsOf
  <2>2. 1 \in Int /\ n \in Int /\ (IF 1 <= n THEN n - 1 + 1 ELSE 0) = n
        /\ \A i \in 1..n : i \in 1..(n - 1 + 1) /\ 1 + i - 1 = i
    BY <1>1
  <2>3. /\ front \in Seq(Sealed) /\ Len(front) = IF 1 <= n THEN n - 1 + 1 ELSE 0
        /\ \A i \in 1..(n - 1 + 1) : front[i] = s[1 + i - 1]
    BY <2>1, <2>2, SubSeqProperties
  <2> HIDE DEF front
  <2> QED
    BY <2>1, <2>2, <2>3
<1>3. rest \in Seq(Sealed) /\ Len(rest) = m - n /\ \A i \in 1..(m - n) : rest[i] = s[n + i] /\ n + i \in 1..m
  <2>1. \A i \in (n + 1)..m : i \in 1..m /\ s[i] \in Sealed
    BY <1>1, IdsOf
  <2>2. n + 1 \in Int /\ m \in Int /\ (IF n + 1 <= m THEN m - (n + 1) + 1 ELSE 0) = m - n
        /\ \A i \in 1..(m - n) : i \in 1..(m - (n + 1) + 1) /\ (n + 1) + i - 1 = n + i /\ n + i \in 1..m
    BY <1>1
  <2>3. /\ rest \in Seq(Sealed) /\ Len(rest) = IF n + 1 <= m THEN m - (n + 1) + 1 ELSE 0
        /\ \A i \in 1..(m - (n + 1) + 1) : rest[i] = s[(n + 1) + i - 1]
    BY <1>1, <2>1, <2>2, SubSeqProperties
  <2> HIDE DEF rest
  <2> QED
    BY <2>1, <2>2, <2>3
<1> HIDE DEF front, rest
<1>4. \A i \in 1..m : (i \in 1..n) \/ (i \in (n + 1)..m /\ i - n \in 1..(m - n) /\ n + (i - n) = i)
  BY <1>1
<1>5. Increasing(front) /\ Distinct(front)
  <2>1. Increasing(front)
    BY <1>1, <1>2 DEF Increasing
  <2>2. ASSUME NEW i \in 1..n, NEW j \in 1..n, front[i].id = front[j].id PROVE i = j
    <3>1. front[i].id \in Nat
      BY <1>2, IdsOf
    <3> QED
      BY <1>2, <2>1, <2>2, <3>1 DEF Increasing
  <2> QED
    BY <1>2, <2>1, <2>2 DEF Distinct
<1>6. Increasing(rest)
  <2> SUFFICES ASSUME NEW i \in 1..(m - n), NEW j \in 1..(m - n), i < j PROVE rest[i].id < rest[j].id
    BY <1>3 DEF Increasing
  <2>1. n + i < n + j
    BY <1>1
  <2> QED
    BY <1>1, <1>3, <2>1 DEF Increasing
<1>7. Ids(rest) = {s[i].id : i \in n + 1 .. m}
  <2>1. ASSUME NEW x \in Ids(rest) PROVE x \in {s[i].id : i \in n + 1 .. m}
    <3>1. PICK i \in 1..(m - n) : x = rest[i].id
      BY <1>3, IdsOf
    <3>2. n + i \in n + 1 .. m
      BY <1>1
    <3> QED
      BY <1>3, <3>1, <3>2
  <2>2. ASSUME NEW i \in n + 1 .. m PROVE s[i].id \in Ids(rest)
    <3>1. i - n \in 1..(m - n) /\ n + (i - n) = i
      BY <1>1
    <3>2. rest[i - n] = s[i]
      BY <1>3, <3>1
    <3> QED
      BY <1>3, <3>1, <3>2, IdsOf
  <2> QED
    BY <2>1, <2>2
<1>8. Ids(front) = {s[i].id : i \in 1 .. n}
  <2>1. DOMAIN front = 1..n
    BY <1>2, IdsOf
  <2> QED
    BY <1>2, <2>1 DEF Ids
<1>9. Ids(s) = Ids(front) \cup Ids(rest)
  <2>1. Ids(s) = {s[i].id : i \in 1 .. m}
    BY <1>1, IdsOf DEF Ids
  <2>2. \A i \in 1..m : i \in 1..n \/ i \in n + 1 .. m
    BY <1>1
  <2>3. (\A i \in 1..n : i \in 1..m) /\ (\A i \in n + 1 .. m : i \in 1..m)
    BY <1>1
  <2> QED
    BY <1>7, <1>8, <2>1, <2>2, <2>3
<1>10. Ids(front) \cap Ids(rest) = {}
  <2> SUFFICES ASSUME NEW i \in 1..n, NEW j \in n + 1 .. m PROVE s[i].id # s[j].id
    BY <1>7, <1>8
  <2>1. i \in 1..m /\ j \in 1..m /\ i < j
    BY <1>1
  <2>2. s[i].id < s[j].id /\ s[i].id \in Nat /\ s[j].id \in Nat
    BY <1>1, <2>1, IdsOf DEF Increasing
  <2> QED
    BY <2>2
<1> QED
  BY <1>1, <1>2, <1>3, <1>5, <1>6, <1>7, <1>9, <1>10 DEF front, rest

(* One lemma per way a datagram moves: sent or queued, flushed, taken by   *)
(* the flush, dropped by an error, unwound.                                *)
LEMMA PlacedNext ==
  ASSUME NEW so, NEW ms, NEW sq, NEW dr, NEW n, Placed(so, ms, sq, dr, n), NEW d \in Sealed, d.id = n + 1
  PROVE  /\ sq = <<>> => Placed(Append(so, d), ms, sq, dr, n + 1)
         /\ sq = <<>> => Placed(so, ms, sq, dr \cup {d.id}, n + 1)
         /\ Placed(so, ms, Append(sq, d), dr, n + 1)
<1>1. /\ so \in Seq(Sealed) /\ ms \in Seq(Sealed) /\ sq \in Seq(Sealed) /\ n \in Nat
      /\ Distinct(so) /\ Increasing(ms) /\ Increasing(sq) /\ Ids(so) \cap Ids(ms) = {}
      /\ \A q \in Ids(sq) : \A e \in Ids(so) \cup Ids(ms) : e < q
      /\ dr \cap (Ids(so) \cup Ids(ms) \cup Ids(sq)) = {}
      /\ Ids(so) \cup Ids(ms) \cup Ids(sq) \cup dr = 1..n
  BY DEF Placed
<1>2. n + 1 \in Nat /\ 1..(n + 1) = (1..n) \cup {n + 1} /\ n + 1 \notin 1..n /\ \A x \in 1..n : x < n + 1
  BY <1>1
<1>3. d.id \notin Ids(so) \cup Ids(ms) \cup Ids(sq) \cup dr /\ \A x \in Ids(so) \cup Ids(ms) \cup Ids(sq) : x < d.id
  BY <1>1, <1>2
<1>4. sq = <<>> => Ids(sq) = {}
  BY IdsNone
<1>5. ASSUME sq = <<>> PROVE Placed(Append(so, d), ms, sq, dr, n + 1)
  <2>1. Append(so, d) \in Seq(Sealed) /\ Ids(Append(so, d)) = Ids(so) \cup {d.id} /\ Distinct(Append(so, d))
    BY <1>1, <1>3, IdsAppend
  <2> QED
    BY <1>1, <1>2, <1>3, <1>4, <1>5, <2>1 DEF Placed
<1>6. ASSUME sq = <<>> PROVE Placed(so, ms, sq, dr \cup {d.id}, n + 1)
  BY <1>1, <1>2, <1>3, <1>4, <1>6 DEF Placed
<1>7. Placed(so, ms, Append(sq, d), dr, n + 1)
  <2>1. Append(sq, d) \in Seq(Sealed) /\ Ids(Append(sq, d)) = Ids(sq) \cup {d.id} /\ Increasing(Append(sq, d))
    BY <1>1, <1>3, IdsAppend
  <2> QED
    BY <1>1, <1>2, <1>3, <2>1 DEF Placed
<1> QED
  BY <1>5, <1>6, <1>7

LEMMA PlacedFlushed ==
  ASSUME NEW so, NEW ms, NEW sq, NEW dr, NEW n, Placed(so, ms, sq, dr, n), sq = <<>>, NEW k \in 0..Len(ms)
  PROVE  Placed(so \o SubSeq(ms, 1, k), SubSeq(ms, k + 1, Len(ms)), sq, dr, n)
<1> DEFINE front == SubSeq(ms, 1, k)  rest == SubSeq(ms, k + 1, Len(ms))
<1>1. /\ so \in Seq(Sealed) /\ ms \in Seq(Sealed) /\ sq \in Seq(Sealed) /\ n \in Nat
      /\ Distinct(so) /\ Increasing(ms) /\ Increasing(sq) /\ Ids(so) \cap Ids(ms) = {}
      /\ dr \cap (Ids(so) \cup Ids(ms) \cup Ids(sq)) = {}
      /\ Ids(so) \cup Ids(ms) \cup Ids(sq) \cup dr = 1..n
  BY DEF Placed
<1>2. /\ front \in Seq(Sealed) /\ rest \in Seq(Sealed) /\ Increasing(rest) /\ Distinct(front)
      /\ Ids(front) \cap Ids(rest) = {} /\ Ids(ms) = Ids(front) \cup Ids(rest)
  BY <1>1, IdsSplit
<1> HIDE DEF front, rest
<1>3. Ids(so) \cap Ids(front) = {}
  BY <1>1, <1>2
<1>4. so \o front \in Seq(Sealed) /\ Ids(so \o front) = Ids(so) \cup Ids(front) /\ Distinct(so \o front)
  BY <1>1, <1>2, <1>3, IdsConcat
<1>5. Ids(sq) = {}
  BY IdsNone
<1>6. Placed(so \o front, rest, sq, dr, n)
  BY <1>1, <1>2, <1>4, <1>5 DEF Placed
<1> QED
  BY <1>6 DEF front, rest

LEMMA PlacedTaken ==
  ASSUME NEW so, NEW sq, NEW dr, NEW n, Placed(so, <<>>, sq, dr, n)
  PROVE  Placed(so, sq, <<>>, dr, n)
<1>1. /\ so \in Seq(Sealed) /\ sq \in Seq(Sealed) /\ n \in Nat
      /\ Distinct(so) /\ Increasing(sq)
      /\ \A q \in Ids(sq) : \A e \in Ids(so) : e < q
      /\ dr \cap (Ids(so) \cup Ids(sq)) = {}
      /\ Ids(so) \cup Ids(sq) \cup dr = 1..n
  BY IdsNone DEF Placed
<1>2. Ids(so) \cap Ids(sq) = {}
  <2>1. \A q \in Ids(sq) : q \in Nat
    BY <1>1, IdsOf
  <2> QED
    BY <1>1, <2>1
<1> QED
  BY <1>1, <1>2, IdsNone DEF Placed

LEMMA PlacedError ==
  ASSUME NEW so, NEW ms, NEW dr, NEW n, Placed(so, ms, <<>>, dr, n), ms # <<>>
  PROVE  Placed(so, Tail(ms), <<>>, dr \cup {Head(ms).id}, n)
<1> DEFINE front == SubSeq(ms, 1, 1)  rest == SubSeq(ms, 1 + 1, Len(ms))
<1>1. /\ so \in Seq(Sealed) /\ ms \in Seq(Sealed) /\ n \in Nat
      /\ Distinct(so) /\ Increasing(ms) /\ Ids(so) \cap Ids(ms) = {}
      /\ dr \cap (Ids(so) \cup Ids(ms)) = {}
      /\ Ids(so) \cup Ids(ms) \cup dr = 1..n
  BY IdsNone DEF Placed
<1>2. Len(ms) \in Nat /\ Len(ms) # 0 /\ 1 \in 0..Len(ms)
  BY <1>1, LenProperties, EmptySeq
<1>3. /\ rest \in Seq(Sealed) /\ Increasing(rest) /\ Ids(front) \cap Ids(rest) = {}
      /\ Ids(ms) = Ids(front) \cup Ids(rest)
  BY <1>1, <1>2, IdsSplit
<1>4. rest = Tail(ms)
  <2>1. Tail(ms) = SubSeq(ms, 2, Len(ms))
    BY <1>1, TailIsSubSeq
  <2> QED
    BY <2>1
<1>5. Ids(front) = {Head(ms).id}
  <2>1. Head(ms) = ms[1]
    BY <1>1
  <2>2. \A i \in 1..1 : i = 1 /\ ms[i] \in Sealed
    BY <1>1, <1>2, IdsOf
  <2>3. front \in Seq(Sealed) /\ Len(front) = 1 /\ \A i \in 1..1 : front[i] = ms[i]
    BY <2>2, SubSeqProperties
  <2>4. DOMAIN front = {1} /\ front[1] = ms[1]
    BY <2>3, LenProperties
  <2> HIDE DEF front
  <2> QED
    BY <2>1, <2>4 DEF Ids
<1> HIDE DEF front, rest
<1>6. Ids(rest) \subseteq Ids(ms) /\ Head(ms).id \in Ids(ms) /\ Head(ms).id \notin Ids(rest)
  BY <1>3, <1>5
<1> QED
  BY <1>1, <1>3, <1>4, <1>5, <1>6, IdsNone DEF Placed

LEMMA PlacedUnwind ==
  ASSUME NEW so, NEW sq, NEW dr, NEW n, Placed(so, <<>>, sq, dr, n), NEW k \in 0..Len(sq)
  PROVE  Placed(so \o SubSeq(sq, 1, k), <<>>, <<>>, dr \cup {sq[i].id : i \in k + 1 .. Len(sq)}, n)
<1> DEFINE front == SubSeq(sq, 1, k)  rest == SubSeq(sq, k + 1, Len(sq))
<1>1. /\ so \in Seq(Sealed) /\ sq \in Seq(Sealed) /\ n \in Nat
      /\ Distinct(so) /\ Increasing(sq) /\ Ids(so) \cap Ids(sq) = {}
      /\ dr \cap (Ids(so) \cup Ids(sq)) = {}
      /\ Ids(so) \cup Ids(sq) \cup dr = 1..n
  BY PlacedTaken, IdsNone DEF Placed
<1>2. /\ front \in Seq(Sealed) /\ Distinct(front) /\ Ids(front) \cap Ids(rest) = {}
      /\ Ids(sq) = Ids(front) \cup Ids(rest) /\ Ids(rest) = {sq[i].id : i \in k + 1 .. Len(sq)}
  BY <1>1, IdsSplit
<1> HIDE DEF front, rest
<1>3. Ids(so) \cap Ids(front) = {}
  BY <1>1, <1>2
<1>4. so \o front \in Seq(Sealed) /\ Ids(so \o front) = Ids(so) \cup Ids(front) /\ Distinct(so \o front)
  BY <1>1, <1>2, <1>3, IdsConcat
<1>5. Placed(so \o front, <<>>, <<>>, dr \cup Ids(rest), n)
  BY <1>1, <1>2, <1>4, IdsNone DEF Placed
<1> QED
  BY <1>2, <1>5 DEF front

(* Numbers that differ are counted by the length.                          *)
LEMMA DistinctCount ==
  ASSUME NEW s \in Seq(Sealed), Distinct(s)
  PROVE  IsFiniteSet(Ids(s)) /\ Cardinality(Ids(s)) = Len(s)
<1> DEFINE f == [i \in 1..Len(s) |-> s[i].id]
<1>1. Len(s) \in Nat
  BY LenProperties
<1>2. f \in Bijection(1..Len(s), Ids(s))
  <2>1. f \in [1..Len(s) -> Ids(s)]
    BY IdsOf
  <2>2. \A x \in Ids(s) : \E i \in 1..Len(s) : f[i] = x
    BY IdsOf
  <2>3. \A i, j \in 1..Len(s) : f[i] = f[j] => i = j
    BY DEF Distinct
  <2> QED
    BY <2>1, <2>2, <2>3 DEF Bijection, Injection, Surjection, IsInjective
<1>3. IsFiniteSet(1..Len(s)) /\ Cardinality(1..Len(s)) = Len(s)
  <2>1. 1 \in Int /\ Len(s) \in Int /\ (IF 1 > Len(s) THEN 0 ELSE Len(s) - 1 + 1) = Len(s)
    BY <1>1
  <2> QED
    BY <2>1, FS_Interval
<1>4. ExistsBijection(1..Len(s), Ids(s))
  BY <1>2 DEF ExistsBijection
<1> QED
  BY <1>3, <1>4, FS_Bijection

LEMMA PlacedCount ==
  ASSUME NEW so, NEW ms, NEW sq, NEW dr, NEW n, Placed(so, ms, sq, dr, n)
  PROVE  Len(so) + Len(sq) + Len(ms) + Cardinality(dr) = n
<1>1. /\ so \in Seq(Sealed) /\ ms \in Seq(Sealed) /\ sq \in Seq(Sealed) /\ n \in Nat
      /\ Distinct(so) /\ Increasing(ms) /\ Increasing(sq) /\ Ids(so) \cap Ids(ms) = {}
      /\ \A q \in Ids(sq) : \A e \in Ids(so) \cup Ids(ms) : e < q
      /\ dr \cap (Ids(so) \cup Ids(ms) \cup Ids(sq)) = {}
      /\ Ids(so) \cup Ids(ms) \cup Ids(sq) \cup dr = 1..n
  BY DEF Placed
<1>2. \A s \in Seq(Sealed) : Increasing(s) => Distinct(s)
  <2> SUFFICES ASSUME NEW s \in Seq(Sealed), Increasing(s), NEW i \in 1..Len(s), NEW j \in 1..Len(s), s[i].id = s[j].id
               PROVE  i = j
    BY DEF Distinct
  <2>1. s[i].id \in Nat /\ Len(s) \in Nat
    BY IdsOf
  <2> QED
    BY <2>1 DEF Increasing
<1>3. /\ IsFiniteSet(Ids(so)) /\ Cardinality(Ids(so)) = Len(so)
      /\ IsFiniteSet(Ids(ms)) /\ Cardinality(Ids(ms)) = Len(ms)
      /\ IsFiniteSet(Ids(sq)) /\ Cardinality(Ids(sq)) = Len(sq)
  BY <1>1, <1>2, DistinctCount
<1>4. IsFiniteSet(1..n) /\ Cardinality(1..n) = n
  <2>1. 1 \in Int /\ n \in Int /\ (IF 1 > n THEN 0 ELSE n - 1 + 1) = n
    BY <1>1
  <2> QED
    BY <2>1, FS_Interval
<1>5. IsFiniteSet(dr)
  <2>1. dr \in SUBSET (1..n)
    BY <1>1
  <2> QED
    BY <1>4, <2>1, FS_Subset
<1>6. Ids(sq) \cap (Ids(so) \cup Ids(ms)) = {}
  <2>1. \A q \in Ids(sq) : q \in Nat
    BY <1>1, IdsOf
  <2> QED
    BY <1>1, <2>1
<1>7. \A S, T : IsFiniteSet(S) /\ IsFiniteSet(T) /\ S \cap T = {} =>
        /\ IsFiniteSet(S \cup T) /\ Cardinality(S) \in Nat /\ Cardinality(T) \in Nat
        /\ Cardinality(S \cup T) = Cardinality(S) + Cardinality(T)
  <2> SUFFICES ASSUME NEW S, NEW T, IsFiniteSet(S), IsFiniteSet(T), S \cap T = {}
               PROVE  /\ IsFiniteSet(S \cup T) /\ Cardinality(S) \in Nat /\ Cardinality(T) \in Nat
                      /\ Cardinality(S \cup T) = Cardinality(S) + Cardinality(T)
    OBVIOUS
  <2>1. IsFiniteSet(S \cup T) /\ Cardinality(S \cup T) = Cardinality(S) + Cardinality(T) - Cardinality(S \cap T)
    BY FS_Union
  <2>2. Cardinality(S) \in Nat /\ Cardinality(T) \in Nat /\ Cardinality(S \cap T) = 0
    BY FS_CardinalityType, FS_EmptySet
  <2> QED
    BY <2>1, <2>2
<1> DEFINE A == Ids(so) \cup Ids(ms)  B == A \cup Ids(sq)
<1>8. IsFiniteSet(A) /\ Cardinality(A) = Len(so) + Len(ms) /\ A \cap Ids(sq) = {}
  BY <1>1, <1>3, <1>6, <1>7
<1>9. IsFiniteSet(B) /\ Cardinality(B) = Cardinality(A) + Len(sq) /\ B \cap dr = {} /\ B \cup dr = 1..n
  <2> HIDE DEF A
  <2>1. IsFiniteSet(B) /\ Cardinality(B) = Cardinality(A) + Len(sq)
    BY <1>3, <1>7, <1>8
  <2> QED
    BY <1>1, <2>1 DEF A
<1>10. Cardinality(B) + Cardinality(dr) = n /\ Cardinality(dr) \in Nat
  <2> HIDE DEF B
  <2> QED
    BY <1>4, <1>5, <1>7, <1>9
<1>11. Len(so) \in Nat /\ Len(ms) \in Nat /\ Len(sq) \in Nat
  BY <1>1, LenProperties
<1> HIDE DEF A, B
<1> QED
  BY <1>8, <1>9, <1>10, <1>11

(* The pools, and how an IP is taken from one and put back.                *)
LEMMA SubnetFacts ==
  /\ \A p \in Pools : split_subnet(p) \subseteq PoolNet /\ IsFiniteSet(split_subnet(p))
  /\ \A p, q \in Pools : p # q => split_subnet(p) \cap split_subnet(q) = {}
  /\ \A c \in InConns : PoolOf(c) \in Pools
<1>1. Hosts \subseteq PoolNet
  BY DEF Hosts
<1>2. \A p \in Pools : split_subnet(p) \subseteq PoolNet
  BY <1>1 DEF split_subnet
<1>3. \A p \in Pools : IsFiniteSet(split_subnet(p))
  BY <1>2, InsideBounds, FS_Subset
<1>4. \A p, q \in Pools : p # q => split_subnet(p) \cap split_subnet(q) = {}
  BY SubnetsApart, InsideBounds DEF split_subnet, Pools
<1> QED
  BY <1>2, <1>3, <1>4 DEF PoolOf, Pools

LEMMA QueueOfIps ==
  ASSUME NEW s \in Seq(PoolNet), \A i, j \in 1..Len(s) : s[i] = s[j] => i = j
  PROVE  /\ \A x \in PoolNet \ Range(s) :
              /\ Append(s, x) \in Seq(PoolNet) /\ Range(Append(s, x)) = Range(s) \cup {x}
              /\ \A i, j \in 1..Len(Append(s, x)) : Append(s, x)[i] = Append(s, x)[j] => i = j
         /\ s # <<>> => /\ Head(s) \in Range(s) /\ Range(s) \subseteq PoolNet /\ Tail(s) \in Seq(PoolNet)
                        /\ Range(Tail(s)) = Range(s) \ {Head(s)}
                        /\ \A i, j \in 1..Len(Tail(s)) : Tail(s)[i] = Tail(s)[j] => i = j
<1>1. Len(s) \in Nat /\ DOMAIN s = 1..Len(s) /\ \A i \in 1..Len(s) : s[i] \in PoolNet
  BY LenProperties, ElementOfSeq
<1>2. PICK n \in Nat : n = Len(s)
  BY <1>1
<1>3. ASSUME NEW x \in PoolNet \ Range(s)
      PROVE  /\ Append(s, x) \in Seq(PoolNet) /\ Range(Append(s, x)) = Range(s) \cup {x}
             /\ \A i, j \in 1..Len(Append(s, x)) : Append(s, x)[i] = Append(s, x)[j] => i = j
  <2> DEFINE t == Append(s, x)
  <2> HIDE DEF t
  <2>1. t \in Seq(PoolNet) /\ Len(t) = n + 1 /\ DOMAIN t = 1..(n + 1) /\ t[n + 1] = x /\ \A i \in 1..n : t[i] = s[i]
    BY <1>2, AppendProperties, LenProperties DEF t
  <2>2. \A i \in 1..(n + 1) : i \in 1..n \/ i = n + 1
    OBVIOUS
  <2>3. (\A i \in 1..n : i \in 1..(n + 1)) /\ n + 1 \in 1..(n + 1)
    OBVIOUS
  <2>4. Range(t) = Range(s) \cup {x}
    BY <1>1, <1>2, <2>1, <2>2, <2>3 DEF Range
  <2>5. \A i \in 1..n : s[i] # x
    BY <1>1, <1>2 DEF Range
  <2>6. \A i, j \in 1..(n + 1) : t[i] = t[j] => i = j
    BY <1>2, <2>1, <2>2, <2>5
  <2> QED
    BY <2>1, <2>4, <2>6 DEF t
<1>4. ASSUME s # <<>>
      PROVE  /\ Head(s) \in Range(s) /\ Range(s) \subseteq PoolNet /\ Tail(s) \in Seq(PoolNet)
             /\ Range(Tail(s)) = Range(s) \ {Head(s)}
             /\ \A i, j \in 1..Len(Tail(s)) : Tail(s)[i] = Tail(s)[j] => i = j
  <2> DEFINE t == Tail(s)
  <2> HIDE DEF t
  <2>1. n > 0 /\ Head(s) = s[1]
    BY <1>2, <1>4, EmptySeq
  <2>2. t \in Seq(PoolNet) /\ Len(t) = n - 1 /\ DOMAIN t = 1..(n - 1) /\ \A i \in 1..(n - 1) : t[i] = s[i + 1]
    BY <1>2, <1>4, HeadTailProperties, LenProperties DEF t
  <2>3. \A i \in 1..(n - 1) : i + 1 \in 1..n /\ i + 1 # 1
    BY <2>1
  <2>4. \A i \in 1..n : i = 1 \/ (i - 1 \in 1..(n - 1) /\ (i - 1) + 1 = i)
    BY <2>1
  <2>5. 1 \in 1..n
    BY <2>1
  <2>6. Range(t) = Range(s) \ {s[1]}
    <3>1. ASSUME NEW y \in Range(t) PROVE y \in Range(s) \ {s[1]}
      <4>1. PICK i \in 1..(n - 1) : y = s[i + 1]
        BY <2>2 DEF Range
      <4>2. y # s[1]
        BY <1>2, <2>3, <2>5, <4>1
      <4> QED
        BY <1>1, <1>2, <2>3, <4>1, <4>2 DEF Range
    <3>2. ASSUME NEW y \in Range(s), y # s[1] PROVE y \in Range(t)
      <4>1. PICK i \in 1..n : y = s[i]
        BY <1>1, <1>2 DEF Range
      <4>2. i - 1 \in 1..(n - 1) /\ (i - 1) + 1 = i
        BY <2>4, <3>2, <4>1
      <4>3. t[i - 1] = y
        BY <2>2, <4>1, <4>2
      <4> QED
        BY <2>2, <4>2, <4>3 DEF Range
    <3> QED
      BY <3>1, <3>2
  <2>7. \A i, j \in 1..(n - 1) : t[i] = t[j] => i = j
    <3> SUFFICES ASSUME NEW i \in 1..(n - 1), NEW j \in 1..(n - 1), t[i] = t[j] PROVE i = j
      OBVIOUS
    <3>1. i + 1 = j + 1
      BY <1>2, <2>2, <2>3
    <3> QED
      BY <3>1
  <2>8. Head(s) \in Range(s) /\ Range(s) \subseteq PoolNet
    BY <1>1, <1>2, <2>1, <2>5 DEF Range
  <2> QED
    BY <2>1, <2>2, <2>6, <2>7, <2>8 DEF t
<1> QED
  BY <1>3, <1>4

LEMMA AuthenticateIps ==
  ASSUME IpsInv, NEW c \in InConns, NEW granted \in BOOLEAN, Authenticate(c, granted)
  PROVE  IpsInv' /\ \A b \in InConns : client[b].internal_ip # NoIp \/ b # c => client'[b].internal_ip = client[b].internal_ip
<1> DEFINE p == PoolOf(c)  pool == ip_pools[p]  ip == Head(pool.available)
           has == client[c].internal_ip # NoIp
<1>1. p \in Pools /\ pool.available \in Seq(PoolNet) /\ pool.allocated \subseteq PoolNet
  BY SubnetFacts DEF IpsInv, PoolsTyped
<1>2. setup' = setup /\ \A b : PoolOf(b)' = PoolOf(b)
  BY DEF Authenticate, PoolOf
<1>3. CASE has \/ pool.available = <<>>
  <2>1. ip_pools' = ip_pools /\ ip_owner' = ip_owner
    BY <1>3 DEF Authenticate
  <2>2. /\ client' \in [InConns -> [state : {"LinkUp", "Online", "Refused", "Disconnected"},
                                    internal_ip : PoolNet \cup {NoIp}]]
        /\ \A b \in InConns : client'[b].internal_ip = client[b].internal_ip
    <3>1. CASE ~has
      <4>1. client' = [client EXCEPT ![c].state = "Refused"]
        BY <1>3, <3>1 DEF Authenticate
      <4> QED
        BY <4>1 DEF IpsInv, PoolsTyped
    <3>2. CASE has
      <4>1. client' = [client EXCEPT ![c] = [state |-> IF granted THEN "Online" ELSE "Refused",
                                             internal_ip |-> client[c].internal_ip]]
        BY <3>2 DEF Authenticate
      <4>2. client[c].internal_ip \in PoolNet \cup {NoIp}
        BY DEF IpsInv, PoolsTyped
      <4> QED
        BY <4>1, <4>2 DEF IpsInv, PoolsTyped
    <3> QED
      BY <3>1, <3>2
  <2>3. PoolsTyped'
    BY <2>1, <2>2 DEF IpsInv, PoolsTyped
  <2>4. PoolsHold'
    BY <2>1 DEF IpsInv, PoolsHold
  <2>5. Held'
    BY <1>2, <2>1, <2>2 DEF IpsInv, Held, PoolsTyped
  <2> QED
    BY <2>2, <2>3, <2>4, <2>5 DEF IpsInv
<1>4. CASE ~has /\ pool.available # <<>>
  <2>1. /\ ip_pools' = [ip_pools EXCEPT ![p].available = Tail(@), ![p].allocated = @ \cup {ip}]
        /\ ip_owner' = [ip_owner EXCEPT ![ip] = c]
        /\ client' = [client EXCEPT ![c] = [state |-> IF granted THEN "Online" ELSE "Refused", internal_ip |-> ip]]
    BY <1>4 DEF Authenticate
  <2>2. PoolHolds(p, pool.available, pool.allocated)
    BY <1>1 DEF IpsInv, PoolsHold
  <2>3. /\ ip \in Range(pool.available) /\ Range(pool.available) \subseteq PoolNet /\ Tail(pool.available) \in Seq(PoolNet)
        /\ Range(Tail(pool.available)) = Range(pool.available) \ {ip}
        /\ \A i, j \in 1..Len(Tail(pool.available)) : Tail(pool.available)[i] = Tail(pool.available)[j] => i = j
    <3>1. \A i, j \in 1..Len(pool.available) : pool.available[i] = pool.available[j] => i = j
      BY <2>2 DEF PoolHolds
    <3> QED
      BY <1>1, <1>4, <3>1, QueueOfIps
  <2>4. PoolHolds(p, Tail(pool.available), pool.allocated \cup {ip})
    BY <2>2, <2>3 DEF PoolHolds
  <2>5. /\ ip_pools'[p].available = Tail(pool.available) /\ ip_pools'[p].allocated = pool.allocated \cup {ip}
        /\ \A q \in Pools : q # p => ip_pools'[q] = ip_pools[q]
        /\ ip_pools' \in [Pools -> [available : Seq(PoolNet), allocated : SUBSET PoolNet]]
    <3>1. ip_pools \in [Pools -> [available : Seq(PoolNet), allocated : SUBSET PoolNet]]
      BY DEF IpsInv, PoolsTyped
    <3>2. \A q \in Pools : q # p => ip_pools'[q] = ip_pools[q]
      BY <2>1, <3>1
    <3>3. ip_pools'[p].available = Tail(pool.available)
      BY <1>1, <2>1, <3>1
    <3>4. ip_pools'[p].allocated = pool.allocated \cup {ip}
      BY <1>1, <2>1, <3>1
    <3>5. ip_pools' \in [Pools -> [available : Seq(PoolNet), allocated : SUBSET PoolNet]]
      <4>1. Tail(pool.available) \in Seq(PoolNet) /\ pool.allocated \cup {ip} \in SUBSET PoolNet
        BY <1>1, <2>3
      <4> QED
        BY <1>1, <2>1, <3>1, <4>1
    <3> QED
      BY <3>2, <3>3, <3>4, <3>5
  <2>0. p = PoolOf(c) /\ pool = ip_pools[p] /\ ~has
    BY <1>4
  <2> HIDE DEF p, pool, ip
  <2>6. ip \in PoolNet /\ ip # NoIp
    BY <2>3, InsideBounds
  <2>7. PoolsTyped'
    <3>1. ip_owner' \in [PoolNet -> InConns \cup {NoInConn}]
      BY <2>1 DEF IpsInv, PoolsTyped
    <3>2. client' \in [InConns -> [state : {"LinkUp", "Online", "Refused", "Disconnected"}, internal_ip : PoolNet \cup {NoIp}]]
      BY <2>1, <2>6 DEF IpsInv, PoolsTyped
    <3> QED
      BY <2>5, <3>1, <3>2 DEF PoolsTyped
  <2>8. PoolsHold'
    <3> SUFFICES ASSUME NEW q \in Pools PROVE PoolHolds(q, ip_pools'[q].available, ip_pools'[q].allocated)
      BY DEF PoolsHold
    <3> QED
      BY <2>4, <2>5 DEF IpsInv, PoolsHold
  <2>9. \A q \in Pools : ip \notin ip_pools[q].allocated
    <3>1. ip \in split_subnet(p) /\ ip \notin pool.allocated
      BY <2>2, <2>3 DEF PoolHolds
    <3>2. \A q \in Pools : ip_pools[q].allocated \subseteq split_subnet(q)
      BY DEF IpsInv, PoolsHold, PoolHolds
    <3> QED
      BY <1>1, <2>0, <3>1, <3>2, SubnetFacts
  <2>10. ip_owner[ip] = NoInConn /\ \A b \in InConns : client[b].internal_ip # ip
    <3>1. \A b \in InConns : client[b].internal_ip # ip
      BY <2>6, <2>9, SubnetFacts DEF IpsInv, Held
    <3> QED
      BY <2>6, <3>1 DEF IpsInv, Held, PoolsTyped
  <2>11. /\ client'[c].internal_ip = ip /\ \A b \in InConns : b # c => client'[b] = client[b]
         /\ ip_owner'[ip] = c /\ \A x \in PoolNet : x # ip => ip_owner'[x] = ip_owner[x]
    BY <2>1, <2>6 DEF IpsInv, PoolsTyped
  <2>12. \A x \in PoolNet : ip_owner[x] # c
    <3>1. c # NoInConn
      BY InsideBounds
    <3>2. \A x \in PoolNet : ip_owner[x] # NoInConn => client[ip_owner[x]].internal_ip = x
      BY DEF IpsInv, Held
    <3> QED
      BY <1>4, <3>1, <3>2, InsideBounds
  <2>13. Held'
    <3>1. ASSUME NEW q \in Pools, NEW x \in ip_pools'[q].allocated
          PROVE  ip_owner'[x] # NoInConn /\ PoolOf(ip_owner'[x]) = q
      <4>1. CASE x = ip
        <5>1. q = p
          BY <2>0, <2>5, <2>9, <4>1
        <5> QED
          BY <1>2, <2>0, <2>11, <4>1, <5>1, InsideBounds
      <4>2. CASE x # ip
        <5>1. x \in ip_pools[q].allocated /\ x \in PoolNet
          BY <2>0, <2>5, <4>2 DEF IpsInv, PoolsTyped
        <5>2. ip_owner[x] # NoInConn /\ PoolOf(ip_owner[x]) = q
          BY <5>1 DEF IpsInv, Held
        <5> QED
          BY <1>2, <2>11, <4>2, <5>1, <5>2
      <4> QED
        BY <4>1, <4>2
    <3>2. ASSUME NEW x \in PoolNet, ip_owner'[x] # NoInConn PROVE client'[ip_owner'[x]].internal_ip = x
      <4>1. CASE x = ip
        BY <2>11, <4>1
      <4>2. CASE x # ip
        <5>1. ip_owner'[x] = ip_owner[x] /\ ip_owner[x] # c /\ ip_owner[x] \in InConns
          BY <2>11, <2>12, <3>2, <4>2 DEF IpsInv, PoolsTyped
        <5>2. client[ip_owner[x]].internal_ip = x
          BY <3>2, <5>1 DEF IpsInv, Held
        <5> QED
          BY <2>11, <5>1, <5>2
      <4> QED
        BY <4>1, <4>2
    <3>3. ASSUME NEW b \in InConns, client'[b].internal_ip # NoIp
          PROVE  client'[b].internal_ip \in ip_pools'[PoolOf(b)'].allocated /\ ip_owner'[client'[b].internal_ip] = b
      <4>1. CASE b = c
        BY <1>2, <2>0, <2>5, <2>11, <4>1
      <4>2. CASE b # c
        <5>1. /\ client'[b] = client[b] /\ client[b].internal_ip # ip /\ client[b].internal_ip \in PoolNet
              /\ client[b].internal_ip \in ip_pools[PoolOf(b)].allocated /\ ip_owner[client[b].internal_ip] = b
          BY <2>10, <2>11, <3>3, <4>2 DEF IpsInv, Held, PoolsTyped
        <5>2. ip_pools[PoolOf(b)].allocated \subseteq ip_pools'[PoolOf(b)].allocated
          BY <2>0, <2>5, SubnetFacts
        <5> QED
          BY <1>2, <2>11, <5>1, <5>2
      <4> QED
        BY <4>1, <4>2
    <3> QED
      BY <1>2, <3>1, <3>2, <3>3 DEF Held, PoolOf
  <2> QED
    BY <1>4, <2>7, <2>8, <2>11, <2>13 DEF IpsInv
<1> QED
  BY <1>3, <1>4

LEMMA DisconnectIps ==
  ASSUME IpsInv, NEW c \in InConns, NEW taken \in BOOLEAN, Disconnect(c, taken)
  PROVE  IpsInv' /\ client'[c].state = "Disconnected" /\ \A b \in InConns : b # c => client'[b] = client[b]
<1> DEFINE p == PoolOf(c)  pool == ip_pools[p]  ip == client[c].internal_ip
<1>1. p \in Pools /\ pool.available \in Seq(PoolNet) /\ pool.allocated \subseteq PoolNet
  BY SubnetFacts DEF IpsInv, PoolsTyped
<1>2. setup' = setup /\ \A b : PoolOf(b)' = PoolOf(b)
  BY DEF Disconnect, PoolOf
<1>3. /\ client'[c].state = "Disconnected" /\ client'[c].internal_ip = NoIp /\ \A b \in InConns : b # c => client'[b] = client[b]
      /\ client' \in [InConns -> [state : {"LinkUp", "Online", "Refused", "Disconnected"}, internal_ip : PoolNet \cup {NoIp}]]
  BY DEF Disconnect, IpsInv, PoolsTyped
<1>4. CASE ip = NoIp
  <2>1. ip_pools' = ip_pools /\ ip_owner' = ip_owner
    BY <1>4 DEF Disconnect, free
  <2>2. \A b \in InConns : client'[b].internal_ip = client[b].internal_ip
    BY <1>3, <1>4
  <2>3. PoolsTyped' /\ PoolsHold'
    BY <1>3, <2>1 DEF IpsInv, PoolsTyped, PoolsHold
  <2>4. Held'
    BY <1>2, <2>1, <2>2 DEF IpsInv, Held, PoolsTyped
  <2> QED
    BY <1>3, <2>3, <2>4 DEF IpsInv
<1>5. CASE ip # NoIp
  <2>1. ip \in pool.allocated /\ ip_owner[ip] = c /\ ip \in PoolNet
    BY <1>5 DEF IpsInv, Held, PoolsTyped
  <2>2. /\ ip_pools' = [ip_pools EXCEPT ![p].available = Append(@, ip), ![p].allocated = @ \ {ip}]
        /\ ip_owner' = [ip_owner EXCEPT ![ip] = NoInConn]
    BY <1>5, <2>1 DEF Disconnect, free
  <2>3. PoolHolds(p, pool.available, pool.allocated)
    BY <1>1 DEF IpsInv, PoolsHold
  <2> DEFINE more == Append(pool.available, ip)
  <2>4. /\ more \in Seq(PoolNet) /\ Range(more) = Range(pool.available) \cup {ip}
        /\ \A i, j \in 1..Len(more) : more[i] = more[j] => i = j
    <3>1. \A i, j \in 1..Len(pool.available) : pool.available[i] = pool.available[j] => i = j
      BY <2>3 DEF PoolHolds
    <3>2. ip \in PoolNet \ Range(pool.available)
      BY <2>1, <2>3 DEF PoolHolds
    <3> QED
      BY <1>1, <3>1, <3>2, QueueOfIps
  <2>5. /\ ip_pools'[p].available = more /\ ip_pools'[p].allocated = pool.allocated \ {ip}
        /\ \A q \in Pools : q # p => ip_pools'[q] = ip_pools[q]
        /\ ip_pools' \in [Pools -> [available : Seq(PoolNet), allocated : SUBSET PoolNet]]
    <3>1. ip_pools \in [Pools -> [available : Seq(PoolNet), allocated : SUBSET PoolNet]]
      BY DEF IpsInv, PoolsTyped
    <3>2. \A q \in Pools : q # p => ip_pools'[q] = ip_pools[q]
      BY <2>2, <3>1
    <3>3. ip_pools'[p].available = more
      BY <1>1, <2>2, <3>1
    <3>4. ip_pools'[p].allocated = pool.allocated \ {ip}
      BY <1>1, <2>2, <3>1
    <3>5. ip_pools' \in [Pools -> [available : Seq(PoolNet), allocated : SUBSET PoolNet]]
      <4>1. more \in Seq(PoolNet) /\ pool.allocated \ {ip} \in SUBSET PoolNet
        BY <1>1, <2>4
      <4> QED
        BY <1>1, <2>2, <3>1, <4>1
    <3> QED
      BY <3>2, <3>3, <3>4, <3>5
  <2>0. p = PoolOf(c) /\ pool = ip_pools[p] /\ ip = client[c].internal_ip
    OBVIOUS
  <2> HIDE DEF more, p, pool, ip
  <2>6. PoolHolds(p, more, pool.allocated \ {ip})
    BY <2>1, <2>3, <2>4 DEF PoolHolds
  <2>7. ip_owner'[ip] = NoInConn /\ \A x \in PoolNet : x # ip => ip_owner'[x] = ip_owner[x]
    BY <2>1, <2>2 DEF IpsInv, PoolsTyped
  <2>8. PoolsTyped'
    <3>1. ip_owner' \in [PoolNet -> InConns \cup {NoInConn}]
      BY <2>2 DEF IpsInv, PoolsTyped
    <3> QED
      BY <1>3, <2>5, <3>1 DEF PoolsTyped
  <2>9. PoolsHold'
    <3> SUFFICES ASSUME NEW q \in Pools PROVE PoolHolds(q, ip_pools'[q].available, ip_pools'[q].allocated)
      BY DEF PoolsHold
    <3> QED
      BY <2>5, <2>6 DEF IpsInv, PoolsHold
  <2>10. \A q \in Pools : q # p => ip \notin ip_pools[q].allocated
    <3>1. \A q \in Pools : ip_pools[q].allocated \subseteq split_subnet(q)
      BY DEF IpsInv, PoolsHold, PoolHolds
    <3> QED
      BY <1>1, <2>0, <2>1, <3>1, SubnetFacts
  <2>11. Held'
    <3>1. ASSUME NEW q \in Pools, NEW x \in ip_pools'[q].allocated
          PROVE  ip_owner'[x] # NoInConn /\ PoolOf(ip_owner'[x]) = q
      <4>1. x # ip /\ x \in ip_pools[q].allocated /\ x \in PoolNet
        BY <2>0, <2>5, <2>10 DEF IpsInv, PoolsTyped
      <4>2. ip_owner[x] # NoInConn /\ PoolOf(ip_owner[x]) = q
        BY <4>1 DEF IpsInv, Held
      <4> QED
        BY <1>2, <2>7, <4>1, <4>2
    <3>2. ASSUME NEW x \in PoolNet, ip_owner'[x] # NoInConn PROVE client'[ip_owner'[x]].internal_ip = x
      <4>1. x # ip /\ ip_owner'[x] = ip_owner[x] /\ ip_owner[x] \in InConns
        BY <2>7, <3>2 DEF IpsInv, PoolsTyped
      <4>2. client[ip_owner[x]].internal_ip = x
        BY <3>2, <4>1 DEF IpsInv, Held
      <4> QED
        BY <1>3, <2>0, <4>1, <4>2
    <3>3. ASSUME NEW b \in InConns, client'[b].internal_ip # NoIp
          PROVE  client'[b].internal_ip \in ip_pools'[PoolOf(b)'].allocated /\ ip_owner'[client'[b].internal_ip] = b
      <4>1. b # c /\ client'[b] = client[b]
        BY <1>3, <3>3
      <4>2. /\ client[b].internal_ip \in ip_pools[PoolOf(b)].allocated /\ ip_owner[client[b].internal_ip] = b
            /\ client[b].internal_ip \in PoolNet
        BY <3>3, <4>1 DEF IpsInv, Held, PoolsTyped
      <4>3. client[b].internal_ip # ip
        BY <2>1, <4>1, <4>2
      <4>4. client[b].internal_ip \in ip_pools'[PoolOf(b)].allocated
        BY <2>0, <2>5, <4>2, <4>3, SubnetFacts
      <4> QED
        BY <1>2, <2>7, <4>1, <4>2, <4>3, <4>4
    <3> QED
      BY <1>2, <3>1, <3>2, <3>3 DEF Held, PoolOf
  <2> QED
    BY <1>3, <2>8, <2>9, <2>11 DEF IpsInv
<1> QED
  BY <1>4, <1>5

LEMMA InsideInvInit == InsideInit => InsideInv
<1> SUFFICES ASSUME InsideInit PROVE InsideInv
  OBVIOUS
<1>1. LoopTyped /\ LoopAt /\ LookedUp
  <2>1. <<>> \in Seq(PoolNet \cup {NoIp}) /\ 0 <= MaxDatagrams
    BY InsideBounds
  <2>2. setup \in Configs
    BY DEF InsideInit
  <2> QED
    BY <2>1, <2>2 DEF InsideInit, LoopTyped, LoopAt, LookedUp
<1>2. Placed(socket, msgs, send_queue, dropped, accepted)
  <2>1. 1..0 = {}
    OBVIOUS
  <2> QED
    BY <2>1, IdsNone DEF InsideInit, Placed
<1>3. (\A p \in Pools : ip_pools[p] \in IpManagerNew[p]) /\ \E R : ip_pools \in [Pools -> R]
  BY DEF InsideInit
<1>4. ASSUME NEW p \in Pools
      PROVE  /\ ip_pools[p] \in [available : Seq(PoolNet), allocated : SUBSET PoolNet]
             /\ ip_pools[p].allocated = {} /\ PoolHolds(p, ip_pools[p].available, ip_pools[p].allocated)
  <2>1. PICK s \in SetToSeqs(split_subnet(p)) : ip_pools[p] = [available |-> s, allocated |-> {}]
    BY <1>3 DEF IpManagerNew
  <2> DEFINE S == split_subnet(p)
  <2>2. S \subseteq PoolNet /\ IsFiniteSet(S)
    BY SubnetFacts
  <2>3. PICK n \in Nat : n = Cardinality(S)
    BY <2>2, FS_CardinalityType
  <2>4. s \in [1..n -> S] /\ \A i, j \in 1..n : i # j => s[i] # s[j]
    BY <2>3 DEF SetToSeqs
  <2> HIDE DEF S
  <2>5. s \in Seq(PoolNet) /\ Len(s) = n /\ DOMAIN s = 1..n
    <3>1. s \in [1..n -> PoolNet]
      BY <2>2, <2>4
    <3>2. s \in Seq(PoolNet)
      BY <3>1, IsASeq
    <3> QED
      BY <3>1, <3>2, LenProperties
  <2>6. Range(s) = S
    <3>1. s \in Injection(1..n, S)
      BY <2>4 DEF Injection, IsInjective
    <3>2. Cardinality(1..n) = n
      <4>1. 1 \in Int /\ n \in Int /\ (IF 1 > n THEN 0 ELSE n - 1 + 1) = n
        OBVIOUS
      <4> QED
        BY <4>1, FS_Interval
    <3>3. s \in Surjection(1..n, S)
      BY <2>2, <2>3, <3>1, <3>2, FS_Injection
    <3> QED
      BY <2>4, <2>5, <3>3 DEF Surjection, Range
  <2> QED
    BY <2>1, <2>4, <2>5, <2>6 DEF PoolHolds, S
<1>5. PoolsTyped
  <2>1. ip_pools \in [Pools -> [available : Seq(PoolNet), allocated : SUBSET PoolNet]]
    <3>1. PICK R : ip_pools \in [Pools -> R]
      BY <1>3
    <3> QED
      BY <1>4, <3>1
  <2> QED
    BY <2>1 DEF InsideInit, PoolsTyped
<1>6. PoolsHold
  BY <1>4 DEF PoolsHold
<1>7. Held
  BY <1>4 DEF InsideInit, Held
<1> QED
  BY <1>1, <1>2, <1>5, <1>6, <1>7 DEF InsideInv, IpsInv

LEMMA DatumSealed ==
  ASSUME InsideInv, accepted < MaxDatagrams, NEW c \in InConns, NEW dst \in PoolNet \cup {NoIp},
         dst = NoIp \/ (client[c].internal_ip = dst /\ client[c].state = "Online")
  PROVE  Datum(c, dst) \in Sealed /\ Datum(c, dst).id = accepted + 1
<1>1. accepted \in Nat /\ MaxDatagrams \in Nat
  BY InsideBounds DEF InsideInv, Placed
<1>2. accepted + 1 \in 1..MaxDatagrams
  BY <1>1
<1> QED
  BY <1>2 DEF Datum, Sealed, Datagram

LEMMA SendKeeps ==
  ASSUME InsideInv, accepted < MaxDatagrams, NEW d \in Sealed, d.id = accepted + 1, NEW taken \in BOOLEAN,
         UdpSend(d, taken) \/ (UdpSendGso(d, taken) /\ LoopKind(setup) = "gso"), msgs' = msgs
  PROVE  /\ Placed(socket, msgs, send_queue, dropped, accepted)' /\ accepted' <= MaxDatagrams
         /\ ~window => send_queue' = <<>>
<1>1. accepted \in Nat /\ MaxDatagrams \in Nat
  BY InsideBounds DEF InsideInv, Placed
<1>2. accepted' = accepted + 1 /\ accepted' <= MaxDatagrams
  BY <1>1 DEF UdpSend, UdpSendGso
<1>3. /\ send_queue = <<>> => Placed(Append(socket, d), msgs, send_queue, dropped, accepted + 1)
      /\ send_queue = <<>> => Placed(socket, msgs, send_queue, dropped \cup {d.id}, accepted + 1)
      /\ Placed(socket, msgs, Append(send_queue, d), dropped, accepted + 1)
  BY PlacedNext DEF InsideInv
<1>4. ~window => send_queue = <<>>
  BY DEF InsideInv, LoopAt
<1>5. CASE SendDirect(d, taken) /\ ~window
  BY <1>2, <1>3, <1>4, <1>5 DEF SendDirect
<1>6. CASE window /\ UdpSend(d, taken)
  BY <1>2, <1>3, <1>6 DEF UdpSend
<1>7. LoopKind(setup) = "gso" => ~window
  BY DEF InsideInv, LoopAt, Batched
<1> QED
  BY <1>5, <1>6, <1>7 DEF UdpSend, UdpSendGso

LEMMA ClientsKeep ==
  ASSUME InsideInv,
         \/ \E c \in InConns, granted \in BOOLEAN : Authenticate(c, granted)
         \/ \E c \in InConns, taken \in BOOLEAN : Disconnect(c, taken) \/ OtherTaskSends(c, taken)
         \/ \E c \in InConns : Reconnect(c)
  PROVE  InsideInv'
<1>0. LoopTyped /\ LoopAt /\ LookedUp /\ Placed(socket, msgs, send_queue, dropped, accepted) /\ IpsInv /\ PoolsTyped
  BY DEF InsideInv, IpsInv
<1>1. ASSUME NEW c \in InConns, NEW granted \in BOOLEAN, Authenticate(c, granted) PROVE InsideInv'
  <2>1. /\ IpsInv' /\ PoolsTyped'
        /\ \A b \in InConns : client[b].internal_ip # NoIp \/ b # c => client'[b].internal_ip = client[b].internal_ip
    BY <1>0, <1>1, AuthenticateIps DEF IpsInv
  <2>2. UNCHANGED <<setup, inside, window, send_queue, msgs, accepted, socket, dropped>> /\ client[c].state # "Disconnected"
    BY <1>1 DEF Authenticate
  <2>3. \A b \in InConns : b # c => client'[b] = client[b]
    BY <1>0, <1>1 DEF Authenticate, PoolsTyped
  <2>4. LoopTyped' /\ LoopAt' /\ Placed(socket, msgs, send_queue, dropped, accepted)'
    BY <1>0, <2>2 DEF LoopTyped, LoopAt, Batched
  <2>5. LookedUp'
    BY <1>0, <2>1, <2>2, <2>3 DEF LookedUp
  <2> QED
    BY <2>1, <2>4, <2>5 DEF InsideInv
<1>2. ASSUME NEW c \in InConns, NEW taken \in BOOLEAN, Disconnect(c, taken) PROVE InsideInv'
  <2>1. IpsInv' /\ client'[c].state = "Disconnected" /\ \A b \in InConns : b # c => client'[b] = client[b]
    BY <1>0, <1>2, DisconnectIps
  <2>2. UNCHANGED <<setup, inside, window, msgs>>
    BY <1>2 DEF Disconnect
  <2>3. /\ Placed(socket, msgs, send_queue, dropped, accepted)' /\ accepted' <= MaxDatagrams
        /\ ~window => send_queue' = <<>>
    <3>1. CASE setup.datagram /\ accepted < MaxDatagrams
      <4>1. Datum(c, NoIp) \in Sealed /\ Datum(c, NoIp).id = accepted + 1
        BY <3>1, DatumSealed
      <4>2. UdpSend(Datum(c, NoIp), taken)
        BY <1>2, <3>1 DEF Disconnect
      <4> QED
        BY <2>2, <3>1, <4>1, <4>2, SendKeeps
    <3>2. CASE ~(setup.datagram /\ accepted < MaxDatagrams)
      <4>1. UNCHANGED <<send_queue, accepted, socket, dropped>>
        BY <1>2, <3>2 DEF Disconnect
      <4> QED
        BY <1>0, <2>2, <4>1 DEF LoopTyped, LoopAt
    <3> QED
      BY <3>1, <3>2
  <2>4. LoopTyped' /\ LoopAt'
    BY <1>0, <2>2, <2>3 DEF LoopTyped, LoopAt, Batched
  <2>5. LookedUp'
    BY <1>0, <2>1, <2>2 DEF LookedUp
  <2> QED
    BY <2>1, <2>3, <2>4, <2>5 DEF InsideInv
<1>3. ASSUME NEW c \in InConns, NEW taken \in BOOLEAN, OtherTaskSends(c, taken) PROVE InsideInv'
  <2>1. UNCHANGED <<setup, ip_pools, ip_owner, client, inside, window, msgs>> /\ accepted < MaxDatagrams
    BY <1>3 DEF OtherTaskSends
  <2>2. Datum(c, NoIp) \in Sealed /\ Datum(c, NoIp).id = accepted + 1
    BY <2>1, DatumSealed
  <2>3. /\ Placed(socket, msgs, send_queue, dropped, accepted)' /\ accepted' <= MaxDatagrams
        /\ ~window => send_queue' = <<>>
    BY <1>3, <2>1, <2>2, SendKeeps DEF OtherTaskSends
  <2>4. LoopTyped' /\ LoopAt' /\ LookedUp'
    BY <1>0, <2>1, <2>3 DEF LoopTyped, LoopAt, Batched, LookedUp
  <2>5. IpsInv'
    BY <1>0, <2>1 DEF IpsInv, PoolsTyped, PoolsHold, Held, PoolOf
  <2> QED
    BY <2>3, <2>4, <2>5 DEF InsideInv
<1>4. ASSUME NEW c \in InConns, Reconnect(c) PROVE InsideInv'
  <2>1. /\ UNCHANGED <<setup, ip_pools, ip_owner, inside, window, send_queue, msgs, accepted, socket, dropped>>
        /\ client' = [client EXCEPT ![c].state = "LinkUp"] /\ inside.conn # c
    BY <1>4 DEF Reconnect
  <2>2. \A b \in InConns : client'[b].internal_ip = client[b].internal_ip /\ (b # c => client'[b] = client[b])
    BY <1>0, <2>1 DEF PoolsTyped
  <2>3. PoolsTyped'
    BY <1>0, <2>1 DEF PoolsTyped
  <2>4. PoolsHold'
    BY <1>0, <2>1 DEF IpsInv, PoolsHold
  <2>5. Held'
    BY <1>0, <2>1, <2>2 DEF IpsInv, Held, PoolOf, PoolsTyped
  <2>6. LoopTyped' /\ LoopAt' /\ Placed(socket, msgs, send_queue, dropped, accepted)'
    BY <1>0, <2>1 DEF LoopTyped, LoopAt, Batched
  <2>7. LookedUp'
    BY <1>0, <2>1, <2>2 DEF LookedUp
  <2> QED
    BY <2>3, <2>4, <2>5, <2>6, <2>7 DEF InsideInv, IpsInv
<1> QED
  BY <1>1, <1>2, <1>3, <1>4

LEMMA AdvanceKeeps ==
  ASSUME LoopTyped, LoopAt, inside.pc \in {"lookup", "forward"}, inside' = Advance, UNCHANGED <<setup, window, msgs>>,
         accepted' <= MaxDatagrams, ~window => send_queue' = <<>>
  PROVE  LoopTyped' /\ LoopAt' /\ LookedUp'
<1>1. inside.pkts \in Seq(PoolNet \cup {NoIp}) /\ inside.pkts # <<>>
  BY DEF LoopTyped, LoopAt
<1>2. Tail(inside.pkts) \in Seq(PoolNet \cup {NoIp}) /\ Len(Tail(inside.pkts)) = Len(inside.pkts) - 1 /\ Len(inside.pkts) \in Nat
  BY <1>1, HeadTailProperties, LenProperties
<1>3. inside'.pc \in {"lookup", "flush", "recv"} /\ inside'.pkts = Tail(inside.pkts) /\ inside'.conn = NoInConn
  BY DEF Advance
<1>4. inside'.pc = "lookup" => inside'.pkts # <<>>
  <2>1. Len(inside.pkts) > 1 => Tail(inside.pkts) # <<>>
    BY <1>2, EmptySeq
  <2> QED
    BY <1>3, <2>1 DEF Advance
<1>5. Batched => inside'.pc \in {"lookup", "flush"}
  BY DEF Advance
<1>6. LoopTyped'
  <2>1. inside' \in [pc : {"recv", "lookup", "forward", "flush", "flushing", "ended"},
                     pkts : Seq(PoolNet \cup {NoIp}), conn : InConns \cup {NoInConn}]
    BY <1>2, <1>3 DEF Advance
  <2> QED
    BY <2>1 DEF LoopTyped
<1>7. LoopAt'
  BY <1>3, <1>4, <1>5 DEF LoopAt, Batched
<1> QED
  BY <1>3, <1>6, <1>7 DEF LookedUp

LEMMA LoopKeeps ==
  ASSUME InsideInv,
         \/ \E pkts \in UNION {[1..n -> InsidePackets] : n \in 1..MaxBatch} : Receive(pkts)
         \/ Lookup \/ ForwardNone
         \/ \E taken, gso_packet \in BOOLEAN : Forward(taken, gso_packet)
  PROVE  InsideInv'
<1>0. LoopTyped /\ LoopAt /\ LookedUp /\ Placed(socket, msgs, send_queue, dropped, accepted) /\ IpsInv
  BY DEF InsideInv
<1>1. UNCHANGED <<setup, ip_pools, ip_owner, client, msgs>>
  BY DEF Receive, Lookup, ForwardNone, Forward
<1>2. IpsInv'
  BY <1>0, <1>1 DEF IpsInv, PoolsTyped, PoolsHold, Held, PoolOf
<1>3. ASSUME NEW n \in 1..MaxBatch, NEW pkts \in [1..n -> InsidePackets], Receive(pkts) PROVE InsideInv'
  <2>1. n \in Nat /\ n # 0 /\ pkts \in [1..n -> PoolNet \cup {NoIp}]
    <3>1. n \in Nat /\ n # 0
      BY InsideBounds
    <3>2. InsidePackets \subseteq PoolNet \cup {NoIp}
      BY InsideBounds
    <3> QED
      BY <3>1, <3>2
  <2>2. pkts \in Seq(PoolNet \cup {NoIp}) /\ pkts # <<>>
    <3>1. pkts \in Seq(PoolNet \cup {NoIp})
      BY <2>1, IsASeq
    <3>2. Len(pkts) = n
      BY <2>1, <3>1, LenProperties
    <3> QED
      BY <2>1, <3>1, <3>2, EmptySeq
  <2>3. /\ inside.pc = "recv" /\ inside' = [pc |-> "lookup", pkts |-> pkts, conn |-> NoInConn]
        /\ window' = Batched /\ send_queue' = <<>> /\ UNCHANGED <<setup, accepted, socket, dropped, msgs>>
    BY <1>3 DEF Receive
  <2>4. ~window /\ send_queue = <<>> /\ msgs = <<>>
    BY <1>0, <2>3 DEF LoopAt
  <2>5. LoopTyped'
    BY <1>0, <2>2, <2>3 DEF LoopTyped, Batched
  <2>6. LoopAt' /\ LookedUp'
    BY <1>0, <2>2, <2>3, <2>4 DEF LoopAt, LookedUp, Batched
  <2>7. Placed(socket, msgs, send_queue, dropped, accepted)'
    BY <1>0, <2>3, <2>4
  <2> QED
    BY <1>2, <2>5, <2>6, <2>7 DEF InsideInv
<1>4. CASE Lookup
  <2> DEFINE dst == Head(inside.pkts)
  <2>1. inside.pc = "lookup" /\ UNCHANGED <<window, send_queue, accepted, socket, dropped>>
    BY <1>4 DEF Lookup
  <2>2. inside.pkts # <<>> /\ dst \in PoolNet \cup {NoIp}
    BY <1>0, <2>1, HeadTailProperties DEF LoopTyped, LoopAt
  <2>3. Placed(socket, msgs, send_queue, dropped, accepted)'
    BY <1>0, <1>1, <2>1
  <2>4. CASE dst # NoIp /\ ip_owner[dst] # NoInConn
    <3>1. inside' = [inside EXCEPT !.pc = "forward", !.conn = ip_owner[dst]]
      BY <1>4, <2>4 DEF Lookup
    <3>2. ip_owner[dst] \in InConns /\ client[ip_owner[dst]].internal_ip = dst
      BY <1>0, <2>2, <2>4 DEF IpsInv, PoolsTyped, Held
    <3>3. inside'.pc = "forward" /\ inside'.conn = ip_owner[dst] /\ inside'.pkts = inside.pkts
      BY <1>0, <3>1 DEF LoopTyped
    <3>4. LoopTyped'
      BY <1>0, <1>1, <2>1, <3>1, <3>2 DEF LoopTyped
    <3>5. LoopAt'
      BY <1>0, <1>1, <2>1, <2>2, <3>3 DEF LoopAt, Batched
    <3>6. LookedUp'
      BY <1>1, <2>4, <3>2, <3>3 DEF LookedUp
    <3> QED
      BY <1>2, <2>3, <3>4, <3>5, <3>6 DEF InsideInv
  <2>5. CASE ~(dst # NoIp /\ ip_owner[dst] # NoInConn)
    <3>1. inside' = Advance
      BY <1>4, <2>5 DEF Lookup
    <3>2. accepted' <= MaxDatagrams /\ (~window => send_queue' = <<>>)
      BY <1>0, <2>1 DEF LoopTyped, LoopAt
    <3> QED
      BY <1>0, <1>1, <1>2, <2>1, <2>3, <3>1, <3>2, AdvanceKeeps DEF InsideInv
  <2> QED
    BY <2>4, <2>5
<1>5. CASE ForwardNone
  <2>1. inside.pc = "forward" /\ inside' = Advance /\ UNCHANGED <<window, send_queue, accepted, socket, dropped>>
    BY <1>5 DEF ForwardNone
  <2>2. accepted' <= MaxDatagrams /\ (~window => send_queue' = <<>>) /\ Placed(socket, msgs, send_queue, dropped, accepted)'
    BY <1>0, <1>1, <2>1 DEF LoopTyped, LoopAt
  <2> QED
    BY <1>0, <1>1, <1>2, <2>1, <2>2, AdvanceKeeps DEF InsideInv
<1>6. ASSUME NEW taken \in BOOLEAN, NEW gso_packet \in BOOLEAN, Forward(taken, gso_packet) PROVE InsideInv'
  <2> DEFINE c == inside.conn  dst == Head(inside.pkts)
  <2>1. inside.pc = "forward" /\ inside' = Advance /\ window' = window
    BY <1>6 DEF Forward
  <2>2. /\ Placed(socket, msgs, send_queue, dropped, accepted)' /\ accepted' <= MaxDatagrams
        /\ ~window => send_queue' = <<>>
    <3>1. CASE client[c].state = "Online"
      <4>1. c \in InConns /\ client[c].internal_ip = dst /\ inside.pkts # <<>>
        BY <1>0, <2>1, <3>1 DEF LookedUp, LoopAt
      <4>2. dst \in PoolNet \cup {NoIp} /\ accepted < MaxDatagrams
        BY <1>0, <1>6, <3>1, <4>1, HeadTailProperties DEF LoopTyped, Forward
      <4>3. Datum(c, dst) \in Sealed /\ Datum(c, dst).id = accepted + 1
        BY <3>1, <4>1, <4>2, DatumSealed
      <4>4. UdpSend(Datum(c, dst), taken) \/ (UdpSendGso(Datum(c, dst), taken) /\ LoopKind(setup) = "gso")
        BY <1>6, <3>1 DEF Forward
      <4> QED
        BY <1>1, <4>2, <4>3, <4>4, SendKeeps
    <3>2. CASE client[c].state # "Online"
      <4>1. UNCHANGED <<send_queue, accepted, socket, dropped>>
        BY <1>6, <3>2 DEF Forward
      <4> QED
        BY <1>0, <1>1, <4>1 DEF LoopTyped, LoopAt
    <3> QED
      BY <3>1, <3>2
  <2> QED
    BY <1>0, <1>1, <1>2, <2>1, <2>2, AdvanceKeeps DEF InsideInv
<1> QED
  BY <1>3, <1>4, <1>5, <1>6

LEMMA FlushKeeps ==
  ASSUME InsideInv,
         \/ TakeQueue \/ FlushError
         \/ \E n \in 1..Len(msgs) : FlushSome(n)
         \/ \E n \in 0..MaxDatagrams : Unwind(n)
  PROVE  InsideInv'
<1>0. LoopTyped /\ LoopAt /\ LookedUp /\ Placed(socket, msgs, send_queue, dropped, accepted) /\ IpsInv
  BY DEF InsideInv
<1>1. UNCHANGED <<setup, ip_pools, ip_owner, client, accepted>>
  BY DEF TakeQueue, FlushError, FlushSome, Unwind
<1>2. IpsInv'
  BY <1>0, <1>1 DEF IpsInv, PoolsTyped, PoolsHold, Held, PoolOf
<1>3. CASE TakeQueue
  <2>1. /\ inside.pc = "flush" /\ msgs' = send_queue /\ send_queue' = <<>> /\ window' = FALSE
        /\ inside' = [inside EXCEPT !.pc = IF send_queue = <<>> THEN "recv" ELSE "flushing"]
        /\ UNCHANGED <<socket, dropped>>
    BY <1>3 DEF TakeQueue
  <2>2. msgs = <<>>
    BY <1>0, <2>1 DEF LoopAt
  <2>3. Placed(socket, msgs, send_queue, dropped, accepted)'
    BY <1>0, <1>1, <2>1, <2>2, PlacedTaken
  <2>4. inside'.pc = (IF send_queue = <<>> THEN "recv" ELSE "flushing") /\ LoopTyped'
    BY <1>0, <1>1, <2>1 DEF LoopTyped
  <2>5. LoopAt' /\ LookedUp'
    BY <2>1, <2>4 DEF LoopAt, LookedUp
  <2> QED
    BY <1>2, <2>3, <2>4, <2>5 DEF InsideInv
<1>4. ASSUME inside.pc = "flushing", FlushEnd(msgs'), UNCHANGED <<window, send_queue>>,
             Placed(socket, msgs, send_queue, dropped, accepted)'
      PROVE  InsideInv'
  <2>1. inside' = [inside EXCEPT !.pc = IF msgs' = <<>> THEN "recv" ELSE "flushing"]
    BY <1>4 DEF FlushEnd
  <2>2. inside'.pc = (IF msgs' = <<>> THEN "recv" ELSE "flushing") /\ LoopTyped'
    BY <1>0, <1>1, <1>4, <2>1 DEF LoopTyped
  <2>3. LoopAt' /\ LookedUp'
    BY <1>0, <1>4, <2>2 DEF LoopAt, LookedUp
  <2> QED
    BY <1>2, <1>4, <2>2, <2>3 DEF InsideInv
<1>5. inside.pc = "flushing" => msgs # <<>> /\ send_queue = <<>>
  BY <1>0 DEF LoopAt
<1>6. CASE FlushError
  <2>1. /\ inside.pc = "flushing" /\ FlushEnd(msgs') /\ UNCHANGED <<window, send_queue, socket>>
        /\ dropped' = dropped \cup {Head(msgs).id} /\ msgs' = Tail(msgs)
    BY <1>6 DEF FlushError
  <2>2. Placed(socket, Tail(msgs), <<>>, dropped \cup {Head(msgs).id}, accepted)
    BY <1>0, <1>5, <2>1, PlacedError
  <2>3. Placed(socket, msgs, send_queue, dropped, accepted)'
    BY <1>1, <1>5, <2>1, <2>2
  <2> QED
    BY <1>4, <2>1, <2>3
<1>7. ASSUME NEW n \in 1..Len(msgs), FlushSome(n) PROVE InsideInv'
  <2>1. /\ inside.pc = "flushing" /\ FlushEnd(msgs') /\ UNCHANGED <<window, send_queue, dropped>>
        /\ socket' = socket \o SubSeq(msgs, 1, n) /\ msgs' = SubSeq(msgs, n + 1, Len(msgs))
    BY <1>7 DEF FlushSome
  <2>2. Len(msgs) \in Nat
    BY <1>0, LenProperties DEF Placed
  <2>3. n \in 0..Len(msgs)
    BY <2>2
  <2>4. Placed(socket \o SubSeq(msgs, 1, n), SubSeq(msgs, n + 1, Len(msgs)), send_queue, dropped, accepted)
    BY <1>0, <1>5, <2>1, <2>3, PlacedFlushed
  <2>5. Placed(socket, msgs, send_queue, dropped, accepted)'
    BY <1>1, <2>1, <2>4
  <2> QED
    BY <1>4, <2>1, <2>5
<1>8. ASSUME NEW n \in 0..MaxDatagrams, Unwind(n) PROVE InsideInv'
  <2>1. /\ inside.pc \in {"lookup", "forward"} /\ n <= Len(send_queue) /\ send_queue' = <<>> /\ window' = FALSE
        /\ socket' = socket \o SubSeq(send_queue, 1, n)
        /\ dropped' = dropped \cup {send_queue[i].id : i \in n + 1 .. Len(send_queue)}
        /\ inside' = [pc |-> "ended", pkts |-> <<>>, conn |-> NoInConn] /\ msgs' = msgs
    BY <1>8 DEF Unwind
  <2>2. msgs = <<>>
    BY <1>0, <2>1 DEF LoopAt
  <2>3. n \in 0..Len(send_queue)
    <3>1. Len(send_queue) \in Nat /\ MaxDatagrams \in Nat
      BY <1>0, LenProperties, InsideBounds DEF Placed
    <3> QED
      BY <2>1, <3>1
  <2>4. Placed(socket, msgs, send_queue, dropped, accepted)'
    BY <1>0, <1>1, <2>1, <2>2, <2>3, PlacedUnwind
  <2>5. LoopTyped'
    <3>1. <<>> \in Seq(PoolNet \cup {NoIp})
      OBVIOUS
    <3> QED
      BY <1>0, <1>1, <2>1, <3>1 DEF LoopTyped
  <2>6. LoopAt' /\ LookedUp'
    BY <2>1, <2>2 DEF LoopAt, LookedUp
  <2> QED
    BY <1>2, <2>4, <2>5, <2>6 DEF InsideInv
<1> QED
  BY <1>3, <1>6, <1>7, <1>8

LEMMA InsideInvNext == InsideInv /\ [InsideNext]_insideVars => InsideInv'
<1> SUFFICES ASSUME InsideInv, [InsideNext]_insideVars PROVE InsideInv'
  OBVIOUS
<1>1. CASE UNCHANGED insideVars
  BY <1>1 DEF insideVars, InsideInv, LoopTyped, LoopAt, LookedUp, Batched, IpsInv, PoolsTyped, PoolsHold, Held, PoolOf
<1>2. CASE InsideNext
  BY <1>2, ClientsKeep, LoopKeeps, FlushKeeps DEF InsideNext
<1> QED
  BY <1>1, <1>2

LEMMA InsideInvSafe == InsideInv => InsideSafe
<1> SUFFICES ASSUME InsideInv PROVE InsideSafe
  OBVIOUS
<1>0. LoopTyped /\ LoopAt /\ Placed(socket, msgs, send_queue, dropped, accepted) /\ PoolsTyped /\ PoolsHold /\ Held
  BY DEF InsideInv, IpsInv
<1>1. socket \in Seq(Sealed) /\ msgs \in Seq(Sealed) /\ send_queue \in Seq(Sealed) /\ accepted \in Nat
  BY <1>0 DEF Placed
<1>2. Range(socket) \cup Range(send_queue) \cup Range(msgs) \subseteq Sealed
  <2>1. ASSUME NEW s \in Seq(Sealed) PROVE Range(s) \subseteq Sealed
    BY <2>1, IdsOf DEF Range
  <2> QED
    BY <1>1, <2>1
<1>3. InsideTypeOK /\ InsideIsolation
  BY <1>0, <1>2 DEF InsideTypeOK, InsideIsolation, LoopTyped, LoopAt, PoolsTyped, Sealed
<1>4. OnceEach
  <2>1. Len(socket) + Len(send_queue) + Len(msgs) + Cardinality(dropped) = accepted
    BY <1>0, PlacedCount
  <2>2. Ids(socket) \cup Ids(send_queue) \cup Ids(msgs) \cup dropped = 1..accepted
    BY <1>0 DEF Placed
  <2> QED
    BY <2>1, <2>2 DEF OnceEach
<1>5. WindowOrder
  <2>1. \A i, j \in DOMAIN msgs : i < j => msgs[i].id < msgs[j].id
    BY <1>0, <1>1, IdsOf DEF Placed, Increasing
  <2>2. ASSUME NEW s \in Seq(Sealed), NEW d \in Range(s) PROVE d.id \in Ids(s)
    BY DEF Range, Ids
  <2>3. ASSUME NEW d \in Range(send_queue), NEW e \in Range(socket) \cup Range(msgs) PROVE e.id < d.id
    BY <1>0, <1>1, <2>2 DEF Placed
  <2> QED
    BY <2>1, <2>3 DEF WindowOrder
<1>6. PoolsConserved
  <2> SUFFICES ASSUME NEW p \in Pools
               PROVE  LET available == ip_pools[p].available  allocated == ip_pools[p].allocated IN
                      /\ Range(available) \cup allocated = split_subnet(p)
                      /\ Range(available) \cap allocated = {}
                      /\ Len(available) = Cardinality(Range(available))
                      /\ \A ip \in allocated : /\ ip_owner[ip] # NoInConn /\ PoolOf(ip_owner[ip]) = p
                                               /\ client[ip_owner[ip]].internal_ip = ip
    BY DEF PoolsConserved
  <2> DEFINE s == ip_pools[p].available
  <2>1. s \in Seq(PoolNet) /\ ip_pools[p].allocated \subseteq PoolNet /\ PoolHolds(p, s, ip_pools[p].allocated)
    BY <1>0 DEF PoolsTyped, PoolsHold
  <2>2. \A ip \in ip_pools[p].allocated : /\ ip_owner[ip] # NoInConn /\ PoolOf(ip_owner[ip]) = p
                                          /\ client[ip_owner[ip]].internal_ip = ip
    BY <1>0, <2>1 DEF Held
  <2> HIDE DEF s
  <2>3. Cardinality(Range(s)) = Len(s)
    <3>1. Len(s) \in Nat /\ DOMAIN s = 1..Len(s)
      BY <2>1, LenProperties
    <3>2. s \in Bijection(1..Len(s), Range(s))
      <4>1. s \in [1..Len(s) -> Range(s)]
        BY <2>1, <3>1, SeqDef DEF Range
      <4>2. \A i, j \in 1..Len(s) : s[i] = s[j] => i = j
        BY <2>1 DEF PoolHolds
      <4>3. \A x \in Range(s) : \E i \in 1..Len(s) : s[i] = x
        BY <3>1 DEF Range
      <4> QED
        BY <4>1, <4>2, <4>3 DEF Bijection, Injection, Surjection, IsInjective
    <3>3. IsFiniteSet(1..Len(s)) /\ Cardinality(1..Len(s)) = Len(s)
      <4>1. 1 \in Int /\ Len(s) \in Int /\ (IF 1 > Len(s) THEN 0 ELSE Len(s) - 1 + 1) = Len(s)
        BY <3>1
      <4> QED
        BY <4>1, FS_Interval
    <3>4. ExistsBijection(1..Len(s), Range(s))
      BY <3>2 DEF ExistsBijection
    <3> QED
      BY <3>3, <3>4, FS_Bijection
  <2> QED
    BY <2>1, <2>2, <2>3 DEF PoolHolds, s
<1> QED
  BY <1>3, <1>4, <1>5, <1>6 DEF InsideSafe

(* Theorem: between the TUN and the socket, for any pools, subnets, batch  *)
(* sizes and clients that come and go, InsideSafe: no packet is sealed for *)
(* a connection that does not hold its destination, no inside IP is lost   *)
(* or held twice, and each datagram is sent once or counted as dropped, in *)
(* the order of its window (inside_io_task, ip_manager.rs, send_queue.rs). *)
THEOREM InsideIsSafe == InsideSpec => []InsideSafe
<1>1. InsideInit => InsideInv
  BY InsideInvInit
<1>2. InsideInv /\ [InsideNext]_insideVars => InsideInv'
  BY InsideInvNext
<1>3. InsideInv => InsideSafe
  BY InsideInvSafe
<1> QED
  BY <1>1, <1>2, <1>3, PTL DEF InsideSpec
=============================================================================
