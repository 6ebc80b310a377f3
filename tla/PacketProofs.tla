----------------------------- MODULE PacketProofs -----------------------------
(***************************************************************************)
(* Proofs about the receive half and the send half of an ExpressLane       *)
(* session, the keepalive task, the io_uring task and the way of an inside *)
(* packet.  For every window size and any number of threads: the bitmap is *)
(* exact within the window, no packet is delivered twice, the window's     *)
(* verdicts are those of the abstract receiver, and no cipher or counter   *)
(* is used twice.  For every timeout and channel capacity: a tunnel that   *)
(* answers is not taken for dead.  For every ring: no slot is used twice,  *)
(* no packet is lost.  For every chain of plugins and width of a checksum: *)
(* what leaves the tunnel is what entered it.                              *)
(***************************************************************************)
EXTENDS ReplayWindow, LaneSeal, Keepalive, Uring, InsidePath, FiniteSetTheorems, SequenceTheorems, WellFoundedInduction,
        NaturalsInduction, TLAPS

(* Two counters less than W apart never share a slot.                      *)
LEMMA SlotsDistinct ==
  ASSUME NEW a \in Nat, NEW b \in Nat, a <= b, b - a < W, index(a) = index(b)
  PROVE  a = b
<1>1. W \in Nat /\ W > 0
  BY WindowAssumption
<1>2. /\ a = W * (a \div W) + (a % W)
      /\ b = W * (b \div W) + (b % W)
      /\ a \div W \in Int
      /\ b \div W \in Int
  BY <1>1
<1> DEFINE d == (b \div W) - (a \div W)
<1>3. b - a = W * d /\ d \in Int
  BY <1>1, <1>2 DEF index
<1> HIDE DEF d
<1>4. d >= 1 => W * d >= W
  BY <1>1, <1>3
<1>5. d < 0 => W * d < 0
  BY <1>1, <1>3
<1>6. d = 0
  BY <1>1, <1>3, <1>4, <1>5
<1> QED
  BY <1>1, <1>3, <1>6

(* A slot number is below W.                                               *)
LEMMA SlotInRange ==
  ASSUME NEW c \in Nat
  PROVE  index(c) \in Slots
<1>1. c % W \in 0..(W - 1)
  BY WindowAssumption
<1> QED
  BY <1>1 DEF index, Slots

(* Where the invariant holds, the window's check is the abstract one.      *)
LEMMA RejectIsStale ==
  ASSUME TypeOK, WindowExact, NEW c \in Counters
  PROVE  would_reject(c) <=> ~Abstract!Fresh(c)
<1>1. /\ W \in Nat /\ W > 0 /\ high \in Nat /\ c \in Nat
      /\ \A d \in delivered : d \in Nat
  BY WindowAssumption DEF TypeOK, Counters
<1>2. CASE c = 0
  BY <1>2 DEF would_reject, Abstract!Fresh
<1>3. CASE c > high
  <2>1. ~would_reject(c)
    BY <1>1, <1>3 DEF would_reject
  <2>2. \A d \in delivered : d < c + W
    BY <1>1, <1>3 DEF WindowExact
  <2>3. c \notin delivered
    BY <1>1, <1>3 DEF WindowExact
  <2> QED
    BY <1>1, <1>3, <2>1, <2>2, <2>3 DEF Abstract!Fresh
<1>4. CASE 0 < c /\ c <= high
  <2>1. high \in delivered
    BY <1>1, <1>4 DEF WindowExact
  <2>2. (\A d \in delivered : d < c + W) <=> high - c < W
    BY <1>1, <1>4, <2>1 DEF WindowExact
  <2>3. high - c < W => (bitmap[index(c)] <=> c \in delivered)
    BY <1>1, <1>4 DEF WindowExact
  <2> QED
    BY <1>1, <1>4, <2>2, <2>3 DEF would_reject, Abstract!Fresh
<1> QED
  BY <1>1, <1>2, <1>3, <1>4

(* Recording an admitted counter keeps the bitmap exact.                   *)
LEMMA RecordExact ==
  ASSUME TypeOK, WindowExact, NEW c \in Counters, ~would_reject(c), Record(c),
         delivered' = delivered \cup {c}
  PROVE  WindowExact'
<1>1. /\ W \in Nat /\ W > 0 /\ high \in Nat /\ c \in Nat /\ c > 0
      /\ \A d \in delivered : d \in Nat
  BY WindowAssumption DEF TypeOK, Counters, would_reject
<1>2. high' = IF c > high THEN c ELSE high
  BY DEF Record
<1>3. \A d \in delivered' : 0 < d /\ d <= high'
  BY <1>1, <1>2 DEF WindowExact
<1>4. high' > 0 => high' \in delivered'
  BY <1>1, <1>2 DEF WindowExact
<1>5. ASSUME NEW e \in 1..high', high' - e < W
      PROVE  bitmap'[index(e)] <=> e \in delivered'
  <2>1. e \in Nat /\ index(e) \in Slots /\ index(c) \in Slots
    BY <1>1, <1>2, <1>5, SlotInRange
  <2>2. DOMAIN Slid(c) = Slots
    BY DEF Slid, TypeOK
  <2>3. CASE e = c
    BY <2>1, <2>2, <2>3 DEF Record
  <2>4. CASE e # c
    <3>1. index(e) # index(c)
      <4>1. CASE e < c
        BY <1>1, <1>2, <1>5, <2>1, <4>1, SlotsDistinct
      <4>2. CASE c < e
        <5>1. high' = high /\ e <= high /\ high - c < W
          BY <1>1, <1>2, <1>5, <2>1, <4>2 DEF would_reject
        <5> QED
          BY <1>1, <5>1, <2>1, <4>2, SlotsDistinct
      <4> QED
        BY <1>1, <2>1, <2>4, <4>1, <4>2
    <3>2. bitmap'[index(e)] = Slid(c)[index(e)]
      BY <2>1, <2>2, <3>1 DEF Record
    <3>3. CASE c <= high
      BY <1>1, <1>2, <1>5, <2>1, <2>4, <3>2, <3>3 DEF Slid, WindowExact
    <3>4. CASE c > high
      <4>1. Slid(c)[index(e)] = (bitmap[index(e)] /\ c - high < W /\ index(e) \notin Crossed(c))
        BY <2>1, <1>1, <3>4 DEF Slid
      <4>2. c - high < W => ClearFrom(c) = high + 1
        BY <1>1, <3>4 DEF ClearFrom
      <4>3. CASE e > high
        <5>1. e \notin delivered
          BY <1>1, <2>1, <4>3 DEF WindowExact
        <5>2. c - high < W => index(e) \in Crossed(c)
          BY <1>1, <1>2, <1>5, <2>1, <2>4, <3>4, <4>2, <4>3 DEF Crossed
        <5> QED
          BY <2>4, <3>2, <4>1, <5>1, <5>2
      <4>4. CASE e <= high
        <5>1. c - high < W /\ high - e < W
          BY <1>1, <1>2, <1>5, <2>1, <3>4, <4>4
        <5>2. bitmap[index(e)] <=> e \in delivered
          BY <1>1, <1>5, <2>1, <4>4, <5>1 DEF WindowExact
        <5>3. ASSUME NEW d \in (high + 1)..(c - 1)
              PROVE  index(d) # index(e)
          <6>1. d \in Nat /\ e < d /\ d - e < W
            BY <1>1, <1>2, <1>5, <2>1, <3>4, <4>4
          <6> QED
            BY <6>1, <2>1, SlotsDistinct
        <5>4. index(e) \notin Crossed(c)
          BY <4>2, <5>1, <5>3 DEF Crossed
        <5> QED
          BY <2>4, <3>2, <4>1, <5>1, <5>2, <5>4
      <4> QED
        BY <1>1, <2>1, <4>3, <4>4
    <3> QED
      BY <1>1, <3>3, <3>4
  <2> QED
    BY <2>3, <2>4
<1> QED
  BY <1>3, <1>4, <1>5 DEF WindowExact

-----------------------------------------------------------------------------
(* The inductive invariant: exactness needs the types, and the count needs *)
(* finiteness of what was delivered.                                       *)
IInv == TypeOK /\ WindowExact /\ IsFiniteSet(delivered) /\ NeverTwice

LEMMA InitIInv == Init => IInv
<1> SUFFICES ASSUME Init PROVE IInv
  OBVIOUS
<1>1. TypeOK
  BY WindowAssumption DEF Init, TypeOK, Counters, Packets, NoPacket
<1>2. WindowExact
  BY DEF Init, WindowExact
<1>3. IsFiniteSet(delivered) /\ NeverTwice
  BY FS_EmptySet DEF Init, NeverTwice
<1> QED
  BY <1>1, <1>2, <1>3 DEF IInv

LEMMA NextIInv == IInv /\ [Next]_vars => IInv'
<1> SUFFICES ASSUME IInv, [Next]_vars PROVE IInv'
  OBVIOUS
<1> USE DEF IInv
<1>1. CASE UNCHANGED vars
  BY <1>1 DEF vars, TypeOK, WindowExact, NeverTwice
<1>2. ASSUME NEW w \in Workers, NEW p \in Packets, PreviewReject(w, p)
      PROVE  IInv'
  BY <1>2 DEF PreviewReject, TypeOK, WindowExact, NeverTwice, Packets
<1>3. ASSUME NEW w \in Workers, NEW p \in Packets, PreviewPass(w, p)
      PROVE  IInv'
  BY <1>3 DEF PreviewPass, TypeOK, WindowExact, NeverTwice
<1>4. ASSUME NEW w \in Workers, OpenFails(w)
      PROVE  IInv'
  <2>1. NoPacket \in Packets
    BY WindowAssumption DEF NoPacket, Packets, Counters
  <2> QED
    BY <1>4, <2>1 DEF OpenFails, TypeOK, WindowExact, NeverTwice
<1>5. ASSUME NEW w \in Workers, Commit(w)
      PROVE  IInv'
  <2> DEFINE c == opening[w].counter
  <2>1. NoPacket \in Packets /\ c \in Counters
    BY WindowAssumption DEF NoPacket, Packets, Counters, TypeOK
  <2>2. opening' \in [Workers -> Packets]
    BY <1>5, <2>1 DEF Commit, TypeOK
  <2>3. CASE would_reject(c)
    <3>1. UNCHANGED <<high, bitmap, packets_received, delivered>>
      BY <1>5, <2>3 DEF Commit
    <3>2. verdict' = [counter |-> c, ok |-> FALSE]
      BY <1>5, <2>3 DEF Commit
    <3> HIDE DEF c
    <3>3. TypeOK'
      BY <2>1, <2>2, <3>1, <3>2 DEF TypeOK
    <3>4. WindowExact' /\ NeverTwice' /\ IsFiniteSet(delivered')
      BY <3>1 DEF WindowExact, NeverTwice
    <3> QED
      BY <3>3, <3>4
  <2>4. CASE ~would_reject(c)
    <3>1. /\ Record(c)
          /\ packets_received' = packets_received + 1
          /\ delivered' = delivered \cup {c}
          /\ verdict' = [counter |-> c, ok |-> TRUE]
      BY <1>5, <2>4 DEF Commit
    <3>2. c \notin delivered
      BY <2>1, <2>4, RejectIsStale DEF Abstract!Fresh
    <3>3. IsFiniteSet(delivered') /\ NeverTwice'
      BY <3>1, <3>2, FS_AddElement DEF NeverTwice
    <3>4. Slid(c) \in [Slots -> BOOLEAN]
      BY DEF Slid, TypeOK
    <3>5. TypeOK'
      <4> HIDE DEF c
      <4>1. bitmap' \in [Slots -> BOOLEAN]
        BY <3>1, <3>4 DEF Record
      <4>2. high' \in Counters
        BY <2>1, <3>1 DEF Record, TypeOK
      <4>3. verdict' \in [counter : Counters, ok : BOOLEAN]
        BY <2>1, <3>1
      <4> QED
        BY <2>1, <2>2, <3>1, <4>1, <4>2, <4>3 DEF TypeOK
    <3>6. WindowExact'
      BY <2>1, <2>4, <3>1, RecordExact
    <3> QED
      BY <3>3, <3>5, <3>6
  <2> QED
    BY <2>3, <2>4
<1> QED
  BY <1>1, <1>2, <1>3, <1>4, <1>5 DEF Next

(* TypeOK, exactness of the bitmap and at-most-once delivery, for every    *)
(* window size, number of workers and range of counters.                   *)
THEOREM WindowCorrect == Spec => [](TypeOK /\ WindowExact /\ NeverTwice)
<1>1. IInv => TypeOK /\ WindowExact /\ NeverTwice
  BY DEF IInv
<1> QED
  BY <1>1, InitIInv, NextIInv, PTL DEF Spec

(* A counter that no frame authenticated never moves the window: commit,   *)
(* the only writer of high, runs after the AEAD.                           *)
THEOREM AuthenticOnly == Spec => OnlyAuthenticMoves
<1>1. IInv /\ [Next]_vars =>
        [high' # high => \E w \in Workers : opening[w] = [counter |-> high', authentic |-> TRUE]]_vars
  <2> SUFFICES ASSUME IInv, Next, high' # high
               PROVE  \E w \in Workers : opening[w] = [counter |-> high', authentic |-> TRUE]
    BY DEF vars
  <2>1. PICK w \in Workers : Commit(w)
    BY DEF Next, PreviewReject, PreviewPass, OpenFails
  <2>2. high' = opening[w].counter /\ opening[w].authentic
    BY <2>1 DEF Commit, Record
  <2>3. opening[w] \in Packets
    BY DEF IInv, TypeOK
  <2> QED
    BY <2>2, <2>3 DEF Packets
<1> QED
  BY <1>1, InitIInv, NextIInv, PTL DEF Spec, OnlyAuthenticMoves

(* The bitmap implements the abstract receiver: every verdict, preview or  *)
(* commit, is the one the set of delivered counters calls for.             *)
THEOREM Refinement == Spec => Implements
<1>1. Init => Abstract!Init
  BY DEF Init, Abstract!Init, Abstract!NoVerdict
<1>2. IInv /\ [Next]_vars => [Abstract!Next]_(Abstract!vars)
  <2> SUFFICES ASSUME IInv, [Next]_vars
               PROVE  Abstract!Next \/ UNCHANGED Abstract!vars
    OBVIOUS
  <2> USE DEF IInv, Abstract!vars
  <2>1. CASE UNCHANGED vars
    BY <2>1 DEF vars
  <2>2. ASSUME NEW w \in Workers, NEW p \in Packets, PreviewReject(w, p)
        PROVE  Abstract!Next
    <3>1. p.counter \in Counters
      BY DEF Packets
    <3>2. Abstract!Reject(p.counter)
      BY <2>2, <3>1, RejectIsStale DEF PreviewReject, Abstract!Reject
    <3> QED
      BY <3>1, <3>2 DEF Abstract!Next
  <2>3. ASSUME NEW w \in Workers, NEW p \in Packets, PreviewPass(w, p)
        PROVE  UNCHANGED Abstract!vars
    BY <2>3 DEF PreviewPass
  <2>4. ASSUME NEW w \in Workers, OpenFails(w)
        PROVE  UNCHANGED Abstract!vars
    BY <2>4 DEF OpenFails
  <2>5. ASSUME NEW w \in Workers, Commit(w)
        PROVE  Abstract!Next
    <3> DEFINE c == opening[w].counter
    <3>1. c \in Counters
      BY DEF TypeOK, Packets
    <3>2. CASE would_reject(c)
      <4>1. Abstract!Reject(c)
        BY <2>5, <3>1, <3>2, RejectIsStale DEF Commit, Abstract!Reject
      <4> QED
        BY <3>1, <4>1 DEF Abstract!Next
    <3>3. CASE ~would_reject(c)
      <4>1. Abstract!Accept(c)
        BY <2>5, <3>1, <3>3, RejectIsStale DEF Commit, Abstract!Accept
      <4> QED
        BY <3>1, <4>1 DEF Abstract!Next
    <3> QED
      BY <3>2, <3>3
  <2> QED
    BY <2>1, <2>2, <2>3, <2>4, <2>5 DEF Next
<1> QED
  BY <1>1, <1>2, InitIInv, NextIInv, PTL DEF Spec, Implements, Abstract!Spec

-----------------------------------------------------------------------------
(* The send half of the session.                                           *)

Keys   == LaneKeys \cup {INVALID}
Keyed  == [key : Keys, pool : Nat]
Places == {"idle", "counted", "versioned", "keyed", "cipher", "sealed"}
Calls  == [at : Places, counter : Nat, encoded : BOOLEAN, version : Versions,
           keyed : Keyed, cipher : Nat]

\* The types of all of the session's state.
Typed ==
  /\ lane_version \in Versions /\ wire_counter \in 0..MaxReserved
  /\ current_self \in Keyed /\ next_self \in Keyed
  /\ pools \in Seq(SUBSET Nat) /\ built \in Seq(Keys)
  /\ sealing \in [Sealers -> Calls]

\* A pool holds ciphers that were built, no more than MAX_POOLED, and shares
\* none with another pool.
PoolsApart ==
  /\ \A n \in 1..Len(pools) : /\ pools[n] \subseteq 1..Len(built)
                              /\ Cardinality(pools[n]) <= MAX_POOLED
  /\ \A m, n \in 1..Len(pools) : m # n => pools[m] \cap pools[n] = {}

\* A key in a slot has a pool of its own, whose ciphers are of that key.
SlotPools ==
  /\ \A k \in {current_self, next_self} :
       k # NoKeyed => /\ k.pool \in 1..Len(pools)
                      /\ \A c \in pools[k.pool] : built[c] = k.key
  /\ next_self # NoKeyed => next_self.pool # current_self.pool

\* A thread that reads the keys reads the current key, and the cipher it has
\* is of that key and in no pool.
ReadersCurrent ==
  \A w \in Sealers :
    /\ sealing[w].at \in {"keyed", "cipher"} => sealing[w].keyed = current_self /\ Usable(current_self)
    /\ Held(w) => /\ sealing[w].cipher \in 1..Len(built)
                  /\ built[sealing[w].cipher] = current_self.key
                  /\ \A n \in 1..Len(pools) : sealing[w].cipher \notin pools[n]

\* No two threads have the same cipher.
HeldApart == \A v, w \in Sealers : Held(v) /\ Held(w) /\ v # w => sealing[v].cipher # sealing[w].cipher

\* Every counter of a call or of a frame was reserved.
CountersReserved ==
  /\ \A w \in Sealers : IF sealing[w].at = "idle" THEN sealing[w].counter = 0 ELSE sealing[w].counter \in 1..wire_counter
  /\ \A f \in frames : f.counter \in 1..wire_counter

\* A call that has read the version read the one in force.
VersionsRead == \A w \in Sealers : sealing[w].at \notin {"idle", "counted"} => sealing[w].version = lane_version

LaneInv ==
  /\ Typed /\ PoolsApart /\ SlotPools /\ ReadersCurrent /\ HeldApart
  /\ CountersReserved /\ VersionsRead /\ CounterOnce /\ AadRebuilt

LEMMA KeyedTypes == NoKeyed \in Keyed /\ AtRest \in Calls
BY DEF NoKeyed, Keyed, AtRest, Calls, Keys, Places, Versions

\* How a cipher taken or given back changes the size of a pool.
LEMMA PoolSizes ==
    ASSUME NEW n \in Nat, NEW P, P \subseteq 1..n, NEW c
    PROVE  /\ Cardinality(P) \in Nat /\ Cardinality({c}) = 1
           /\ c \in P => Cardinality(P \ {c}) = Cardinality(P) - 1
           /\ c \notin P => Cardinality(P \cup {c}) = Cardinality(P) + 1
<1>1. IsFiniteSet(1..n)
    BY FS_Interval
<1>2. IsFiniteSet(P)
    BY <1>1, FS_Subset
<1>3. Cardinality({c}) = 1
    BY FS_Singleton
<1>4. Cardinality(P) \in Nat
    BY <1>2, FS_CardinalityType
<1>5. c \in P => Cardinality(P \ {c}) = Cardinality(P) - 1
    BY <1>2, FS_RemoveElement
<1>6. c \notin P => Cardinality(P \cup {c}) = Cardinality(P) + 1
    BY <1>2, FS_AddElement
<1> QED BY <1>3, <1>4, <1>5, <1>6

\* The inductive invariant holds initially.
LEMMA LaneInvInit == LaneInit => LaneInv
<1> SUFFICES ASSUME LaneInit PROVE LaneInv
    OBVIOUS
<1> USE DEF LaneInit
<1>1. Typed
    BY KeyedTypes, LaneAssumption DEF Typed
<1>2. Len(pools) = 0 /\ Len(built) = 0
    OBVIOUS
<1>3. \A w \in Sealers : sealing[w].at = "idle" /\ sealing[w].counter = 0
    BY DEF AtRest
<1> QED
    BY <1>1, <1>2, <1>3 DEF LaneInv, PoolsApart, SlotPools, ReadersCurrent, HeldApart,
        CountersReserved, VersionsRead, CounterOnce, AadRebuilt, Held

\* The invariant implies what the session promises its callers.
LEMMA LaneInvSafe == LaneInv => LaneSafe
<1> SUFFICES ASSUME LaneInv PROVE LaneSafe
    OBVIOUS
<1>1. DOMAIN pools = 1..Len(pools) /\ DOMAIN built = 1..Len(built) /\ Len(pools) \in Nat
    BY DEF LaneInv, Typed
<1>2. LaneTypeOK
    <2>1. \A k \in {current_self, next_self} : k.pool \in 0..Len(pools)
        BY <1>1 DEF LaneInv, SlotPools, NoKeyed
    <2> QED BY <1>1, <2>1 DEF LaneInv, Typed, PoolsApart, LaneTypeOK
<1>3. CipherExclusive
    BY <1>1 DEF LaneInv, HeldApart, ReadersCurrent, CipherExclusive, Held
<1>4. SealedCurrent
    BY DEF LaneInv, ReadersCurrent, SealedCurrent, Held, Usable
<1> QED BY <1>2, <1>3, <1>4 DEF LaneInv, LaneSafe

\* Staging a key builds its first cipher and its pool; nothing else refers to
\* either yet.
LEMMA StageKeepsInv == ASSUME LaneInv, NEW key \in Keys, update_next_self_key(key) PROVE LaneInv'
<1> USE DEF update_next_self_key, LaneInv
<1> DEFINE n == Len(pools) + 1
           c == Len(built) + 1
<1>1. /\ Len(pools) \in Nat /\ Len(built) \in Nat
      /\ Len(pools') = n /\ Len(built') = c
      /\ \A i \in 1..Len(pools) : pools'[i] = pools[i]
      /\ pools'[n] = {c}
      /\ \A i \in 1..Len(built) : built'[i] = built[i]
      /\ built'[c] = key
    BY DEF Typed
<1>2. Typed'
    <2>1. next_self' \in Keyed
        BY <1>1 DEF Keyed
    <2>2. pools' \in Seq(SUBSET Nat) /\ built' \in Seq(Keys)
        BY DEF Typed
    <2>3. UNCHANGED <<lane_version, wire_counter, current_self, sealing>>
        OBVIOUS
    <2> HIDE DEF update_next_self_key
    <2> QED BY <2>1, <2>2, <2>3 DEF Typed
<1>3. PoolsApart'
    <2>1. Cardinality({c}) <= MAX_POOLED
        <3> HIDE DEF c
        <3>1. Cardinality({c}) = 1
            BY PoolSizes
        <3> QED BY <3>1, LaneAssumption
    <2>2. \A i \in 1..n : pools'[i] \subseteq 1..c /\ Cardinality(pools'[i]) <= MAX_POOLED
        BY <1>1, <2>1 DEF PoolsApart
    <2>3. ASSUME NEW i \in 1..n, NEW j \in 1..n, i # j PROVE pools'[i] \cap pools'[j] = {}
        <3>1. \A k \in 1..Len(pools) : c \notin pools[k]
            BY <1>1 DEF PoolsApart
        <3> QED BY <1>1, <2>3, <3>1 DEF PoolsApart
    <2> QED BY <1>1, <2>2, <2>3 DEF PoolsApart
<1>4. SlotPools'
    <2>1. next_self'.pool = n /\ next_self'.key = key
        OBVIOUS
    <2>2. current_self # NoKeyed => current_self.pool \in 1..Len(pools) /\ current_self.pool # n
        BY <1>1 DEF SlotPools
    <2>3. current_self = NoKeyed => current_self.pool # n
        BY <1>1 DEF NoKeyed
    <2>4. current_self # NoKeyed => \A d \in pools'[current_self.pool] : built'[d] = current_self.key
        BY <1>1, <2>2 DEF SlotPools, PoolsApart
    <2>5. next_self'.pool \in 1..n /\ \A d \in pools'[n] : built'[d] = key
        BY <1>1, <2>1
    <2>6. current_self' = current_self
        OBVIOUS
    <2> HIDE DEF update_next_self_key
    <2> QED BY <1>1, <2>1, <2>2, <2>3, <2>4, <2>5, <2>6 DEF SlotPools
<1>5. ReadersCurrent'
    BY DEF ReadersCurrent, keys_write, Readers, Held
<1> QED
    BY <1>2, <1>3, <1>4, <1>5 DEF HeldApart, CountersReserved, VersionsRead, CounterOnce, AadRebuilt, Held

\* Promotion waits for the readers: no thread works with the key it replaces.
LEMMA PromoteKeepsInv == ASSUME LaneInv, promote_self_key PROVE LaneInv'
<1> USE DEF promote_self_key, LaneInv
<1>1. Typed'
    BY KeyedTypes DEF Typed
<1>2. SlotPools'
    BY DEF SlotPools
<1>3. ReadersCurrent'
    BY DEF ReadersCurrent, keys_write, Readers, Held
<1> QED
    BY <1>1, <1>2, <1>3 DEF PoolsApart, HeldApart, CountersReserved, VersionsRead, CounterOnce, AadRebuilt, Held

\* The version changes only while no call is under way and nothing was sent.
LEMMA SetVersionKeepsInv == ASSUME LaneInv, NEW v \in Versions, set_version(v) PROVE LaneInv'
<1> USE DEF set_version, LaneInv, Unsent
<1>1. frames = {}
    BY DEF CountersReserved
<1> QED
    BY <1>1 DEF Typed, PoolsApart, SlotPools, ReadersCurrent, HeldApart, CountersReserved, VersionsRead,
        CounterOnce, AadRebuilt, Held

\* What a step may do to the call of one thread without touching the rest of
\* the session: the place moves on, the counter of the call is kept, or the
\* call ends.
MovesOn(w) ==
  /\ sealing[w].at # "idle"
  /\ \E s \in Calls :
       /\ sealing' = [sealing EXCEPT ![w] = s]
       /\ \/ s = AtRest
          \/ s.at # "idle" /\ s.counter = sealing[w].counter
       /\ s.at \notin {"idle", "counted"} => s.version = lane_version
       /\ s.at = "keyed" => s.keyed = current_self /\ Usable(current_self)
       /\ s.at # "cipher"
  /\ UNCHANGED <<lane_version, wire_counter, current_self, next_self, pools, built, frames, staged>>

LEMMA MoveKeepsInv == ASSUME LaneInv, NEW w \in Sealers, MovesOn(w) PROVE LaneInv'
<1> USE DEF LaneInv
<1>1. PICK s \in Calls : MovesOn(w)!2!(s)
    BY DEF MovesOn
<1>2. UNCHANGED <<lane_version, wire_counter, current_self, next_self, pools, built, frames, staged>>
    BY DEF MovesOn
<1>3. sealing' \in [Sealers -> Calls] /\ sealing'[w] = s /\ \A v \in Sealers \ {w} : sealing'[v] = sealing[v]
    BY <1>1 DEF Typed
<1>4. Typed'
    BY <1>2, <1>3 DEF Typed
<1>5. PoolsApart' /\ SlotPools'
    BY <1>2 DEF PoolsApart, SlotPools
<1>6. s = AtRest => s.at = "idle" /\ s.counter = 0
    BY DEF AtRest
<1>7. ReadersCurrent'
    BY <1>1, <1>2, <1>3, <1>6 DEF ReadersCurrent, Held, Usable
<1>8. HeldApart'
    BY <1>1, <1>3 DEF HeldApart, Held
<1>9. CountersReserved'
    BY <1>1, <1>2, <1>3, <1>6 DEF CountersReserved, MovesOn
<1>10. VersionsRead'
    BY <1>1, <1>2, <1>3 DEF VersionsRead
<1>11. CounterOnce'
    <2>1. s = AtRest \/ s.counter = sealing[w].counter
        BY <1>1
    <2>2. sealing[w].counter # 0
        BY DEF MovesOn, CountersReserved
    <2>3. \A v \in Sealers : sealing'[v].at # "idle" =>
             sealing[v].at # "idle" /\ sealing'[v].counter = sealing[v].counter
        BY <1>1, <1>3, <1>6 DEF MovesOn
    <2>4. \A v \in Sealers : sealing'[v].counter \in {0, sealing[v].counter}
        BY <1>1, <1>3, <1>6
    <2>5. \A v \in Sealers : sealing'[v].at # "idle" => sealing'[v].counter # 0
        BY <2>3 DEF CountersReserved
    <2> QED BY <1>2, <2>3, <2>4, <2>5 DEF CounterOnce
<1> QED BY <1>2, <1>4, <1>5, <1>7, <1>8, <1>9, <1>10, <1>11 DEF AadRebuilt

LEMMA ReadVersionKeepsInv == ASSUME LaneInv, NEW w \in Sealers, ReadVersion(w) PROVE LaneInv'
<1>1. sealing[w] \in Calls /\ lane_version \in Versions
    BY DEF LaneInv, Typed
<1> DEFINE s == [sealing[w] EXCEPT !.at = "versioned", !.version = lane_version]
<1>2. s \in Calls /\ s.at = "versioned" /\ s.counter = sealing[w].counter /\ s.version = lane_version
    BY <1>1 DEF Calls, Places
<1>3. MovesOn(w)
    BY <1>2 DEF MovesOn, ReadVersion, Becomes
<1> QED BY <1>3, MoveKeepsInv

LEMMA KeysReadKeepsInv == ASSUME LaneInv, NEW w \in Sealers, keys_read(w) PROVE LaneInv'
<1>1. sealing[w] \in Calls /\ current_self \in Keyed /\ sealing[w].version = lane_version
    BY DEF LaneInv, Typed, VersionsRead, keys_read
<1> DEFINE s == [sealing[w] EXCEPT !.at = "keyed", !.keyed = current_self]
<1>2. /\ s \in Calls /\ s.at = "keyed" /\ s.counter = sealing[w].counter /\ s.version = lane_version
      /\ s.keyed = current_self
    BY <1>1 DEF Calls, Places
<1>3. MovesOn(w)
    BY <1>2 DEF MovesOn, keys_read, Becomes
<1> QED BY <1>3, MoveKeepsInv

\* A call that fails gives its counter up and leaves the rest alone.
LEMMA FailuresKeepInv ==
    ASSUME LaneInv, NEW w \in Sealers, NoKey(w) \/ BuildFails(w) \/ EncryptFails(w)
    PROVE  LaneInv'
<1>1. AtRest \in Calls /\ AtRest.at = "idle"
    BY KeyedTypes DEF AtRest
<1>2. MovesOn(w)
    BY <1>1 DEF MovesOn, NoKey, BuildFails, EncryptFails, Fails, Becomes
<1> QED BY <1>2, MoveKeepsInv

\* A counter is reserved by one thread, above all that were reserved before.
LEMMA ReserveKeepsInv ==
    ASSUME LaneInv, NEW w \in Sealers, NEW encoded \in BOOLEAN, reserve_counter(w, encoded)
    PROVE  LaneInv'
<1> USE DEF LaneInv, reserve_counter, Becomes
<1> DEFINE s == [AtRest EXCEPT !.at = "counted", !.counter = wire_counter + 1, !.encoded = encoded]
<1>1. wire_counter \in Nat /\ wire_counter' = wire_counter + 1 /\ wire_counter' \in 0..MaxReserved
    BY LaneAssumption DEF Typed
<1>2. s \in Calls /\ s.at = "counted" /\ s.counter = wire_counter + 1
    <2>1. AtRest \in Calls /\ wire_counter + 1 \in Nat
        BY <1>1, KeyedTypes
    <2> QED BY <2>1 DEF Calls, Places
<1>3. sealing' \in [Sealers -> Calls] /\ sealing'[w] = s /\ \A v \in Sealers \ {w} : sealing'[v] = sealing[v]
    BY <1>2 DEF Typed
<1>4. Typed'
    BY <1>1, <1>3 DEF Typed
<1>5. PoolsApart' /\ SlotPools'
    BY DEF PoolsApart, SlotPools
<1>6. ReadersCurrent' /\ HeldApart' /\ VersionsRead'
    BY <1>2, <1>3 DEF ReadersCurrent, HeldApart, VersionsRead, Held
<1>7. CountersReserved'
    BY <1>1, <1>2, <1>3 DEF CountersReserved
<1>8. CounterOnce'
    <2>1. \A v \in Sealers : sealing[v].counter # wire_counter + 1
        BY <1>1 DEF CountersReserved
    <2>2. \A f \in frames : f.counter # wire_counter + 1
        BY <1>1 DEF CountersReserved
    <2> QED BY <1>2, <1>3, <2>1, <2>2 DEF CounterOnce
<1> QED BY <1>4, <1>5, <1>6, <1>7, <1>8 DEF AadRebuilt

\* A cipher taken from a pool leaves it; one that is built is new.
LEMMA TakeKeepsInv == ASSUME LaneInv, NEW w \in Sealers, take(w) PROVE LaneInv'
<1> DEFINE p == sealing[w].keyed.pool
<1>1. /\ sealing[w].at = "keyed" /\ sealing[w] \in Calls
      /\ UNCHANGED <<lane_version, wire_counter, current_self, next_self, frames, staged>>
    BY DEF LaneInv, Typed, take
<1>2. /\ sealing[w].keyed = current_self /\ Usable(current_self)
      /\ p \in 1..Len(pools) /\ \A c \in pools[p] : built[c] = current_self.key
      /\ next_self # NoKeyed => next_self.pool # p
    BY <1>1 DEF LaneInv, ReadersCurrent, SlotPools, Usable
<1>3. /\ Len(pools) \in Nat /\ Len(built) \in Nat
      /\ \A n \in 1..Len(pools) : pools[n] \subseteq 1..Len(built) /\ pools[n] \subseteq Nat
    BY DEF LaneInv, Typed, PoolsApart
\* What both ways of getting a cipher have in common.
<1>4. ASSUME NEW c \in 1..Len(built'),
             sealing' = [sealing EXCEPT ![w] = [sealing[w] EXCEPT !.at = "cipher", !.cipher = c]],
             built' \in Seq(Keys), Len(built') >= Len(built),
             \A d \in 1..Len(built) : built'[d] = built[d],
             built'[c] = current_self.key,
             pools' \in Seq(SUBSET Nat), Len(pools') = Len(pools),
             \A n \in 1..Len(pools) : pools'[n] \subseteq pools[n] /\ c \notin pools'[n],
             \A n \in 1..Len(pools) : Cardinality(pools'[n]) <= MAX_POOLED,
             \A v \in Sealers : Held(v) => sealing[v].cipher # c
      PROVE  LaneInv'
    <2> DEFINE s == [sealing[w] EXCEPT !.at = "cipher", !.cipher = c]
    <2>1. Len(built') \in Nat /\ c \in Nat
        BY <1>4
    <2>2. /\ s \in Calls /\ s.at = "cipher" /\ s.cipher = c
          /\ s.counter = sealing[w].counter /\ s.version = sealing[w].version /\ s.keyed = current_self
        BY <1>1, <1>2, <2>1 DEF Calls, Places
    <2>3. sealing' \in [Sealers -> Calls] /\ sealing'[w] = s /\ \A v \in Sealers \ {w} : sealing'[v] = sealing[v]
        BY <1>4, <2>2 DEF LaneInv, Typed
    <2> HIDE DEF s
    <2>4. Typed'
        BY <1>1, <1>4, <2>3 DEF LaneInv, Typed
    <2>5. PoolsApart'
        <3>1. \A n \in 1..Len(pools) : pools'[n] \subseteq 1..Len(built')
            BY <1>3, <1>4, <2>1
        <3> QED BY <1>4, <3>1 DEF LaneInv, PoolsApart
    <2>6. SlotPools'
        <3>1. ASSUME NEW k \in {current_self, next_self}, k # NoKeyed
              PROVE  k.pool \in 1..Len(pools') /\ \A d \in pools'[k.pool] : built'[d] = k.key
            <4>1. k.pool \in 1..Len(pools) /\ \A d \in pools[k.pool] : built[d] = k.key
                BY <3>1 DEF LaneInv, SlotPools
            <4> QED BY <1>3, <1>4, <4>1
        <3> QED BY <1>1, <3>1 DEF LaneInv, SlotPools
    <2>7. ReadersCurrent'
        <3>1. ASSUME NEW v \in Sealers, v # w, sealing[v].at = "cipher"
              PROVE  /\ sealing[v].cipher \in 1..Len(built') /\ built'[sealing[v].cipher] = current_self.key
                     /\ \A n \in 1..Len(pools) : sealing[v].cipher \notin pools'[n]
            BY <1>3, <1>4, <2>1, <3>1 DEF LaneInv, ReadersCurrent, Held
        <3>2. \A v \in Sealers : sealing'[v].at \in {"keyed", "cipher"} =>
                 sealing'[v].keyed = current_self /\ Usable(current_self)
            BY <1>2, <2>2, <2>3 DEF LaneInv, ReadersCurrent
        <3> QED BY <1>1, <1>4, <2>2, <2>3, <3>1, <3>2 DEF ReadersCurrent, Held, Usable
    <2>8. HeldApart'
        BY <1>4, <2>2, <2>3 DEF LaneInv, HeldApart, Held
    <2>9. CountersReserved' /\ VersionsRead' /\ CounterOnce'
        BY <1>1, <2>2, <2>3 DEF LaneInv, CountersReserved, VersionsRead, CounterOnce
    <2> QED BY <1>1, <2>4, <2>5, <2>6, <2>7, <2>8, <2>9 DEF LaneInv, AadRebuilt
<1>5. ASSUME NEW c \in pools[p], pools' = Without(p, c), built' = built,
             sealing' = [sealing EXCEPT ![w] = [sealing[w] EXCEPT !.at = "cipher", !.cipher = c]]
      PROVE  LaneInv'
    <2>1. /\ pools' \in Seq(SUBSET Nat) /\ Len(pools') = Len(pools)
          /\ pools'[p] = pools[p] \ {c} /\ \A n \in (1..Len(pools)) \ {p} : pools'[n] = pools[n]
        BY <1>2, <1>3, <1>5 DEF Without, LaneInv, Typed
    <2>2. c \in 1..Len(built) /\ built[c] = current_self.key
        BY <1>2, <1>3
    <2>3. \A n \in 1..Len(pools) : pools'[n] \subseteq pools[n] /\ c \notin pools'[n]
        BY <1>2, <2>1 DEF LaneInv, PoolsApart
    <2>4. \A n \in 1..Len(pools) : Cardinality(pools'[n]) <= MAX_POOLED
        <3>1. pools[p] \subseteq 1..Len(built) /\ Len(built) \in Nat
            BY <1>2, <1>3
        <3>2. Cardinality(pools[p] \ {c}) = Cardinality(pools[p]) - 1 /\ Cardinality(pools[p]) \in Nat
            BY <3>1, PoolSizes
        <3>3. Cardinality(pools'[p]) <= Cardinality(pools[p])
            BY <2>1, <3>2
        <3>4. \A n \in 1..Len(pools) : Cardinality(pools[n]) <= MAX_POOLED
            BY DEF LaneInv, PoolsApart
        <3>5. Cardinality(pools'[p]) \in Nat
            BY <2>1, <3>1, PoolSizes
        <3>6. Cardinality(pools'[p]) <= MAX_POOLED
            BY <1>2, <3>2, <3>3, <3>4, <3>5, LaneAssumption
        <3> QED BY <2>1, <3>4, <3>6
    <2>5. \A v \in Sealers : Held(v) => sealing[v].cipher # c
        BY <1>2 DEF LaneInv, ReadersCurrent
    <2>6. built' \in Seq(Keys) /\ Len(built') >= Len(built) /\ c \in 1..Len(built')
        BY <1>3, <1>5, <2>2 DEF LaneInv, Typed
    <2> QED BY <1>4, <1>5, <2>1, <2>2, <2>3, <2>4, <2>5, <2>6
<1>6. ASSUME pools' = pools, built' = Append(built, sealing[w].keyed.key),
             sealing' = [sealing EXCEPT ![w] = [sealing[w] EXCEPT !.at = "cipher", !.cipher = Len(built) + 1]]
      PROVE  LaneInv'
    <2> DEFINE c == Len(built) + 1
    <2>1. current_self.key \in Keys
        BY DEF LaneInv, Typed, Keyed
    <2>2. /\ built' \in Seq(Keys) /\ Len(built') = c /\ built'[c] = current_self.key
          /\ \A d \in 1..Len(built) : built'[d] = built[d]
        BY <1>2, <1>6, <2>1 DEF LaneInv, Typed
    <2>3. \A n \in 1..Len(pools) : c \notin pools[n]
        BY <1>3
    <2>4. \A v \in Sealers : Held(v) => sealing[v].cipher # c
        BY <1>3 DEF LaneInv, ReadersCurrent
    <2>5. c \in 1..Len(built') /\ Len(built') >= Len(built)
        BY <1>3, <2>2
    <2>6. \A n \in 1..Len(pools) : Cardinality(pools'[n]) <= MAX_POOLED
        BY <1>6 DEF LaneInv, PoolsApart
    <2> QED BY <1>4, <1>6, <2>2, <2>3, <2>4, <2>5, <2>6 DEF LaneInv, Typed
<1> QED BY <1>5, <1>6 DEF take, Becomes

\* A cipher given back goes to the pool of the current key, if it has room.
LEMMA GiveBackKeepsInv == ASSUME LaneInv, NEW w \in Sealers, give_back(w) PROVE LaneInv'
<1> DEFINE p == sealing[w].keyed.pool
           c == sealing[w].cipher
           s == [sealing[w] EXCEPT !.at = "sealed"]
<1>1. /\ Held(w) /\ sealing[w] \in Calls
      /\ UNCHANGED <<lane_version, wire_counter, current_self, next_self, built, frames, staged>>
    BY DEF LaneInv, Typed, give_back, Held
<1>2. /\ sealing[w].keyed = current_self
      /\ p \in 1..Len(pools) /\ \A d \in pools[p] : built[d] = current_self.key
      /\ next_self # NoKeyed => next_self.pool # p
      /\ c \in 1..Len(built) /\ built[c] = current_self.key /\ \A n \in 1..Len(pools) : c \notin pools[n]
    BY <1>1 DEF LaneInv, ReadersCurrent, SlotPools, Usable, Held
<1>3. /\ Len(pools) \in Nat /\ Len(built) \in Nat /\ c \in Nat
      /\ \A n \in 1..Len(pools) : pools[n] \subseteq 1..Len(built) /\ pools[n] \subseteq Nat
    BY <1>2 DEF LaneInv, Typed, PoolsApart
<1>4. /\ s \in Calls /\ s.at = "sealed" /\ s.counter = sealing[w].counter /\ s.version = sealing[w].version
    BY <1>1 DEF Calls, Places
<1>5. sealing' \in [Sealers -> Calls] /\ sealing'[w] = s /\ \A v \in Sealers \ {w} : sealing'[v] = sealing[v]
    BY <1>4 DEF LaneInv, Typed, give_back, Becomes
<1> HIDE DEF s
<1>6. /\ pools' \in Seq(SUBSET Nat) /\ Len(pools') = Len(pools)
      /\ \A n \in (1..Len(pools)) \ {p} : pools'[n] = pools[n]
      /\ pools'[p] = pools[p] \/ (pools'[p] = pools[p] \cup {c} /\ PoolHasRoom(p))
    <2>1. pools' = IF PoolHasRoom(p) THEN [pools EXCEPT ![p] = @ \cup {c}] ELSE pools
        BY DEF give_back
    <2>2. pools \in Seq(SUBSET Nat) /\ pools[p] \cup {c} \in SUBSET Nat
        BY <1>2, <1>3 DEF LaneInv, Typed
    <2>3. CASE PoolHasRoom(p)
        BY <1>2, <1>3, <2>1, <2>2, <2>3
    <2>4. CASE ~PoolHasRoom(p)
        <3>1. pools' = pools
            BY <2>1, <2>4
        <3> QED BY <2>2, <3>1
    <2> QED BY <2>3, <2>4
<1>7. Typed'
    BY <1>1, <1>5, <1>6 DEF LaneInv, Typed
<1>8. PoolsApart'
    <2>1. Cardinality(pools'[p]) <= MAX_POOLED
        <3>1. pools[p] \subseteq 1..Len(built) /\ Len(built) \in Nat /\ c \notin pools[p]
            BY <1>2, <1>3
        <3>2. Cardinality(pools[p] \cup {c}) = Cardinality(pools[p]) + 1 /\ Cardinality(pools[p]) \in Nat
            BY <3>1, PoolSizes
        <3>3. Cardinality(pools[p]) <= MAX_POOLED
            BY <1>2 DEF LaneInv, PoolsApart
        <3>4. PoolHasRoom(p) => Cardinality(pools[p] \cup {c}) <= MAX_POOLED
            BY <3>2, LaneAssumption DEF PoolHasRoom
        <3> QED BY <1>6, <3>3, <3>4
    <2>2. \A n \in 1..Len(pools) : pools'[n] \subseteq 1..Len(built)
        BY <1>2, <1>3, <1>6
    <2>3. \A m, n \in 1..Len(pools) : m # n => pools'[m] \cap pools'[n] = {}
        BY <1>2, <1>6, SMTT(30) DEF LaneInv, PoolsApart
    <2>4. \A n \in 1..Len(pools) : Cardinality(pools'[n]) <= MAX_POOLED
        BY <1>6, <2>1 DEF LaneInv, PoolsApart
    <2> QED BY <1>1, <1>6, <2>2, <2>3, <2>4 DEF PoolsApart
<1>9. SlotPools'
    <2>1. ASSUME NEW k \in {current_self, next_self}, k # NoKeyed
          PROVE  k.pool \in 1..Len(pools') /\ \A d \in pools'[k.pool] : built[d] = k.key
        BY <1>2, <1>6, <2>1 DEF LaneInv, SlotPools
    <2> QED BY <1>1, <2>1 DEF LaneInv, SlotPools
<1>10. ReadersCurrent'
    <2>1. ASSUME NEW v \in Sealers, v # w, Held(v)
          PROVE  \A n \in 1..Len(pools) : sealing[v].cipher \notin pools'[n]
        <3>1. sealing[v].cipher # c /\ \A n \in 1..Len(pools) : sealing[v].cipher \notin pools[n]
            BY <1>1, <2>1 DEF LaneInv, HeldApart, ReadersCurrent
        <3> QED BY <1>6, <3>1
    <2> QED BY <1>1, <1>4, <1>5, <1>6, <2>1 DEF LaneInv, ReadersCurrent, Held, Usable
<1>11. HeldApart'
    BY <1>4, <1>5 DEF LaneInv, HeldApart, Held
<1>12. CountersReserved' /\ VersionsRead' /\ CounterOnce'
    BY <1>1, <1>4, <1>5 DEF LaneInv, CountersReserved, VersionsRead, CounterOnce, Held
<1> QED BY <1>1, <1>7, <1>8, <1>9, <1>10, <1>11, <1>12 DEF LaneInv, AadRebuilt

\* A frame carries the counter of the call that made it, which ends with it,
\* and associated data of the version in force.
LEMMA AppendKeepsInv == ASSUME LaneInv, NEW w \in Sealers, append_frame(w) PROVE LaneInv'
<1> DEFINE f == Frame(sealing[w])
<1>1. /\ sealing[w].at = "sealed" /\ sealing' = [sealing EXCEPT ![w] = AtRest] /\ frames' = frames \cup {f}
      /\ UNCHANGED <<lane_version, wire_counter, current_self, next_self, pools, built, staged>>
    BY DEF append_frame, Becomes
<1>2. AtRest \in Calls /\ AtRest.at = "idle" /\ AtRest.counter = 0
    BY KeyedTypes DEF AtRest
<1>3. sealing' \in [Sealers -> Calls] /\ sealing'[w] = AtRest /\ \A v \in Sealers \ {w} : sealing'[v] = sealing[v]
    BY <1>1, <1>2 DEF LaneInv, Typed
<1>4. /\ f.counter = sealing[w].counter /\ f.encoded = sealing[w].encoded
      /\ f.aad = build_aad(lane_version, f.counter, f.encoded)
    BY <1>1 DEF Frame, LaneInv, VersionsRead
<1>5. f.counter \in 1..wire_counter /\ \A g \in frames : g.counter # f.counter
    BY <1>1, <1>4 DEF LaneInv, CountersReserved, CounterOnce
<1> HIDE DEF f
<1>6. Typed' /\ PoolsApart' /\ SlotPools'
    <2>1. Typed'
        BY <1>1, <1>3 DEF LaneInv, Typed
    <2>2. PoolsApart' /\ SlotPools'
        BY <1>1 DEF LaneInv, PoolsApart, SlotPools
    <2> QED BY <2>1, <2>2
<1>7. ReadersCurrent' /\ HeldApart' /\ VersionsRead'
    <2>1. ReadersCurrent'
        BY <1>1, <1>2, <1>3 DEF LaneInv, ReadersCurrent, Held, Usable
    <2>2. HeldApart'
        BY <1>2, <1>3 DEF LaneInv, HeldApart, Held
    <2>3. VersionsRead'
        BY <1>1, <1>2, <1>3 DEF LaneInv, VersionsRead
    <2> QED BY <2>1, <2>2, <2>3
<1>8. CountersReserved'
    BY <1>1, <1>2, <1>3, <1>5 DEF LaneInv, CountersReserved
<1>9. CounterOnce'
    <2>1. \A v \in Sealers \ {w} : sealing[v].at # "idle" => sealing[v].counter # f.counter /\ sealing[v].counter # 0
        BY <1>1, <1>4 DEF LaneInv, CounterOnce, CountersReserved
    <2> QED BY <1>1, <1>2, <1>3, <1>5, <2>1 DEF LaneInv, CounterOnce
<1>10. AadRebuilt'
    BY <1>1, <1>4 DEF LaneInv, AadRebuilt
<1> QED BY <1>6, <1>7, <1>8, <1>9, <1>10 DEF LaneInv

\* Every step keeps the inductive invariant.
LEMMA LaneInvStep == LaneInv /\ [LaneNext]_laneVars => LaneInv'
<1> SUFFICES ASSUME LaneInv, [LaneNext]_laneVars PROVE LaneInv'
    OBVIOUS
<1>1. CASE UNCHANGED laneVars
    BY <1>1 DEF laneVars, LaneInv, Typed, PoolsApart, SlotPools, ReadersCurrent, HeldApart, CountersReserved,
        VersionsRead, CounterOnce, AadRebuilt, Held, Usable
<1>2. ASSUME NEW key \in LaneKeys \cup {INVALID}, update_next_self_key(key) PROVE LaneInv'
    BY <1>2, StageKeepsInv DEF Keys
<1>3. ASSUME NEW w \in Sealers,
             \/ ReadVersion(w) \/ NoKey(w) \/ keys_read(w) \/ take(w) \/ BuildFails(w)
             \/ give_back(w) \/ append_frame(w) \/ EncryptFails(w)
      PROVE  LaneInv'
    BY <1>3, ReadVersionKeepsInv, KeysReadKeepsInv, FailuresKeepInv, TakeKeepsInv, GiveBackKeepsInv, AppendKeepsInv
<1> QED
    BY <1>1, <1>2, <1>3, PromoteKeepsInv, SetVersionKeepsInv, ReserveKeepsInv DEF LaneNext

\* Sealing is safe for any number of threads and keys (session.rs,
\* try_append_to_wire): a cipher is never shared, a counter never used twice,
\* nothing is sealed under a replaced key, and the peer can rebuild the
\* associated data of every frame.
THEOREM LaneIsSafe == LaneSpec => []LaneSafe
<1>1. LaneSpec => []LaneInv
    BY LaneInvInit, LaneInvStep, PTL DEF LaneSpec
<1> QED BY <1>1, LaneInvSafe, PTL

-----------------------------------------------------------------------------
(* The keepalive task.                                                     *)

\* While the timeout runs on an Online tunnel whose path is up, something is
\* under way that clears it.
Awaited == timely /\ timeout # Off /\ online /\ ~down => AnswerUnderWay

\* Appending keeps what a queue holds, and adds the appended message.
LEMMA HoldsAppend ==
    ASSUME NEW S, NEW q \in Seq(S), NEW x \in S, NEW m
    PROVE  Holds(Append(q, x), m) <=> Holds(q, m) \/ x = m
<1>1. Len(Append(q, x)) = Len(q) + 1 /\ Append(q, x)[Len(q) + 1] = x
    OBVIOUS
<1>2. \A i \in 1..Len(q) : Append(q, x)[i] = q[i]
    OBVIOUS
<1>3. Len(q) \in Nat
    OBVIOUS
<1>4. ASSUME Holds(Append(q, x), m) PROVE Holds(q, m) \/ x = m
    BY <1>1, <1>2, <1>3, <1>4 DEF Holds
<1>5. ASSUME Holds(q, m) \/ x = m PROVE Holds(Append(q, x), m)
    BY <1>1, <1>2, <1>3, <1>5 DEF Holds
<1> QED BY <1>4, <1>5

\* Taking the head of a queue loses the head and nothing else.
LEMMA HoldsTail ==
    ASSUME NEW S, NEW q \in Seq(S), q # <<>>, NEW m
    PROVE  Holds(q, m) => Holds(Tail(q), m) \/ Head(q) = m
<1>1. Len(q) \in Nat \ {0} /\ Len(Tail(q)) = Len(q) - 1 /\ Head(q) = q[1]
    OBVIOUS
<1>2. \A i \in 1..Len(Tail(q)) : Tail(q)[i] = q[i + 1]
    OBVIOUS
<1> SUFFICES ASSUME NEW i \in 1..Len(q), q[i] = m, i # 1
             PROVE  Holds(Tail(q), m)
    BY <1>1 DEF Holds
<1>3. i - 1 \in 1..Len(Tail(q)) /\ Tail(q)[i - 1] = m
    BY <1>1, <1>2
<1> QED BY <1>3 DEF Holds

\* The type invariant is inductive by itself.
LEMMA TypeInductive == KeepaliveTypeOK /\ [KeepaliveNext]_keepaliveVars => KeepaliveTypeOK'
<1> SUFFICES ASSUME KeepaliveTypeOK, [KeepaliveNext]_keepaliveVars PROVE KeepaliveTypeOK'
    OBVIOUS
<1> USE KeepaliveAssumption
<1>0. Intervals \in Nat /\ Off \in Nat /\ Off = Intervals + 1 /\ MaxPongs \in Nat
    BY DEF Off
<1>1. CASE Handle
    <2>1. \A m : Take(m) => rx' \in Seq(Messages)
        BY DEF Take, KeepaliveTypeOK
    <2>2. \A m : Take(m) => UNCHANGED <<result, continuous, timely, online, down, pongs, events, heard, calls>>
        BY DEF Take, path
    <2>3. CASE HandleOnline
        BY <2>1, <2>2, <2>3 DEF HandleOnline, KeepaliveTypeOK, States
    <2>4. CASE HandleOutsideActivity
        BY <1>0, <2>1, <2>2, <2>4 DEF HandleOutsideActivity, KeepaliveTypeOK
    <2>5. CASE HandleReplyReceived
        BY <1>0, <2>1, <2>2, <2>5 DEF HandleReplyReceived, KeepaliveTypeOK, States
    <2>6. CASE HandleNetworkChange
        BY <1>0, <2>1, <2>2, <2>6 DEF HandleNetworkChange, KeepaliveTypeOK, States
    <2>7. CASE HandleTracerDeltaExceeded
        BY <2>1, <2>2, <2>7 DEF HandleTracerDeltaExceeded, KeepaliveTypeOK, States
    <2>8. CASE HandleSuspend
        BY <1>0, <2>1, <2>2, <2>8 DEF HandleSuspend, KeepaliveTypeOK, States
    <2> QED BY <1>1, <2>3, <2>4, <2>5, <2>6, <2>7, <2>8 DEF Handle
<1>2. Pinged \in Nat
    BY <1>0 DEF Pinged, KeepaliveTypeOK
<1>3. \A t \in 0..Off : Armed(t) \in 0..Off /\ Passed(t) \in 0..Off
    BY <1>0 DEF Armed, Passed
<1>4. CASE SendNeeded
    BY <1>2, <1>3, <1>4 DEF SendNeeded, KeepaliveTypeOK, States
<1>5. CASE SendInterval
    BY <1>2, <1>3, <1>5 DEF SendInterval, KeepaliveTypeOK, States
<1>6. CASE TimePasses
    BY <1>0, <1>6 DEF TimePasses, KeepaliveTypeOK, path
<1>7. CASE TimeoutElapses
    BY <1>7 DEF TimeoutElapses, KeepaliveTypeOK, path, Results
<1>8. CASE Cancel
    BY <1>8 DEF Cancel, KeepaliveTypeOK, path, Results
<1>9. CASE OutsideActivity
    <2>1. rx' \in Seq(Messages)
        BY <1>9 DEF OutsideActivity, KeepaliveTypeOK, Messages
    <2>2. heard' \in BOOLEAN
        BY <1>9, Zenon DEF OutsideActivity
    <2> QED BY <1>9, <2>1, <2>2 DEF OutsideActivity, KeepaliveTypeOK, task
<1>10. CASE GoOnline
    BY <1>10 DEF GoOnline, KeepaliveTypeOK, task, Events
<1>11. CASE PongArrives
    BY <1>11 DEF PongArrives, KeepaliveTypeOK, task, Events
<1>12. CASE ForwardEvent
    BY <1>12 DEF ForwardEvent, KeepaliveTypeOK, task, Events, Messages
<1>13. CASE Traffic
    BY <1>13 DEF Traffic, KeepaliveTypeOK, task
<1>14. CASE PathDown
    BY <1>14 DEF PathDown, KeepaliveTypeOK, task
<1>15. ASSUME NEW m \in AppMessages, Call(m) PROVE KeepaliveTypeOK'
    BY <1>15 DEF Call, KeepaliveTypeOK, task, Messages
<1>16. CASE UNCHANGED keepaliveVars
    BY <1>16 DEF keepaliveVars, KeepaliveTypeOK
<1> QED
    BY <1>1, <1>4, <1>5, <1>6, <1>7, <1>8, <1>9, <1>10, <1>11, <1>12, <1>13, <1>14, <1>15, <1>16 DEF KeepaliveNext

\* The type invariant holds initially.
LEMMA TypeInit == KeepaliveInit => KeepaliveTypeOK
<1> SUFFICES ASSUME KeepaliveInit PROVE KeepaliveTypeOK
    OBVIOUS
<1>1. timeout \in 0..Off /\ pongs \in Nat /\ calls \in Nat
    BY KeepaliveAssumption DEF KeepaliveInit, Off
<1>2. online \in BOOLEAN /\ down \in BOOLEAN /\ heard \in BOOLEAN
    BY Zenon DEF KeepaliveInit
<1>3. /\ state \in States /\ result \in Results
      /\ continuous \in BOOLEAN /\ timely \in BOOLEAN
    BY DEF KeepaliveInit, States, Results
<1>4. rx \in Seq(Messages) /\ events \in Seq(Events)
    BY DEF KeepaliveInit
<1> QED BY <1>1, <1>2, <1>3, <1>4 DEF KeepaliveTypeOK

\* Type correctness of the task and of what surrounds it.
THEOREM KeepaliveTypes == KeepaliveSpec => []KeepaliveTypeOK
BY TypeInit, TypeInductive, PTL DEF KeepaliveSpec

\* No step starts the timeout but into Pending, and none leaves Pending with the
\* timeout running.
LEMMA PendingInductive == KeepaliveTypeOK /\ TimeoutOnlyPending /\ [KeepaliveNext]_keepaliveVars => TimeoutOnlyPending'
<1> SUFFICES ASSUME KeepaliveTypeOK, TimeoutOnlyPending, [KeepaliveNext]_keepaliveVars PROVE TimeoutOnlyPending'
    OBVIOUS
<1> USE DEF TimeoutOnlyPending
<1>1. CASE Handle
    BY <1>1 DEF Handle, HandleOnline, HandleOutsideActivity, HandleReplyReceived,
        HandleNetworkChange, HandleTracerDeltaExceeded, HandleSuspend
<1>2. CASE SendNeeded \/ SendInterval
    BY <1>2 DEF SendNeeded, SendInterval
<1>3. CASE TimePasses \/ TimeoutElapses \/ Cancel
    BY <1>3, KeepaliveAssumption DEF TimePasses, TimeoutElapses, Cancel, Off
<1>4. CASE GoOnline \/ PongArrives \/ Traffic \/ OutsideActivity \/ ForwardEvent \/ PathDown
    BY <1>4 DEF GoOnline, PongArrives, Traffic, OutsideActivity, ForwardEvent, PathDown, task
<1>5. ASSUME NEW m \in AppMessages, Call(m) PROVE TimeoutOnlyPending'
    BY <1>5 DEF Call, task
<1>6. CASE UNCHANGED keepaliveVars
    BY <1>6 DEF keepaliveVars
<1> QED BY <1>1, <1>2, <1>3, <1>4, <1>5, <1>6 DEF KeepaliveNext

\* The note above the timeout branch of keepalive(): through any sequence of
\* messages and timers, the timeout runs only in state Pending.
THEOREM OnlyPending == KeepaliveSpec => []TimeoutOnlyPending
<1>1. KeepaliveInit => TimeoutOnlyPending
    BY DEF KeepaliveInit, TimeoutOnlyPending
<1> QED BY <1>1, PendingInductive, KeepaliveTypes, PTL DEF KeepaliveSpec

\* What is under way to clear the timeout stays under way until it does.
LEMMA AwaitedInductive == KeepaliveTypeOK /\ Awaited /\ [KeepaliveNext]_keepaliveVars => Awaited'
<1> SUFFICES ASSUME KeepaliveTypeOK, Awaited, [KeepaliveNext]_keepaliveVars, timely', timeout' # Off, online', ~down'
             PROVE  AnswerUnderWay'
    BY DEF Awaited
<1> USE KeepaliveAssumption
<1>0. rx \in Seq(Messages) /\ events \in Seq(Events) /\ pongs \in Nat
    BY DEF KeepaliveTypeOK
<1>t. timely
    <2>1. timely' = timely
        BY DEF KeepaliveNext, keepaliveVars, Handle, HandleOnline, HandleOutsideActivity, HandleReplyReceived,
            HandleNetworkChange, HandleTracerDeltaExceeded, HandleSuspend, Take, SendNeeded,
            SendInterval, TimePasses, TimeoutElapses, Cancel, GoOnline, PongArrives, Traffic,
            OutsideActivity, ForwardEvent, PathDown, Call, task
    <2> QED BY <2>1, Zenon
<1>1. CASE Handle
    <2>1. \A m : Take(m) => /\ rx # <<>> /\ Head(rx) = m /\ rx' = Tail(rx)
                            /\ UNCHANGED <<online, down, pongs, events, heard>>
        BY DEF Take, path
    <2>2. CASE HandleOnline \/ HandleTracerDeltaExceeded
        <3>1. AnswerUnderWay
            BY <1>t, <2>1, <2>2 DEF HandleOnline, HandleTracerDeltaExceeded, Awaited
        <3>2. ASSUME NEW a \in {"ReplyReceived", "OutsideActivity"}, Holds(rx, a)
              PROVE  Holds(rx', a)
            <4>0. PICK m \in {"Online", "TracerDeltaExceeded"} : Take(m)
                BY <2>2 DEF HandleOnline, HandleTracerDeltaExceeded
            <4>1. rx # <<>> /\ rx' = Tail(rx) /\ Head(rx) # a
                BY <4>0 DEF Take
            <4>2. Holds(Tail(rx), a) \/ Head(rx) = a
                BY <1>0, <3>2, <4>1, HoldsTail
            <4> QED BY <4>1, <4>2
        <3>3. UNCHANGED <<online, down, pongs, events, heard>>
            BY <2>1, <2>2 DEF HandleOnline, HandleTracerDeltaExceeded
        <3> QED BY <3>1, <3>2, <3>3 DEF AnswerUnderWay
    <2> QED BY <1>1, <2>2 DEF Handle, HandleOutsideActivity, HandleReplyReceived,
                HandleNetworkChange, HandleSuspend
<1>2. CASE SendNeeded \/ SendInterval
    <2>0. online' = online /\ down' = down /\ pongs' = Pinged
        BY <1>2 DEF SendNeeded, SendInterval
    <2>1. online /\ ~down
        BY <2>0, Zenon
    <2>2. pongs' > 0
        BY <1>0, <2>0, <2>1 DEF Pinged
    <2> QED BY <2>2 DEF AnswerUnderWay
<1>3. CASE TimePasses \/ TimeoutElapses \/ Cancel
    <2>1. UNCHANGED <<online, down, pongs, events, heard, rx>>
        BY <1>3 DEF TimePasses, TimeoutElapses, Cancel, path
    <2>2. timeout # Off
        <3>1. CASE TimePasses
            BY <3>1 DEF TimePasses, Off
        <3>2. CASE TimeoutElapses \/ Cancel
            <4>1. timeout' = timeout
                BY <3>2 DEF TimeoutElapses, Cancel
            <4> QED BY <4>1
        <3> QED BY <1>3, <3>1, <3>2
    <2> QED BY <1>t, <2>1, <2>2 DEF Awaited, AnswerUnderWay, Holds
<1>4. CASE GoOnline
    BY <1>4 DEF GoOnline, AnswerUnderWay
<1>5. CASE PongArrives \/ Traffic
    BY <1>5 DEF PongArrives, Traffic, AnswerUnderWay
<1>6. CASE ForwardEvent
    <2>1. AnswerUnderWay
        BY <1>6, <1>t DEF ForwardEvent, task, Awaited
    <2>2. events # <<>> /\ rx' = Append(rx, Head(events)) /\ events' = Tail(events)
        BY <1>6 DEF ForwardEvent
    <2>3. Head(events) \in Messages
        BY <1>0, <2>2 DEF Messages
    <2>4. \A a : Holds(rx', a) <=> Holds(rx, a) \/ Head(events) = a
        BY <1>0, <2>2, <2>3, HoldsAppend
    <2>5. Holds(events, "ReplyReceived") => Holds(events', "ReplyReceived") \/ Head(events) = "ReplyReceived"
        BY <1>0, <2>2, HoldsTail
    <2>6. UNCHANGED <<down, pongs, heard>>
        BY <1>6 DEF ForwardEvent
    <2> QED BY <2>1, <2>4, <2>5, <2>6 DEF AnswerUnderWay
<1>7. CASE OutsideActivity
    <2>1. rx' = Append(rx, "OutsideActivity")
        BY <1>7, <1>t DEF OutsideActivity
    <2>2. Holds(rx', "OutsideActivity")
        BY <1>0, <2>1, HoldsAppend DEF Messages
    <2> QED BY <2>2 DEF AnswerUnderWay
<1>8. CASE PathDown
    BY <1>8 DEF PathDown
<1>9. ASSUME NEW m \in AppMessages, Call(m) PROVE AnswerUnderWay'
    <2>1. AnswerUnderWay /\ UNCHANGED <<down, pongs, heard, events>>
        BY <1>9, <1>t DEF Call, task, Awaited
    <2>2. \A a : Holds(rx, a) => Holds(rx', a)
        BY <1>0, <1>9, HoldsAppend DEF Call, Messages
    <2> QED BY <2>1, <2>2 DEF AnswerUnderWay
<1>10. CASE UNCHANGED keepaliveVars
    BY <1>10, <1>t DEF keepaliveVars, Awaited, AnswerUnderWay, Holds
<1> QED BY <1>1, <1>2, <1>3, <1>4, <1>5, <1>6, <1>7, <1>8, <1>9, <1>10 DEF KeepaliveNext

\* If answers beat the timeout and find room in the channel, an Online tunnel
\* on a path that is up is never taken for dead.
THEOREM NeverFalseAlarm == KeepaliveSpec => NoFalseAlarm
<1>1. KeepaliveInit => Awaited
    BY DEF KeepaliveInit, Awaited
<1>2. KeepaliveTypeOK /\ Awaited /\ [KeepaliveNext]_keepaliveVars => Awaited'
    BY AwaitedInductive
<1>3. KeepaliveTypeOK /\ Awaited /\ [KeepaliveNext]_keepaliveVars =>
        [timely /\ Running /\ result' = "Timedout" => down \/ ~online]_keepaliveVars
    <2> SUFFICES ASSUME KeepaliveTypeOK, Awaited, KeepaliveNext, timely, Running, result' = "Timedout",
                        online, ~down
                 PROVE  FALSE
        BY DEF keepaliveVars, Running
    <2>1. CASE TimeoutElapses
        BY <2>1, KeepaliveAssumption DEF TimeoutElapses, Awaited, Off
    <2>2. CASE Handle
        BY <2>2 DEF Handle, HandleOnline, HandleOutsideActivity, HandleReplyReceived,
            HandleNetworkChange, HandleTracerDeltaExceeded, HandleSuspend, Take, Running
    <2>3. CASE SendNeeded \/ SendInterval \/ TimePasses \/ Cancel
        BY <2>3 DEF SendNeeded, SendInterval, TimePasses, Cancel, Running
    <2>4. CASE GoOnline \/ PongArrives \/ Traffic \/ OutsideActivity \/ ForwardEvent \/ PathDown
        BY <2>4 DEF GoOnline, PongArrives, Traffic, OutsideActivity, ForwardEvent, PathDown, task, Running
    <2>5. ASSUME NEW m \in AppMessages, Call(m) PROVE FALSE
        BY <2>5 DEF Call, task, Running
    <2> QED BY <2>1, <2>2, <2>3, <2>4, <2>5 DEF KeepaliveNext
<1> QED BY <1>1, <1>2, <1>3, KeepaliveTypes, PTL DEF KeepaliveSpec, NoFalseAlarm

-----------------------------------------------------------------------------
(* The io_uring.  A sequence without repetitions, what the completions are *)
(* of, and the write slots whose buffer the kernel has not yet written.    *)
OnceOnly(s) == \A i, j \in 1..Len(s) : s[i] = s[j] => i = j
Completion == [user_data : Entries, packet : Nat]
Uds(c) == [i \in 1..Len(c) |-> c[i].user_data]
InUse(s, f, c) == ToSet(s) \cup f \cup ToSet(Uds(c))
Unwritten(s, f) == {i \in Indexes : i \in ToSet(s) \cup f}

(* An entry is submitted, performed or completed, and that once.           *)
RingWell(s, f, c) ==
  /\ s \in Seq(Entries) /\ f \subseteq Entries /\ c \in Seq(Completion)
  /\ OnceOnly(s) /\ OnceOnly(Uds(c))
  /\ ToSet(s) \cap f = {} /\ ToSet(s) \cap ToSet(Uds(c)) = {} /\ f \cap ToSet(Uds(c)) = {}

(* A write slot is free, without a buffer, or in the ring, with one; a     *)
(* read slot with a permit is free or in the ring, one without is neither. *)
SlotsWell(tx, rd, bufs, permits, ring) ==
  /\ tx \in Seq(Indexes) /\ rd \in Seq(Indexes) /\ OnceOnly(tx) /\ OnceOnly(rd)
  /\ permits \subseteq Indexes /\ bufs \in [Indexes -> Nat]
  /\ \A i \in Indexes : /\ i \in ToSet(tx) <=> i \notin ring
                        /\ i \in ToSet(tx) <=> bufs[i] = Nothing
                        /\ i \in ToSet(rd) <=> i \in permits /\ -i - 1 \notin ring
                        /\ -i - 1 \in ring => i \in permits

(* Each packet accepted from the application is in one place.              *)
Parted(q, w, f, h) ==
  /\ q \cap w = {} /\ q \cap f = {} /\ q \cap h = {} /\ w \cap f = {} /\ w \cap h = {} /\ f \cap h = {}
Bufs(bufs, held) == {bufs[i] : i \in held}
SendsWell(q, w, f, bufs, held, n) ==
  /\ q \in Seq(Nat) /\ w \in Seq(Nat) /\ n \in Nat /\ OnceOnly(q) /\ OnceOnly(w)
  /\ \A i, j \in held : bufs[i] = bufs[j] => i = j
  /\ ToSet(q) \cup ToSet(w) \cup f \cup Bufs(bufs, held) = 1..n
  /\ Parted(ToSet(q), ToSet(w), f, Bufs(bufs, held))

(* The completed reads hold the packets after the a-th up to the b-th, in  *)
(* order; a sequence counts on from a; a completed write holds no packet.  *)
Full(c) == {i \in 1..Len(c) : c[i].packet # Nothing}
ReadsWell(c, a, b) ==
  /\ a \in Nat /\ b \in Nat /\ a <= b
  /\ {c[i].packet : i \in Full(c)} = (a + 1)..b
  /\ \A i, j \in Full(c) : i < j => c[i].packet < c[j].packet
CountsOn(s, a) == s \in Seq(Nat) /\ a \in Nat /\ \A k \in 1..Len(s) : s[k] = a + k

PlainWrites(c) == \A i \in 1..Len(c) : c[i].user_data \in Indexes => c[i].packet = Nothing

ReadSide ==
  /\ ReadsWell(cq, Len(got) + Len(rx_queue), Len(pulled))
  /\ CountsOn(got, 0) /\ CountsOn(rx_queue, Len(got)) /\ CountsOn(pulled, 0) /\ CountsOn(tun_in, Len(pulled))
  /\ tunned = Len(pulled) + Len(tun_in)
Within ==
  /\ Len(sq) <= RingSize /\ Len(rx_queue) + Cardinality(senders) <= RingSize
  /\ synced \in 0..Len(cq) /\ sqpoll \in BOOLEAN

UringInv ==
  /\ RingWell(sq, performing, cq)
  /\ SlotsWell(tx_slots, rx_slots, tx_bufs, senders, InUse(sq, performing, cq))
  /\ SendsWell(tx_queue, written, failed, tx_bufs, Unwritten(sq, performing), usent)
  /\ ReadSide /\ PlainWrites(cq) /\ Within
(* What the operations on a sequence without repetitions make of it.       *)
LEMMA SeqIs ==
  ASSUME NEW S, NEW s \in Seq(S)
  PROVE  /\ Len(s) \in Nat /\ DOMAIN s = 1..Len(s) /\ ToSet(s) \subseteq S
         /\ \A i \in 1..Len(s) : s[i] \in S /\ s[i] \in ToSet(s)
         /\ \A x \in ToSet(s) : \E i \in 1..Len(s) : x = s[i]
<1>1. Len(s) \in Nat /\ DOMAIN s = 1..Len(s) /\ \A i \in 1..Len(s) : s[i] \in S
  BY LenProperties, ElementOfSeq
<1> QED
  BY <1>1 DEF ToSet

LEMMA NoneIs ==
  ASSUME NEW S
  PROVE  <<>> \in Seq(S) /\ Len(<<>>) = 0 /\ ToSet(<<>>) = {} /\ OnceOnly(<<>>)
<1>1. <<>> \in Seq(S) /\ Len(<<>>) = 0
  OBVIOUS
<1>2. \A x \in ToSet(<<>>) : \E i \in 1..0 : TRUE
  BY <1>1, SeqIs
<1>3. \A i \in 1..0 : FALSE
  OBVIOUS
<1> QED
  BY <1>1, <1>2, <1>3 DEF OnceOnly

LEMMA AppendIs ==
  ASSUME NEW S, NEW s \in Seq(S), NEW x \in S
  PROVE  /\ Append(s, x) \in Seq(S) /\ Len(Append(s, x)) = Len(s) + 1
         /\ (\A i \in 1..Len(s) : Append(s, x)[i] = s[i]) /\ Append(s, x)[Len(s) + 1] = x
         /\ ToSet(Append(s, x)) = ToSet(s) \cup {x}
         /\ OnceOnly(s) /\ x \notin ToSet(s) => OnceOnly(Append(s, x))
<1> DEFINE t == Append(s, x)
<1> HIDE DEF t
<1>1. PICK n \in Nat : n = Len(s)
  BY SeqIs
<1>2. t \in Seq(S) /\ Len(t) = n + 1 /\ DOMAIN t = 1..(n + 1) /\ t[n + 1] = x /\ \A i \in 1..n : t[i] = s[i]
  BY <1>1, AppendProperties, LenProperties DEF t
<1>3. DOMAIN s = 1..n /\ \A i \in 1..n : s[i] \in ToSet(s)
  BY <1>1, SeqIs
<1>4. \A i \in 1..(n + 1) : i \in 1..n \/ i = n + 1
  OBVIOUS
<1>5. (\A i \in 1..n : i \in 1..(n + 1)) /\ n + 1 \in 1..(n + 1)
  OBVIOUS
<1>6. ToSet(t) = ToSet(s) \cup {x}
  BY <1>2, <1>3, <1>4, <1>5 DEF ToSet
<1>7. OnceOnly(s) /\ x \notin ToSet(s) => OnceOnly(t)
  BY <1>1, <1>2, <1>3, <1>4 DEF OnceOnly
<1> QED
  BY <1>1, <1>2, <1>6, <1>7 DEF t

LEMMA TailIs ==
  ASSUME NEW S, NEW s \in Seq(S), s # <<>>
  PROVE  /\ Tail(s) \in Seq(S) /\ Head(s) \in S /\ Head(s) \in ToSet(s) /\ Head(s) = s[1]
         /\ Len(s) > 0 /\ Len(Tail(s)) = Len(s) - 1 /\ \A i \in 1..(Len(s) - 1) : Tail(s)[i] = s[i + 1]
         /\ OnceOnly(s) => ToSet(Tail(s)) = ToSet(s) \ {Head(s)} /\ OnceOnly(Tail(s))
<1> DEFINE t == Tail(s)
<1> HIDE DEF t
<1>1. PICK n \in Nat : n = Len(s)
  BY SeqIs
<1>2. n > 0 /\ Head(s) = s[1] /\ 1 \in 1..n
  BY <1>1, EmptySeq
<1>3. t \in Seq(S) /\ Len(t) = n - 1 /\ DOMAIN t = 1..(n - 1) /\ \A i \in 1..(n - 1) : t[i] = s[i + 1]
  BY <1>1, HeadTailProperties, LenProperties DEF t
<1>4. DOMAIN s = 1..n /\ \A i \in 1..n : s[i] \in ToSet(s) /\ s[i] \in S
  BY <1>1, SeqIs
<1>5. \A i \in 1..(n - 1) : i + 1 \in 1..n /\ i + 1 # 1
  BY <1>2
<1>6. \A i \in 1..n : i = 1 \/ (i - 1 \in 1..(n - 1) /\ (i - 1) + 1 = i)
  BY <1>2
<1>7. ASSUME OnceOnly(s) PROVE ToSet(t) = ToSet(s) \ {s[1]} /\ OnceOnly(t)
  <2>1. \A i, j \in 1..n : s[i] = s[j] => i = j
    BY <1>1, <1>7 DEF OnceOnly
  <2>2. ASSUME NEW y \in ToSet(t) PROVE y \in ToSet(s) \ {s[1]}
    <3>1. PICK i \in 1..(n - 1) : y = s[i + 1]
      BY <1>3 DEF ToSet
    <3> QED
      BY <1>2, <1>4, <1>5, <2>1, <3>1
  <2>3. ASSUME NEW y \in ToSet(s), y # s[1] PROVE y \in ToSet(t)
    <3>1. PICK i \in 1..n : y = s[i]
      BY <1>4 DEF ToSet
    <3>2. i - 1 \in 1..(n - 1) /\ (i - 1) + 1 = i
      BY <1>6, <2>3, <3>1
    <3>3. y = t[i - 1]
      BY <1>3, <3>1, <3>2
    <3> QED
      BY <1>3, <3>2, <3>3 DEF ToSet
  <2>4. ASSUME NEW i \in 1..(n - 1), NEW j \in 1..(n - 1), t[i] = t[j] PROVE i = j
    <3>1. i + 1 = j + 1
      BY <1>3, <1>5, <2>1, <2>4
    <3> QED
      BY <3>1
  <2> QED
    BY <1>3, <2>2, <2>3, <2>4 DEF OnceOnly
<1> QED
  BY <1>1, <1>2, <1>3, <1>4, <1>7 DEF t

LEMMA FrontIs ==
  ASSUME NEW S, NEW s \in Seq(S), s # <<>>
  PROVE  /\ Front(s) \in Seq(S) /\ Last(s) \in S /\ Last(s) \in ToSet(s)
         /\ OnceOnly(s) => ToSet(Front(s)) = ToSet(s) \ {Last(s)} /\ OnceOnly(Front(s))
<1> DEFINE t == Front(s)
<1> HIDE DEF t
<1>1. PICK n \in Nat : n = Len(s)
  BY SeqIs
<1>2. n > 0 /\ Last(s) = s[n] /\ n \in 1..n
  BY <1>1, EmptySeq DEF Last
<1>3. t \in Seq(S) /\ Len(t) = n - 1 /\ DOMAIN t = 1..(n - 1) /\ \A i \in 1..(n - 1) : t[i] = s[i]
  <2>1. t = SubSeq(s, 1, n - 1) /\ (\A i \in 1..(n - 1) : i \in 1..Len(s))
    BY <1>1, <1>2 DEF t, Front
  <2>2. t \in Seq(S) /\ Len(t) = n - 1 /\ \A i \in 1..(n - 1) : t[i] = s[1 + i - 1]
    BY <1>1, <1>2, <2>1, SubSeqProperties
  <2>3. \A i \in 1..(n - 1) : 1 + i - 1 = i
    OBVIOUS
  <2> QED
    BY <2>2, <2>3, LenProperties
<1>4. DOMAIN s = 1..n /\ \A i \in 1..n : s[i] \in ToSet(s) /\ s[i] \in S
  BY <1>1, SeqIs
<1>5. \A i \in 1..(n - 1) : i \in 1..n /\ i # n
  BY <1>2
<1>6. \A i \in 1..n : i = n \/ i \in 1..(n - 1)
  BY <1>2
<1>7. ASSUME OnceOnly(s) PROVE ToSet(t) = ToSet(s) \ {s[n]} /\ OnceOnly(t)
  <2>1. \A i, j \in 1..n : s[i] = s[j] => i = j
    BY <1>1, <1>7 DEF OnceOnly
  <2>2. ToSet(t) = ToSet(s) \ {s[n]}
    BY <1>2, <1>3, <1>4, <1>5, <1>6, <2>1 DEF ToSet
  <2>3. OnceOnly(t)
    BY <1>3, <1>5, <2>1 DEF OnceOnly
  <2> QED
    BY <2>2, <2>3
<1> QED
  BY <1>2, <1>3, <1>4, <1>7 DEF t

(* The user_data of the completions, when one is added and when the first  *)
(* is taken.                                                               *)
LEMMA UdsIs ==
  ASSUME NEW c \in Seq(Completion)
  PROVE  /\ Uds(c) \in Seq(Entries) /\ Len(Uds(c)) = Len(c)
         /\ \A r \in Completion : Uds(Append(c, r)) = Append(Uds(c), r.user_data)
         /\ c # <<>> => Uds(c) # <<>> /\ Uds(Tail(c)) = Tail(Uds(c)) /\ Head(Uds(c)) = Head(c).user_data
<1>1. PICK n \in Nat : n = Len(c)
  BY SeqIs
<1>0. \A r \in Completion : r.user_data \in Entries
  BY DEF Completion
<1>2. \A i \in 1..n : c[i] \in Completion /\ c[i].user_data \in Entries
  BY <1>0, <1>1, SeqIs
<1>3. Uds(c) \in Seq(Entries) /\ Len(Uds(c)) = n /\ \A i \in 1..n : Uds(c)[i] = c[i].user_data
  <2>1. Uds(c) = [i \in 1..n |-> c[i].user_data]
    BY <1>1 DEF Uds
  <2> QED
    BY <1>2, <2>1, IsASeq
<1>4. ASSUME NEW r \in Completion PROVE Uds(Append(c, r)) = Append(Uds(c), r.user_data)
  <2> DEFINE d == Append(c, r)  u == Uds(d)  v == Append(Uds(c), r.user_data)
  <2> HIDE DEF d, u, v
  <2>1. d \in Seq(Completion) /\ Len(d) = n + 1 /\ (\A i \in 1..n : d[i] = c[i]) /\ d[n + 1] = r
    BY <1>1, AppendIs DEF d
  <2>2. \A i \in 1..(n + 1) : d[i] \in Completion /\ d[i].user_data \in Entries
    BY <1>0, <2>1, SeqIs
  <2>3. u \in Seq(Entries) /\ Len(u) = n + 1 /\ \A i \in 1..(n + 1) : u[i] = d[i].user_data
    <3>1. u = [i \in 1..(n + 1) |-> d[i].user_data]
      BY <2>1 DEF u, Uds
    <3> QED
      BY <2>2, <3>1, IsASeq
  <2>4. r.user_data \in Entries
    BY DEF Completion
  <2>5. v \in Seq(Entries) /\ Len(v) = n + 1 /\ (\A i \in 1..n : v[i] = Uds(c)[i]) /\ v[n + 1] = r.user_data
    BY <1>3, <2>4, AppendIs DEF v
  <2>6. \A i \in 1..(n + 1) : i \in 1..n \/ i = n + 1
    OBVIOUS
  <2>7. \A i \in 1..(n + 1) : u[i] = v[i]
    BY <1>3, <2>1, <2>3, <2>5, <2>6
  <2>8. u = v
    BY <2>3, <2>5, <2>7, SeqEqual
  <2> QED
    BY <2>8 DEF d, u, v
<1>5. ASSUME c # <<>>
      PROVE  Uds(c) # <<>> /\ Uds(Tail(c)) = Tail(Uds(c)) /\ Head(Uds(c)) = Head(c).user_data
  <2> DEFINE d == Tail(c)  u == Uds(d)  w == Uds(c)  v == Tail(w)
  <2> HIDE DEF d, u, v, w
  <2>1. d \in Seq(Completion) /\ Len(d) = n - 1 /\ n > 0 /\ Head(c) = c[1] /\ \A i \in 1..(n - 1) : d[i] = c[i + 1]
    BY <1>1, <1>5, TailIs DEF d
  <2>2. \A i \in 1..(n - 1) : i + 1 \in 1..n
    BY <2>1
  <2>3. u \in Seq(Entries) /\ Len(u) = n - 1 /\ \A i \in 1..(n - 1) : u[i] = c[i + 1].user_data
    <3>1. u = [i \in 1..(n - 1) |-> d[i].user_data]
      BY <2>1 DEF u, Uds
    <3>2. \A i \in 1..(n - 1) : d[i].user_data = c[i + 1].user_data /\ d[i].user_data \in Entries
      BY <1>2, <2>1, <2>2
    <3>3. n - 1 \in Nat
      BY <2>1
    <3> QED
      BY <3>1, <3>2, <3>3, IsASeq
  <2>4. w # <<>> /\ w \in Seq(Entries) /\ Len(w) = n /\ \A i \in 1..n : w[i] = c[i].user_data
    BY <1>3, <2>1 DEF w
  <2>5. v \in Seq(Entries) /\ Len(v) = n - 1 /\ Head(w) = w[1] /\ \A i \in 1..(n - 1) : v[i] = w[i + 1]
    BY <2>4, TailIs DEF v
  <2>6. \A i \in 1..(n - 1) : u[i] = v[i]
    BY <2>2, <2>3, <2>4, <2>5
  <2>7. u = v
    BY <2>3, <2>5, <2>6, SeqEqual
  <2>8. 1 \in 1..n
    BY <2>1
  <2> QED
    BY <2>1, <2>4, <2>5, <2>7, <2>8 DEF d, u, v, w
<1> QED
  BY <1>1, <1>3, <1>4, <1>5

(* The entries: a write slot's is its index, a read slot's is below zero.  *)
LEMMA EntriesAre ==
  /\ nr_tx_rx_slots \in Nat /\ 2 * nr_tx_rx_slots <= RingSize /\ RingSize \in Nat
  /\ Entries = (-nr_tx_rx_slots)..(nr_tx_rx_slots - 1)
  /\ \A i \in Indexes : i \in Nat /\ i \in Entries /\ -i - 1 \in Entries /\ -i - 1 \notin Indexes
  /\ \A i, j \in Indexes : -i - 1 # j /\ (-i - 1 = -j - 1 => i = j)
  /\ \A u \in Entries : u \in Int /\ (IsRx(u) <=> u < 0) /\ (~IsRx(u) => u \in Indexes /\ idx_of(u) = u)
  /\ \A i \in Indexes : user_data(FALSE, i) = i /\ user_data(TRUE, i) = -i - 1
<1>1. RingSize \in Nat /\ nr_tx_rx_slots \in Nat /\ 2 * nr_tx_rx_slots <= RingSize
  BY UringBounds DEF nr_tx_rx_slots
<1>2. PICK n \in Nat : n = nr_tx_rx_slots
  BY <1>1
<1>3. Indexes = 0..(n - 1)
  BY <1>2 DEF Indexes
<1>4. \A i \in 0..(n - 1) : user_data(FALSE, i) = i /\ user_data(TRUE, i) = -i - 1
  BY DEF user_data
<1>5. Entries = (-n)..(n - 1)
  <2>1. ASSUME NEW u \in Entries PROVE u \in (-n)..(n - 1)
    <3>1. PICK i \in 0..(n - 1) : u = user_data(FALSE, i) \/ u = user_data(TRUE, i)
      BY <1>3 DEF Entries
    <3>2. u = i \/ u = -i - 1
      BY <1>4, <3>1
    <3> QED
      BY <3>2
  <2>2. ASSUME NEW u \in (-n)..(n - 1) PROVE u \in Entries
    <3>1. CASE u >= 0
      <4>1. u \in 0..(n - 1)
        BY <3>1
      <4>2. u = user_data(FALSE, u)
        BY <1>4, <4>1
      <4> QED
        BY <1>3, <4>1, <4>2 DEF Entries
    <3>2. CASE u < 0
      <4>1. -u - 1 \in 0..(n - 1) /\ -(-u - 1) - 1 = u
        BY <3>2
      <4>2. u = user_data(TRUE, -u - 1)
        BY <1>4, <4>1
      <4> QED
        BY <1>3, <4>1, <4>2 DEF Entries
    <3> QED
      BY <3>1, <3>2
  <2> QED
    BY <2>1, <2>2
<1>6. \A u \in (-n)..(n - 1) : u \in Int /\ (IsRx(u) <=> u < 0) /\ (~IsRx(u) => u \in 0..(n - 1) /\ idx_of(u) = u)
  BY DEF IsRx, idx_of
<1>7. \A i \in 0..(n - 1) : i \in Nat /\ i \in (-n)..(n - 1) /\ -i - 1 \in (-n)..(n - 1) /\ -i - 1 \notin 0..(n - 1)
  OBVIOUS
<1>8. \A i, j \in 0..(n - 1) : -i - 1 # j /\ (-i - 1 = -j - 1 => i = j)
  OBVIOUS
<1> QED
  BY <1>1, <1>2, <1>3, <1>4, <1>5, <1>6, <1>7, <1>8

(* A free write slot leaves room in the submission queue.                  *)
LEMMA RoomToPush ==
  ASSUME NEW s \in Seq(Entries), OnceOnly(s), NEW u \in Entries, u \notin ToSet(s)
  PROVE  Len(s) < RingSize
<1> DEFINE T == Entries \ {u}
<1>1. IsFiniteSet(Entries) /\ Cardinality(Entries) <= RingSize /\ Cardinality(Entries) \in Nat
  <2>1. PICK n \in Nat : n = nr_tx_rx_slots /\ 2 * n <= RingSize /\ Entries = (-n)..(n - 1) /\ RingSize \in Nat
    BY EntriesAre
  <2>2. IsFiniteSet((-n)..(n - 1)) /\ Cardinality((-n)..(n - 1)) = IF -n > n - 1 THEN 0 ELSE (n - 1) - (-n) + 1
    <3>1. -n \in Int /\ n - 1 \in Int
      OBVIOUS
    <3> QED
      BY <3>1, FS_Interval
  <2> QED
    BY <2>1, <2>2
<1>2. IsFiniteSet(T) /\ Cardinality(T) = Cardinality(Entries) - 1
  BY <1>1, FS_RemoveElement
<1>3. Len(s) \in Nat /\ DOMAIN s = 1..Len(s) /\ \A i \in 1..Len(s) : s[i] \in T
  BY SeqIs
<1> HIDE DEF T
<1>4. s \in Injection(1..Len(s), T)
  <2>1. s \in [1..Len(s) -> T]
    BY <1>3
  <2> QED
    BY <2>1 DEF Injection, IsInjective, OnceOnly
<1>5. Cardinality(1..Len(s)) <= Cardinality(T)
  BY <1>2, <1>4, FS_Injection
<1>6. Cardinality(1..Len(s)) = Len(s)
  <2>1. PICK n \in Nat : n = Len(s)
    BY <1>3
  <2>2. Cardinality(1..n) = IF 1 > n THEN 0 ELSE n - 1 + 1
    BY FS_Interval
  <2> QED
    BY <2>1, <2>2
<1> QED
  BY <1>1, <1>2, <1>3, <1>5, <1>6, EntriesAre

-----------------------------------------------------------------------------
(* What happens to the entries of the ring.                                *)
LEMMA RingTakes ==
  ASSUME NEW s, NEW f, NEW c, RingWell(s, f, c), s # <<>>
  PROVE  /\ RingWell(Tail(s), f \cup {Head(s)}, c) /\ Len(Tail(s)) <= Len(s)
         /\ InUse(Tail(s), f \cup {Head(s)}, c) = InUse(s, f, c)
         /\ Unwritten(Tail(s), f \cup {Head(s)}) = Unwritten(s, f)
<1>1. s \in Seq(Entries) /\ OnceOnly(s)
  BY DEF RingWell
<1>2. /\ Tail(s) \in Seq(Entries) /\ Head(s) \in Entries /\ Head(s) \in ToSet(s)
      /\ ToSet(Tail(s)) = ToSet(s) \ {Head(s)} /\ OnceOnly(Tail(s))
  BY <1>1, TailIs
<1>3. Len(Tail(s)) <= Len(s)
  BY <1>1, TailIs, SeqIs
<1>4. RingWell(Tail(s), f \cup {Head(s)}, c)
  BY <1>2 DEF RingWell
<1>5. ToSet(Tail(s)) \cup (f \cup {Head(s)}) = ToSet(s) \cup f
  BY <1>2
<1> QED
  BY <1>3, <1>4, <1>5 DEF InUse, Unwritten

LEMMA RingSubmits ==
  ASSUME NEW s, NEW f, NEW c, RingWell(s, f, c)
  PROVE  /\ RingWell(<<>>, f \cup ToSet(s), c)
         /\ InUse(<<>>, f \cup ToSet(s), c) = InUse(s, f, c)
         /\ Unwritten(<<>>, f \cup ToSet(s)) = Unwritten(s, f)
<1>1. <<>> \in Seq(Entries) /\ ToSet(<<>>) = {} /\ OnceOnly(<<>>)
  BY NoneIs
<1>2. s \in Seq(Entries) /\ ToSet(s) \subseteq Entries
  BY SeqIs DEF RingWell
<1>3. RingWell(<<>>, f \cup ToSet(s), c)
  BY <1>1, <1>2 DEF RingWell
<1>4. ToSet(<<>>) \cup (f \cup ToSet(s)) = ToSet(s) \cup f
  BY <1>1
<1> QED
  BY <1>3, <1>4 DEF InUse, Unwritten

LEMMA RingCompletes ==
  ASSUME NEW s, NEW f, NEW c, RingWell(s, f, c), NEW u \in f,
         NEW r \in Completion, r.user_data = u
  PROVE  /\ RingWell(s, f \ {u}, Append(c, r))
         /\ InUse(s, f \ {u}, Append(c, r)) = InUse(s, f, c)
         /\ Unwritten(s, f \ {u}) = Unwritten(s, f) \ {u}
<1>1. c \in Seq(Completion) /\ u \in Entries /\ u \notin ToSet(s) /\ u \notin ToSet(Uds(c)) /\ OnceOnly(Uds(c))
  BY DEF RingWell
<1>2. r \in Completion /\ r.user_data = u
  OBVIOUS
<1>3. Append(c, r) \in Seq(Completion)
  BY <1>1, <1>2, AppendIs
<1>4. Uds(c) \in Seq(Entries) /\ Uds(Append(c, r)) = Append(Uds(c), u)
  BY <1>1, <1>2, UdsIs
<1>5. ToSet(Uds(Append(c, r))) = ToSet(Uds(c)) \cup {u} /\ OnceOnly(Uds(Append(c, r)))
  <2>1. PICK v \in Seq(Entries) : v = Uds(c)
    BY <1>4
  <2>2. ToSet(Append(v, u)) = ToSet(v) \cup {u} /\ OnceOnly(Append(v, u))
    BY <1>1, <2>1, AppendIs
  <2> QED
    BY <1>4, <2>1, <2>2
<1>6. RingWell(s, f \ {u}, Append(c, r))
  BY <1>1, <1>3, <1>5 DEF RingWell
<1>7. InUse(s, f \ {u}, Append(c, r)) = InUse(s, f, c)
  BY <1>5 DEF InUse
<1>8. Unwritten(s, f \ {u}) = Unwritten(s, f) \ {u}
  BY <1>1 DEF Unwritten
<1> QED
  BY <1>6, <1>7, <1>8

LEMMA RingPushes ==
  ASSUME NEW s, NEW f, NEW c, RingWell(s, f, c), NEW u \in Entries, u \notin InUse(s, f, c)
  PROVE  /\ RingWell(Append(s, u), f, c) /\ Len(Append(s, u)) = Len(s) + 1
         /\ InUse(Append(s, u), f, c) = InUse(s, f, c) \cup {u}
         /\ u \in Indexes => Unwritten(Append(s, u), f) = Unwritten(s, f) \cup {u}
         /\ u \notin Indexes => Unwritten(Append(s, u), f) = Unwritten(s, f)
<1>1. s \in Seq(Entries) /\ OnceOnly(s) /\ u \notin ToSet(s)
  BY DEF RingWell, InUse
<1>2. /\ Append(s, u) \in Seq(Entries) /\ Len(Append(s, u)) = Len(s) + 1
      /\ ToSet(Append(s, u)) = ToSet(s) \cup {u} /\ OnceOnly(Append(s, u))
  BY <1>1, AppendIs
<1>3. RingWell(Append(s, u), f, c)
  BY <1>2 DEF RingWell, InUse
<1>4. InUse(Append(s, u), f, c) = InUse(s, f, c) \cup {u}
  BY <1>2 DEF InUse
<1>5. /\ u \in Indexes => Unwritten(Append(s, u), f) = Unwritten(s, f) \cup {u}
      /\ u \notin Indexes => Unwritten(Append(s, u), f) = Unwritten(s, f)
  BY <1>2 DEF Unwritten
<1> QED
  BY <1>2, <1>3, <1>4, <1>5

LEMMA RingReaps ==
  ASSUME NEW s, NEW f, NEW c, RingWell(s, f, c), c # <<>>
  PROVE  /\ RingWell(s, f, Tail(c)) /\ Head(c) \in Completion /\ Head(c).user_data \in InUse(s, f, c)
         /\ InUse(s, f, Tail(c)) = InUse(s, f, c) \ {Head(c).user_data}
         /\ Head(c).user_data \notin Unwritten(s, f)
<1>1. c \in Seq(Completion) /\ OnceOnly(Uds(c))
  BY DEF RingWell
<1>2. Tail(c) \in Seq(Completion) /\ Head(c) \in Completion
  BY <1>1, TailIs
<1>3. Uds(c) \in Seq(Entries) /\ Uds(c) # <<>> /\ Uds(Tail(c)) = Tail(Uds(c)) /\ Head(Uds(c)) = Head(c).user_data
  BY <1>1, UdsIs
<1>4. /\ ToSet(Uds(Tail(c))) = ToSet(Uds(c)) \ {Head(c).user_data} /\ OnceOnly(Uds(Tail(c)))
      /\ Head(c).user_data \in ToSet(Uds(c))
  BY <1>1, <1>3, TailIs
<1>5. RingWell(s, f, Tail(c))
  BY <1>2, <1>4 DEF RingWell
<1>6. Head(c).user_data \notin ToSet(s) \cup f
  BY <1>4 DEF RingWell
<1> QED
  BY <1>2, <1>4, <1>5, <1>6 DEF InUse, Unwritten

-----------------------------------------------------------------------------
(* What happens to the slots.                                              *)
LEMMA SlotTaken ==
  ASSUME NEW tx, NEW rd, NEW bufs, NEW permits, NEW ring, SlotsWell(tx, rd, bufs, permits, ring),
         tx # <<>>, NEW p \in Nat, p # Nothing, NEW i, i = Last(tx)
  PROVE  /\ i \in Indexes /\ i \notin ring
         /\ SlotsWell(Front(tx), rd, [bufs EXCEPT ![i] = p], permits, ring \cup {i})
<1>1. tx \in Seq(Indexes) /\ OnceOnly(tx)
  BY DEF SlotsWell
<1>2. /\ Front(tx) \in Seq(Indexes) /\ i \in Indexes /\ i \in ToSet(tx)
      /\ ToSet(Front(tx)) = ToSet(tx) \ {i} /\ OnceOnly(Front(tx))
  BY <1>1, FrontIs
<1>3. PICK b : b = [bufs EXCEPT ![i] = p]
  OBVIOUS
<1>4. b \in [Indexes -> Nat] /\ b[i] = p /\ \A j \in Indexes : j # i => b[j] = bufs[j]
  BY <1>2, <1>3 DEF SlotsWell
<1>5. \A j \in Indexes : -j - 1 # i
  BY <1>2, EntriesAre
<1>6. SlotsWell(Front(tx), rd, b, permits, ring \cup {i})
  BY <1>2, <1>4, <1>5 DEF SlotsWell
<1>7. i \notin ring
  BY <1>2 DEF SlotsWell
<1> QED
  BY <1>2, <1>3, <1>6, <1>7

LEMMA ReadSlotTaken ==
  ASSUME NEW tx, NEW rd, NEW bufs, NEW permits, NEW ring, SlotsWell(tx, rd, bufs, permits, ring),
         rd # <<>>, NEW i, i = Last(rd)
  PROVE  /\ i \in Indexes /\ -i - 1 \notin ring
         /\ SlotsWell(tx, Front(rd), bufs, permits, ring \cup {-i - 1})
<1>1. rd \in Seq(Indexes) /\ OnceOnly(rd)
  BY DEF SlotsWell
<1>2. /\ Front(rd) \in Seq(Indexes) /\ i \in Indexes /\ i \in ToSet(rd)
      /\ ToSet(Front(rd)) = ToSet(rd) \ {i} /\ OnceOnly(Front(rd))
  BY <1>1, FrontIs
<1>3. \A j \in Indexes : -i - 1 # j /\ (-j - 1 = -i - 1 => j = i)
  BY <1>2, EntriesAre
<1>4. i \in permits /\ -i - 1 \notin ring
  BY <1>2 DEF SlotsWell
<1>5. SlotsWell(tx, Front(rd), bufs, permits, ring \cup {-i - 1})
  BY <1>2, <1>3, <1>4 DEF SlotsWell
<1> QED
  BY <1>2, <1>4, <1>5

LEMMA SlotFreed ==
  ASSUME NEW tx, NEW rd, NEW bufs, NEW permits, NEW ring, SlotsWell(tx, rd, bufs, permits, ring),
         NEW i \in Indexes, i \in ring
  PROVE  SlotsWell(Append(tx, i), rd, [bufs EXCEPT ![i] = Nothing], permits, ring \ {i})
<1>1. tx \in Seq(Indexes) /\ OnceOnly(tx) /\ i \notin ToSet(tx)
  BY DEF SlotsWell
<1>2. Append(tx, i) \in Seq(Indexes) /\ ToSet(Append(tx, i)) = ToSet(tx) \cup {i} /\ OnceOnly(Append(tx, i))
  BY <1>1, AppendIs
<1>3. PICK b : b = [bufs EXCEPT ![i] = Nothing]
  OBVIOUS
<1>4. b \in [Indexes -> Nat] /\ b[i] = Nothing /\ \A j \in Indexes : j # i => b[j] = bufs[j]
  BY <1>3 DEF SlotsWell, Nothing
<1>5. \A j \in Indexes : -j - 1 # i
  BY EntriesAre
<1>6. SlotsWell(Append(tx, i), rd, b, permits, ring \ {i})
  BY <1>2, <1>4, <1>5 DEF SlotsWell
<1> QED
  BY <1>3, <1>6

LEMMA ReadSlotFreed ==
  ASSUME NEW tx, NEW rd, NEW bufs, NEW permits, NEW ring, SlotsWell(tx, rd, bufs, permits, ring),
         NEW i \in Indexes, -i - 1 \in ring
  PROVE  /\ i \in permits /\ SlotsWell(tx, Append(rd, i), bufs, permits, ring \ {-i - 1})
         /\ SlotsWell(tx, rd, bufs, permits \ {i}, ring \ {-i - 1})
<1>1. rd \in Seq(Indexes) /\ OnceOnly(rd) /\ i \notin ToSet(rd) /\ i \in permits
  BY DEF SlotsWell
<1>2. Append(rd, i) \in Seq(Indexes) /\ ToSet(Append(rd, i)) = ToSet(rd) \cup {i} /\ OnceOnly(Append(rd, i))
  BY <1>1, AppendIs
<1>3. \A j \in Indexes : -i - 1 # j /\ (-j - 1 = -i - 1 => j = i)
  BY EntriesAre
<1>4. SlotsWell(tx, Append(rd, i), bufs, permits, ring \ {-i - 1})
  BY <1>1, <1>2, <1>3 DEF SlotsWell
<1>5. SlotsWell(tx, rd, bufs, permits \ {i}, ring \ {-i - 1})
  BY <1>1, <1>3 DEF SlotsWell
<1> QED
  BY <1>1, <1>4, <1>5

LEMMA PermitTaken ==
  ASSUME NEW tx, NEW rd, NEW bufs, NEW permits, NEW ring, SlotsWell(tx, rd, bufs, permits, ring),
         NEW i \in Indexes, i \notin permits
  PROVE  SlotsWell(tx, Append(rd, i), bufs, permits \cup {i}, ring)
<1>1. rd \in Seq(Indexes) /\ OnceOnly(rd) /\ i \notin ToSet(rd) /\ -i - 1 \notin ring
  BY DEF SlotsWell
<1>2. Append(rd, i) \in Seq(Indexes) /\ ToSet(Append(rd, i)) = ToSet(rd) \cup {i} /\ OnceOnly(Append(rd, i))
  BY <1>1, AppendIs
<1> QED
  BY <1>1, <1>2 DEF SlotsWell

-----------------------------------------------------------------------------
(* What happens to the packets the application sends.                      *)
LEMMA SendAccepted ==
  ASSUME NEW q, NEW w, NEW f, NEW bufs, NEW held, NEW n, SendsWell(q, w, f, bufs, held, n)
  PROVE  SendsWell(Append(q, n + 1), w, f, bufs, held, n + 1)
<1>1. q \in Seq(Nat) /\ n \in Nat /\ OnceOnly(q) /\ ToSet(q) \cup ToSet(w) \cup f \cup Bufs(bufs, held) = 1..n
  BY DEF SendsWell
<1>2. n + 1 \notin ToSet(q) \cup ToSet(w) \cup f \cup Bufs(bufs, held) /\ n + 1 \in Nat
  BY <1>1
<1>3. Append(q, n + 1) \in Seq(Nat) /\ ToSet(Append(q, n + 1)) = ToSet(q) \cup {n + 1} /\ OnceOnly(Append(q, n + 1))
  BY <1>1, <1>2, AppendIs
<1>4. 1..(n + 1) = (1..n) \cup {n + 1}
  BY <1>1
<1>5. ToSet(Append(q, n + 1)) \cup ToSet(w) \cup f \cup Bufs(bufs, held) = 1..(n + 1)
  BY <1>1, <1>3, <1>4
<1>6. Parted(ToSet(Append(q, n + 1)), ToSet(w), f, Bufs(bufs, held))
  BY <1>2, <1>3 DEF SendsWell, Parted
<1> QED
  BY <1>2, <1>3, <1>5, <1>6 DEF SendsWell

LEMMA SendPushed ==
  ASSUME NEW q, NEW w, NEW f, NEW bufs \in [Indexes -> Nat], NEW held \in SUBSET Indexes, NEW n,
         SendsWell(q, w, f, bufs, held, n), q # <<>>, NEW i \in Indexes, i \notin held
  PROVE  /\ Head(q) \in Nat /\ Head(q) # Nothing
         /\ SendsWell(Tail(q), w, f, [bufs EXCEPT ![i] = Head(q)], held \cup {i}, n)
<1>1. /\ q \in Seq(Nat) /\ OnceOnly(q) /\ n \in Nat
      /\ ToSet(q) \cup ToSet(w) \cup f \cup Bufs(bufs, held) = 1..n
      /\ Parted(ToSet(q), ToSet(w), f, Bufs(bufs, held))
      /\ \A j, k \in held : bufs[j] = bufs[k] => j = k
  BY DEF SendsWell
<1>2. PICK p : p = Head(q)
  OBVIOUS
<1>3. /\ Tail(q) \in Seq(Nat) /\ p \in Nat /\ p \in ToSet(q)
      /\ ToSet(Tail(q)) = ToSet(q) \ {p} /\ OnceOnly(Tail(q))
  BY <1>1, <1>2, TailIs
<1>4. p \in 1..n
  BY <1>1, <1>3
<1>5. p # Nothing
  BY <1>4 DEF Nothing
<1>6. PICK b : b = [bufs EXCEPT ![i] = p]
  OBVIOUS
<1>7. b[i] = p /\ \A j \in held : b[j] = bufs[j]
  BY <1>6
<1>8. Bufs(b, held \cup {i}) = Bufs(bufs, held) \cup {p}
  BY <1>7 DEF Bufs
<1>9. \A j \in held : bufs[j] # p
  BY <1>1, <1>3 DEF Parted, Bufs
<1>10. \A j, k \in held \cup {i} : b[j] = b[k] => j = k
  BY <1>1, <1>7, <1>9
<1>11. ToSet(Tail(q)) \cup ToSet(w) \cup f \cup Bufs(b, held \cup {i}) = 1..n
  BY <1>1, <1>3, <1>8
<1>12. Parted(ToSet(Tail(q)), ToSet(w), f, Bufs(b, held \cup {i}))
  BY <1>1, <1>3, <1>8, ZenonT(40) DEF Parted
<1>13. SendsWell(Tail(q), w, f, b, held \cup {i}, n)
  BY <1>3, <1>10, <1>11, <1>12 DEF SendsWell
<1> QED
  BY <1>2, <1>3, <1>5, <1>6, <1>13

LEMMA SendEnds ==
  ASSUME NEW q, NEW w, NEW f, NEW bufs, NEW held, NEW n, SendsWell(q, w, f, bufs, held, n), NEW i \in held
  PROVE  /\ SendsWell(q, Append(w, bufs[i]), f, bufs, held \ {i}, n)
         /\ SendsWell(q, w, f \cup {bufs[i]}, bufs, held \ {i}, n)
<1>1. /\ w \in Seq(Nat) /\ OnceOnly(w) /\ n \in Nat
      /\ ToSet(q) \cup ToSet(w) \cup f \cup Bufs(bufs, held) = 1..n
      /\ Parted(ToSet(q), ToSet(w), f, Bufs(bufs, held))
      /\ \A j, k \in held : bufs[j] = bufs[k] => j = k
  BY DEF SendsWell
<1>2. PICK p : p = bufs[i]
  OBVIOUS
<1>3. p \in Bufs(bufs, held)
  BY <1>2 DEF Bufs
<1>4. p \in 1..n
  BY <1>1, <1>3
<1>5. p \in Nat
  BY <1>1, <1>4
<1>6. p \notin ToSet(w)
  BY <1>1, <1>3 DEF Parted
<1>7. Bufs(bufs, held \ {i}) = Bufs(bufs, held) \ {p}
  BY <1>1, <1>2 DEF Bufs
<1>8. Append(w, p) \in Seq(Nat) /\ ToSet(Append(w, p)) = ToSet(w) \cup {p} /\ OnceOnly(Append(w, p))
  BY <1>1, <1>5, <1>6, AppendIs
<1>9. SendsWell(q, Append(w, p), f, bufs, held \ {i}, n)
  <2>1. ToSet(q) \cup ToSet(Append(w, p)) \cup f \cup Bufs(bufs, held \ {i}) = 1..n
    BY <1>1, <1>3, <1>7, <1>8
  <2>2. Parted(ToSet(q), ToSet(Append(w, p)), f, Bufs(bufs, held \ {i}))
    BY <1>1, <1>3, <1>7, <1>8, ZenonT(40) DEF Parted
  <2> QED
    BY <1>8, <2>1, <2>2 DEF SendsWell
<1>10. SendsWell(q, w, f \cup {p}, bufs, held \ {i}, n)
  <2>1. ToSet(q) \cup ToSet(w) \cup (f \cup {p}) \cup Bufs(bufs, held \ {i}) = 1..n
    BY <1>1, <1>3, <1>7
  <2>2. Parted(ToSet(q), ToSet(w), f \cup {p}, Bufs(bufs, held \ {i}))
    <3>1. p \notin ToSet(q) /\ p \notin ToSet(w) /\ p \notin Bufs(bufs, held \ {i}) /\ Bufs(bufs, held \ {i}) \subseteq Bufs(bufs, held)
      BY <1>1, <1>3, <1>7 DEF Parted
    <3> QED
      BY <1>1, <3>1, ZenonT(30) DEF Parted
  <2> QED
    BY <2>1, <2>2 DEF SendsWell
<1> QED
  BY <1>2, <1>9, <1>10

LEMMA SendForgotten ==
  ASSUME NEW q, NEW w, NEW f, NEW bufs \in [Indexes -> Nat], NEW held \in SUBSET Indexes, NEW n,
         SendsWell(q, w, f, bufs, held, n), NEW i \in Indexes, i \notin held, NEW p
  PROVE  SendsWell(q, w, f, [bufs EXCEPT ![i] = p], held, n)
<1>1. PICK b : b = [bufs EXCEPT ![i] = p]
  OBVIOUS
<1>2. \A j \in held : b[j] = bufs[j]
  BY <1>1
<1>3. Bufs(b, held) = Bufs(bufs, held)
  BY <1>2 DEF Bufs
<1>4. SendsWell(q, w, f, b, held, n)
  BY <1>2, <1>3 DEF SendsWell
<1> QED
  BY <1>1, <1>4

-----------------------------------------------------------------------------
(* What happens to the packets read.                                       *)
LEMMA CountsOnIs ==
  ASSUME NEW s, NEW a, CountsOn(s, a)
  PROVE  /\ Len(s) \in Nat /\ CountsOn(Append(s, a + Len(s) + 1), a)
         /\ s # <<>> => Head(s) = a + 1 /\ CountsOn(Tail(s), a + 1) /\ Len(Tail(s)) = Len(s) - 1 /\ Len(s) > 0
<1>1. s \in Seq(Nat) /\ a \in Nat /\ \A k \in 1..Len(s) : s[k] = a + k
  BY DEF CountsOn
<1>2. PICK n \in Nat : n = Len(s)
  BY <1>1, SeqIs
<1>3. CountsOn(Append(s, a + n + 1), a)
  <2>1. PICK x \in Nat : x = a + n + 1
    BY <1>1
  <2>2. /\ Append(s, x) \in Seq(Nat) /\ Len(Append(s, x)) = n + 1
        /\ (\A k \in 1..n : Append(s, x)[k] = s[k]) /\ Append(s, x)[n + 1] = x
    BY <1>1, <1>2, AppendIs
  <2>3. ASSUME NEW k \in 1..(n + 1) PROVE Append(s, x)[k] = a + k
    <3>1. CASE k = n + 1
      BY <1>1, <2>1, <2>2, <3>1
    <3>2. CASE k \in 1..n
      BY <1>1, <1>2, <2>2, <3>2
    <3>3. k = n + 1 \/ k \in 1..n
      OBVIOUS
    <3> QED
      BY <3>1, <3>2, <3>3, Zenon
  <2> QED
    BY <1>1, <2>1, <2>2, <2>3 DEF CountsOn
<1>4. ASSUME s # <<>> PROVE Head(s) = a + 1 /\ CountsOn(Tail(s), a + 1) /\ Len(Tail(s)) = n - 1 /\ n > 0
  <2>1. /\ Tail(s) \in Seq(Nat) /\ n > 0 /\ Len(Tail(s)) = n - 1 /\ Head(s) = s[1]
        /\ \A i \in 1..(n - 1) : Tail(s)[i] = s[i + 1]
    BY <1>1, <1>2, <1>4, TailIs
  <2>2. 1 \in 1..n /\ \A i \in 1..(n - 1) : i + 1 \in 1..n
    BY <2>1
  <2>3. \A i \in 1..(n - 1) : Tail(s)[i] = a + (i + 1)
    BY <1>1, <1>2, <2>1, <2>2
  <2>4. \A i \in 1..(n - 1) : a + (i + 1) = (a + 1) + i
    BY <1>1
  <2>5. a + 1 \in Nat
    BY <1>1
  <2> QED
    BY <1>1, <1>2, <2>1, <2>2, <2>3, <2>4, <2>5 DEF CountsOn
<1> QED
  BY <1>2, <1>3, <1>4

LEMMA CountsOnAfter ==
  ASSUME NEW s, NEW a \in Nat, CountsOn(s, a), s # <<>>
  PROVE  Head(s) = a + 1 /\ CountsOn(Tail(s), a + 1) /\ Len(Tail(s)) = Len(s) - 1 /\ Len(s) > 0
BY CountsOnIs

LEMMA ReadCompleted ==
  ASSUME NEW c \in Seq(Completion), NEW a, NEW b, ReadsWell(c, a, b), NEW r \in Completion
  PROVE  /\ r.packet = Nothing => ReadsWell(Append(c, r), a, b)
         /\ r.packet = b + 1 => ReadsWell(Append(c, r), a, b + 1)
<1>1. PICK n \in Nat : n = Len(c)
  BY SeqIs
<1>2. PICK d : d = Append(c, r)
  OBVIOUS
<1>3. d \in Seq(Completion) /\ Len(d) = n + 1 /\ (\A i \in 1..n : d[i] = c[i]) /\ d[n + 1] = r
  BY <1>1, <1>2, AppendIs
<1>4. /\ a \in Nat /\ b \in Nat /\ a <= b /\ {c[i].packet : i \in Full(c)} = (a + 1)..b
      /\ \A i, j \in Full(c) : i < j => c[i].packet < c[j].packet
  BY DEF ReadsWell
<1>5. Full(c) = {i \in 1..n : c[i].packet # Nothing} /\ Full(d) = {i \in 1..(n + 1) : d[i].packet # Nothing}
  BY <1>1, <1>3 DEF Full
<1>6. \A i \in 1..(n + 1) : i \in 1..n \/ i = n + 1
  OBVIOUS
<1>7. (\A i \in 1..n : i \in 1..(n + 1) /\ i < n + 1 /\ i # n + 1 /\ ~(n + 1 < i)) /\ n + 1 \in 1..(n + 1) /\ ~(n + 1 < n + 1)
  OBVIOUS
<1>8. ASSUME r.packet = Nothing PROVE ReadsWell(d, a, b)
  <2>1. Full(d) = Full(c)
    BY <1>3, <1>5, <1>6, <1>7, <1>8
  <2>2. \A i \in Full(c) : d[i] = c[i]
    BY <1>3, <1>5
  <2>3. {d[i].packet : i \in Full(d)} = {c[i].packet : i \in Full(c)}
    BY <2>1, <2>2
  <2> QED
    BY <1>4, <2>1, <2>2, <2>3 DEF ReadsWell
<1>9. ASSUME r.packet = b + 1 PROVE ReadsWell(d, a, b + 1)
  <2>0. b + 1 # Nothing /\ b + 1 \in Nat /\ a <= b + 1 /\ (a + 1)..(b + 1) = ((a + 1)..b) \cup {b + 1}
    BY <1>4 DEF Nothing
  <2>1. Full(d) = Full(c) \cup {n + 1}
    BY <1>3, <1>5, <1>6, <1>7, <1>9, <2>0
  <2>2. (\A i \in Full(c) : d[i] = c[i] /\ i \in 1..n) /\ d[n + 1].packet = b + 1
    BY <1>3, <1>5, <1>9
  <2>3. {d[i].packet : i \in Full(d)} = {c[i].packet : i \in Full(c)} \cup {b + 1}
    BY <2>1, <2>2
  <2>4. \A i \in Full(c) : c[i].packet < b + 1
    <3>1. \A i \in Full(c) : c[i].packet \in (a + 1)..b
      BY <1>4
    <3> QED
      BY <1>4, <3>1
  <2>5. ASSUME NEW i \in Full(d), NEW j \in Full(d), i < j PROVE d[i].packet < d[j].packet
    <3>1. i \in Full(c) /\ (j \in Full(c) \/ j = n + 1)
      BY <1>7, <2>1, <2>2, <2>5
    <3> QED
      BY <1>4, <2>2, <2>4, <2>5, <3>1
  <2> QED
    BY <1>4, <2>0, <2>3, <2>5 DEF ReadsWell
<1> QED
  BY <1>2, <1>8, <1>9

LEMMA ReadTaken ==
  ASSUME NEW c \in Seq(Completion), NEW a, NEW b, ReadsWell(c, a, b), c # <<>>
  PROVE  /\ Head(c).packet = Nothing => ReadsWell(Tail(c), a, b)
         /\ Head(c).packet # Nothing => Head(c).packet = a + 1 /\ ReadsWell(Tail(c), a + 1, b)
<1>1. PICK n \in Nat : n = Len(c)
  BY SeqIs
<1>2. PICK d : d = Tail(c)
  OBVIOUS
<1>3. d \in Seq(Completion) /\ Len(d) = n - 1 /\ n > 0 /\ Head(c) = c[1] /\ \A i \in 1..(n - 1) : d[i] = c[i + 1]
  BY <1>1, <1>2, TailIs
<1>4. /\ a \in Nat /\ b \in Nat /\ a <= b /\ {c[i].packet : i \in Full(c)} = (a + 1)..b
      /\ \A i, j \in Full(c) : i < j => c[i].packet < c[j].packet
  BY DEF ReadsWell
<1>5. Full(c) = {i \in 1..n : c[i].packet # Nothing} /\ Full(d) = {i \in 1..(n - 1) : d[i].packet # Nothing}
  BY <1>1, <1>3 DEF Full
<1>6. \A i \in 1..(n - 1) : i + 1 \in 1..n /\ i + 1 # 1
  BY <1>3
<1>7. \A i \in 1..n : i = 1 \/ (i - 1 \in 1..(n - 1) /\ (i - 1) + 1 = i /\ 1 < i)
  BY <1>3
<1>8. \A i \in Full(d) : i + 1 \in Full(c) /\ i + 1 # 1 /\ d[i] = c[i + 1] /\ i \in Int
  BY <1>3, <1>5, <1>6
<1>9. ASSUME NEW i \in Full(c), i # 1 PROVE i - 1 \in Full(d) /\ d[i - 1] = c[i] /\ 1 < i
  <2>1. i \in 1..n
    BY <1>5
  <2>2. i - 1 \in 1..(n - 1) /\ (i - 1) + 1 = i /\ 1 < i
    BY <1>7, <1>9, <2>1
  <2>3. d[i - 1] = c[i]
    BY <1>3, <2>2
  <2> QED
    BY <1>5, <2>2, <2>3
<1>10. ASSUME NEW i \in Full(d), NEW j \in Full(d), i < j PROVE d[i].packet < d[j].packet
  <2>1. i + 1 \in Full(c) /\ j + 1 \in Full(c) /\ i + 1 < j + 1
    BY <1>8, <1>10
  <2> QED
    BY <1>4, <1>8, <2>1
<1>11. {d[i].packet : i \in Full(d)} = {c[i].packet : i \in Full(c) \ {1}}
  <2>1. ASSUME NEW i \in Full(d) PROVE \E j \in Full(c) \ {1} : d[i].packet = c[j].packet
    BY <1>8
  <2>2. ASSUME NEW j \in Full(c) \ {1} PROVE \E i \in Full(d) : d[i].packet = c[j].packet
    BY <1>9
  <2> QED
    BY <2>1, <2>2
<1>12. ASSUME c[1].packet = Nothing PROVE ReadsWell(d, a, b)
  <2>1. Full(c) \ {1} = Full(c)
    BY <1>5, <1>12
  <2> QED
    BY <1>4, <1>10, <1>11, <2>1 DEF ReadsWell
<1>13. ASSUME c[1].packet # Nothing PROVE c[1].packet = a + 1 /\ ReadsWell(d, a + 1, b)
  <2>1. 1 \in Full(c)
    BY <1>3, <1>5, <1>13
  <2>2. c[1].packet \in (a + 1)..b
    BY <1>4, <2>1
  <2>3. a + 1 \in (a + 1)..b
    BY <1>4, <2>2
  <2>4. PICK i \in Full(c) : c[i].packet = a + 1
    BY <1>4, <2>3
  <2>5. i = 1
    <3> SUFFICES ASSUME i # 1 PROVE FALSE
      OBVIOUS
    <3>1. c[1].packet < c[i].packet
      BY <1>4, <1>9, <2>1
    <3> QED
      BY <1>4, <2>2, <2>4, <3>1
  <2>6. \A j \in Full(c) \ {1} : c[j].packet # a + 1 /\ c[j].packet \in (a + 1)..b
    <3>1. \A j \in Full(c) \ {1} : c[1].packet < c[j].packet /\ c[j].packet \in (a + 1)..b
      BY <1>4, <1>9, <2>1
    <3> QED
      BY <1>4, <2>4, <2>5, <3>1
  <2>7. {c[j].packet : j \in Full(c) \ {1}} = ((a + 1) + 1)..b
    <3>1. \A x \in ((a + 1) + 1)..b : x \in (a + 1)..b /\ x # a + 1
      BY <1>4
    <3>2. \A x \in (a + 1)..b : x # a + 1 => x \in ((a + 1) + 1)..b
      BY <1>4
    <3>3. ASSUME NEW x \in ((a + 1) + 1)..b PROVE \E j \in Full(c) \ {1} : x = c[j].packet
      <4>1. PICK j \in Full(c) : x = c[j].packet
        BY <1>4, <3>1, <3>3
      <4>2. j # 1
        BY <2>4, <2>5, <3>1, <3>3, <4>1
      <4> QED
        BY <4>1, <4>2
    <3> QED
      BY <2>6, <3>2, <3>3
  <2>8. a + 1 \in Nat /\ a + 1 <= b
    BY <1>4, <2>3
  <2> QED
    BY <1>4, <1>10, <1>11, <2>4, <2>5, <2>7, <2>8 DEF ReadsWell
<1> QED
  BY <1>2, <1>3, <1>12, <1>13

-----------------------------------------------------------------------------
LEMMA UringInvInit == UringInit => UringInv
<1> SUFFICES ASSUME UringInit PROVE UringInv
  OBVIOUS
<1>1. PICK n \in Nat : n = nr_tx_rx_slots /\ 2 * n <= RingSize /\ RingSize \in Nat
  BY EntriesAre
<1>2. Indexes = 0..(n - 1) /\ \A i \in 1..n : i - 1 \in Indexes
  BY <1>1 DEF Indexes
<1>3. sq \in Seq(Entries) /\ Len(sq) = n /\ \A i \in 1..n : sq[i] = -(i - 1) - 1
  <2>1. sq = [i \in 1..n |-> user_data(TRUE, i - 1)]
    BY <1>1 DEF UringInit
  <2>2. \A i \in 1..n : user_data(TRUE, i - 1) = -(i - 1) - 1 /\ user_data(TRUE, i - 1) \in Entries
    <3> SUFFICES ASSUME NEW i \in 1..n
                 PROVE  user_data(TRUE, i - 1) = -(i - 1) - 1 /\ user_data(TRUE, i - 1) \in Entries
      OBVIOUS
    <3>1. i - 1 \in Indexes
      BY <1>2
    <3> QED
      BY <3>1, EntriesAre
  <2>3. sq \in [1..n -> Entries]
    BY <2>1, <2>2
  <2>4. sq \in Seq(Entries)
    BY <1>1, <2>3, SeqDef
  <2>5. Len(sq) = n
    BY <1>1, <2>3, <2>4, LenProperties
  <2> QED
    BY <2>1, <2>2, <2>4, <2>5
<1>4. tx_slots \in Seq(Indexes) /\ Len(tx_slots) = n /\ \A i \in 1..n : tx_slots[i] = i - 1
  <2>1. tx_slots = [i \in 1..n |-> i - 1]
    BY <1>1 DEF UringInit
  <2> QED
    BY <1>2, <2>1, IsASeq
<1>5. /\ performing = {} /\ cq = <<>> /\ synced = 0 /\ rx_slots = <<>> /\ tx_queue = <<>> /\ rx_queue = <<>>
      /\ tun_in = <<>> /\ written = <<>> /\ failed = {} /\ pulled = <<>> /\ got = <<>> /\ usent = 0 /\ tunned = 0
      /\ tx_bufs = [i \in Indexes |-> Nothing] /\ senders = Indexes /\ sqpoll \in BOOLEAN
  BY UringBounds DEF UringInit
<1>6. /\ <<>> \in Seq(Completion) /\ <<>> \in Seq(Indexes) /\ <<>> \in Seq(Nat) /\ Len(<<>>) = 0
      /\ ToSet(<<>>) = {} /\ OnceOnly(<<>>)
  BY NoneIs
<1>7. Uds(<<>>) = <<>>
  <2>1. Uds(<<>>) \in Seq(Entries) /\ Len(Uds(<<>>)) = 0
    BY <1>6, UdsIs
  <2> QED
    BY <2>1, EmptySeq
<1>8. OnceOnly(sq) /\ OnceOnly(tx_slots)
  <2>1. \A i, j \in 1..n : (-(i - 1) - 1 = -(j - 1) - 1 => i = j) /\ (i - 1 = j - 1 => i = j)
    OBVIOUS
  <2>2. OnceOnly(sq)
    BY <1>3, <2>1 DEF OnceOnly
  <2>3. OnceOnly(tx_slots)
    BY <1>4, <2>1 DEF OnceOnly
  <2> QED
    BY <2>2, <2>3
<1>9. ToSet(sq) = {-i - 1 : i \in Indexes} /\ ToSet(tx_slots) = Indexes
  <2>1. DOMAIN sq = 1..n /\ DOMAIN tx_slots = 1..n
    BY <1>3, <1>4, SeqIs
  <2>2. \A i \in Indexes : i + 1 \in 1..n /\ (i + 1) - 1 = i
    BY <1>2
  <2>3. \A i \in 1..n : sq[i] \in {-j - 1 : j \in Indexes} /\ tx_slots[i] \in Indexes
    BY <1>2, <1>3, <1>4
  <2>4. \A i \in Indexes : sq[i + 1] = -i - 1 /\ tx_slots[i + 1] = i
    <3> SUFFICES ASSUME NEW i \in Indexes
                 PROVE  sq[i + 1] = -i - 1 /\ tx_slots[i + 1] = i
      OBVIOUS
    <3>1. i + 1 \in 1..n /\ (i + 1) - 1 = i
      BY <2>2
    <3>2. sq[i + 1] = -((i + 1) - 1) - 1 /\ tx_slots[i + 1] = (i + 1) - 1
      BY <1>3, <1>4, <3>1
    <3> QED
      BY <3>1, <3>2
  <2>5. ToSet(sq) = {sq[i] : i \in 1..n} /\ ToSet(tx_slots) = {tx_slots[i] : i \in 1..n}
    BY <2>1 DEF ToSet
  <2> QED
    BY <2>2, <2>3, <2>4, <2>5
<1>10. RingWell(sq, performing, cq)
  BY <1>3, <1>5, <1>6, <1>7, <1>8 DEF RingWell
<1>11. InUse(sq, performing, cq) = {-i - 1 : i \in Indexes}
  BY <1>5, <1>6, <1>7, <1>9 DEF InUse
<1>12. SlotsWell(tx_slots, rx_slots, tx_bufs, senders, InUse(sq, performing, cq))
  <2>1. \A i, j \in Indexes : -i - 1 # j
    BY EntriesAre
  <2>2. tx_bufs \in [Indexes -> Nat] /\ \A i \in Indexes : tx_bufs[i] = Nothing
    BY <1>5 DEF Nothing
  <2> QED
    BY <1>4, <1>5, <1>6, <1>8, <1>9, <1>11, <2>1, <2>2 DEF SlotsWell
<1>13. Unwritten(sq, performing) = {}
  <2>1. \A i, j \in Indexes : -i - 1 # j
    BY EntriesAre
  <2> QED
    BY <1>5, <1>9, <2>1 DEF Unwritten
<1>14. SendsWell(tx_queue, written, failed, tx_bufs, Unwritten(sq, performing), usent)
  <2>1. Bufs(tx_bufs, {}) = {}
    BY DEF Bufs
  <2>2. 1..0 = {} /\ 0 \in Nat
    OBVIOUS
  <2> QED
    BY <1>5, <1>6, <1>13, <2>1, <2>2 DEF SendsWell, Parted
<1>15. ReadSide
  <2>1. CountsOn(<<>>, 0)
    BY <1>6 DEF CountsOn
  <2>2. Full(<<>>) = {} /\ (0 + 1)..0 = {}
    BY <1>6 DEF Full
  <2>3. ReadsWell(<<>>, 0, 0)
    BY <2>2 DEF ReadsWell
  <2> QED
    BY <1>5, <1>6, <2>1, <2>3 DEF ReadSide
<1>16. Within
  <2>1. Cardinality(Indexes) = n
    <3>1. Cardinality(0..(n - 1)) = IF 0 > n - 1 THEN 0 ELSE (n - 1) - 0 + 1
      BY FS_Interval
    <3> QED
      BY <1>2, <3>1
  <2>2. Len(sq) <= RingSize /\ Len(rx_queue) + Cardinality(senders) <= RingSize
    BY <1>1, <1>3, <1>5, <1>6, <2>1
  <2>3. synced \in 0..Len(cq)
    BY <1>5, <1>6
  <2> QED
    BY <1>5, <2>2, <2>3 DEF Within
<1> QED
  <2>1. PlainWrites(cq)
    BY <1>5, <1>6 DEF PlainWrites
  <2> QED
    BY <1>10, <1>12, <1>14, <1>15, <1>16, <2>1 DEF UringInv

(* The application and the host.                                           *)
LEMMA EndsKeep ==
  ASSUME UringInv, try_send \/ recv \/ HostSends
  PROVE  UringInv'
<1>0. /\ RingWell(sq, performing, cq) /\ ReadSide /\ Within /\ PlainWrites(cq)
      /\ SlotsWell(tx_slots, rx_slots, tx_bufs, senders, InUse(sq, performing, cq))
      /\ SendsWell(tx_queue, written, failed, tx_bufs, Unwritten(sq, performing), usent)
  BY DEF UringInv
<1>1. UNCHANGED <<ringState, slotState, sqpoll, written, failed, pulled>>
  BY DEF try_send, recv, HostSends, hostState
<1>2. UNCHANGED <<sq, performing, cq, synced, tx_slots, rx_slots, tx_bufs, senders>>
  BY <1>1 DEF ringState, slotState
<1>3. RingWell(sq', performing', cq') /\ SlotsWell(tx_slots', rx_slots', tx_bufs', senders', InUse(sq', performing', cq'))
  BY <1>0, <1>2
<1>4. SendsWell(tx_queue', written', failed', tx_bufs', Unwritten(sq', performing'), usent')
  <2>1. CASE try_send
    <3>1. tx_queue' = Append(tx_queue, usent + 1) /\ usent' = usent + 1
      BY <2>1 DEF try_send
    <3> QED
      BY <1>0, <1>1, <1>2, <3>1, SendAccepted
  <2>2. CASE recv \/ HostSends
    <3>1. UNCHANGED <<tx_queue, usent>>
      BY <2>2 DEF recv, HostSends, appState
    <3> QED
      BY <1>0, <1>1, <1>2, <3>1
  <2> QED
    BY <2>1, <2>2
<1>5. ReadSide' /\ Len(rx_queue') <= Len(rx_queue) /\ Len(rx_queue) \in Nat /\ Len(rx_queue') \in Nat
  <2>0. /\ ReadsWell(cq, Len(got) + Len(rx_queue), Len(pulled))
        /\ CountsOn(got, 0) /\ CountsOn(rx_queue, Len(got)) /\ CountsOn(pulled, 0) /\ CountsOn(tun_in, Len(pulled))
        /\ tunned = Len(pulled) + Len(tun_in)
    BY <1>0 DEF ReadSide
  <2>1. PICK g \in Nat, r \in Nat, p \in Nat, t \in Nat : g = Len(got) /\ r = Len(rx_queue) /\ p = Len(pulled) /\ t = Len(tun_in)
    BY <2>0, CountsOnIs
  <2>2. CASE try_send
    <3>1. UNCHANGED <<got, rx_queue, tun_in, tunned>>
      BY <2>2 DEF try_send, hostState
    <3> QED
      BY <1>1, <1>2, <2>0, <2>1, <3>1 DEF ReadSide
  <2>3. CASE recv
    <3>1. /\ rx_queue # <<>> /\ got' = Append(got, Head(rx_queue)) /\ rx_queue' = Tail(rx_queue)
          /\ UNCHANGED <<tun_in, tunned>>
      BY <2>3 DEF recv, hostState
    <3>2. Head(rx_queue) = g + 1 /\ CountsOn(rx_queue', g + 1) /\ Len(rx_queue') = r - 1 /\ r > 0
      <4>1. CountsOn(rx_queue, g)
        BY <2>0, <2>1
      <4>2. /\ Head(rx_queue) = g + 1 /\ CountsOn(Tail(rx_queue), g + 1)
            /\ Len(Tail(rx_queue)) = Len(rx_queue) - 1 /\ Len(rx_queue) > 0
        BY <3>1, <4>1, CountsOnAfter
      <4> QED
        BY <2>1, <3>1, <4>2
    <3>3. CountsOn(got', 0) /\ Len(got') = g + 1
      <4>1. 0 + g + 1 = g + 1 /\ g + 1 \in Nat
        OBVIOUS
      <4>2. CountsOn(Append(got, g + 1), 0)
        BY <2>0, <2>1, <4>1, CountsOnIs
      <4>3. Len(Append(got, g + 1)) = g + 1
        BY <2>0, <2>1, <4>1, AppendIs DEF CountsOn
      <4> QED
        BY <3>1, <3>2, <4>2, <4>3
    <3>4. Len(got') + Len(rx_queue') = Len(got) + Len(rx_queue)
      BY <2>1, <3>2, <3>3
    <3>5. CountsOn(rx_queue', Len(got'))
      BY <3>2, <3>3
    <3>6. ReadSide'
      BY <1>1, <1>2, <2>0, <3>1, <3>3, <3>4, <3>5 DEF ReadSide
    <3> QED
      BY <2>1, <3>2, <3>6
  <2>4. CASE HostSends
    <3>1. tunned' = tunned + 1 /\ tun_in' = Append(tun_in, tunned + 1) /\ UNCHANGED <<got, rx_queue>>
      BY <2>4 DEF HostSends, appState
    <3>2. tunned + 1 = p + t + 1 /\ tunned + 1 \in Nat
      BY <2>0, <2>1
    <3>3. CountsOn(tun_in', p)
      BY <2>0, <2>1, <3>1, <3>2, CountsOnIs
    <3>4. Len(tun_in') = t + 1
      BY <2>0, <2>1, <3>1, <3>2, AppendIs DEF CountsOn
    <3>5. tunned' = Len(pulled) + Len(tun_in')
      BY <2>1, <3>1, <3>2, <3>4
    <3> QED
      BY <1>1, <1>2, <2>0, <2>1, <3>1, <3>3, <3>5 DEF ReadSide
  <2> QED
    BY <2>2, <2>3, <2>4
<1>6. Within'
  <2>1. Cardinality(senders) \in Int
    <3>1. IsFiniteSet(Indexes) /\ senders \in SUBSET Indexes
      <4>1. senders \in SUBSET Indexes
        BY <1>0 DEF SlotsWell
      <4>2. nr_tx_rx_slots - 1 \in Int
        BY EntriesAre
      <4> QED
        BY <4>1, <4>2, FS_Interval DEF Indexes
    <3> QED
      BY <3>1, FS_Subset, FS_CardinalityType
  <2>2. Len(rx_queue) + Cardinality(senders) <= RingSize /\ RingSize \in Nat
    BY <1>0, EntriesAre DEF Within
  <2>3. Len(rx_queue') + Cardinality(senders) <= RingSize
    BY <1>5, <2>1, <2>2
  <2> QED
    BY <1>0, <1>1, <1>2, <2>3 DEF Within
<1>7. PlainWrites(cq')
  BY <1>0, <1>2
<1> QED
  BY <1>3, <1>4, <1>5, <1>6, <1>7 DEF UringInv

(* Completions keep the writes plain, and the permits are finitely many.   *)
LEMMA PlainIs ==
  ASSUME NEW c \in Seq(Completion), PlainWrites(c)
  PROVE  /\ \A r \in Completion : (r.user_data \in Indexes => r.packet = Nothing) => PlainWrites(Append(c, r))
         /\ c # <<>> => PlainWrites(Tail(c)) /\ (Head(c).user_data \in Indexes => Head(c).packet = Nothing)
<1>1. PICK n \in Nat : n = Len(c)
  BY SeqIs
<1>2. ASSUME NEW r \in Completion, r.user_data \in Indexes => r.packet = Nothing
      PROVE  PlainWrites(Append(c, r))
  <2>1. Len(Append(c, r)) = n + 1 /\ (\A i \in 1..n : Append(c, r)[i] = c[i]) /\ Append(c, r)[n + 1] = r
    BY <1>1, AppendIs
  <2>2. \A i \in 1..(n + 1) : i \in 1..n \/ i = n + 1
    OBVIOUS
  <2> QED
    BY <1>1, <1>2, <2>1, <2>2 DEF PlainWrites
<1>3. ASSUME c # <<>>
      PROVE  PlainWrites(Tail(c)) /\ (Head(c).user_data \in Indexes => Head(c).packet = Nothing)
  <2>1. n > 0 /\ Len(Tail(c)) = n - 1 /\ (\A i \in 1..(n - 1) : Tail(c)[i] = c[i + 1]) /\ Head(c) = c[1]
    BY <1>1, <1>3, TailIs
  <2>2. 1 \in 1..n /\ \A i \in 1..(n - 1) : i + 1 \in 1..n
    BY <2>1
  <2> QED
    BY <1>1, <2>1, <2>2 DEF PlainWrites
<1> QED
  BY <1>2, <1>3

LEMMA PermitsAreFinite ==
  ASSUME NEW P, P \subseteq Indexes
  PROVE  IsFiniteSet(P) /\ Cardinality(P) \in Nat
<1>1. IsFiniteSet(Indexes)
  <2>1. nr_tx_rx_slots - 1 \in Int
    BY EntriesAre
  <2> QED
    BY <2>1, FS_Interval DEF Indexes
<1> QED
  BY <1>1, FS_Subset, FS_CardinalityType

(* What every step of the ring, the slots and the writes has to show.      *)
LEMMA ReadSideKept ==
  ASSUME ReadSide, UNCHANGED <<cq, got, rx_queue, pulled, tun_in, tunned>>
  PROVE  ReadSide'
BY DEF ReadSide

(* The ring hands entries to the kernel, or the task moves on.             *)
LEMMA RingMoves ==
  ASSUME UringInv,
         UNCHANGED <<sqpoll, cq, tx_slots, rx_slots, tx_bufs, senders, tx_queue, rx_queue>>,
         UNCHANGED <<tun_in, written, failed, pulled, tunned, got, usent>>,
         RingWell(sq', performing', cq), InUse(sq', performing', cq) = InUse(sq, performing, cq),
         Unwritten(sq', performing') = Unwritten(sq, performing), Len(sq') <= RingSize, synced' \in 0..Len(cq)
  PROVE  UringInv'
<1>1. /\ SlotsWell(tx_slots, rx_slots, tx_bufs, senders, InUse(sq, performing, cq)) /\ ReadSide /\ Within
      /\ SendsWell(tx_queue, written, failed, tx_bufs, Unwritten(sq, performing), usent) /\ PlainWrites(cq)
  BY DEF UringInv
<1>2. /\ RingWell(sq', performing', cq')
      /\ SlotsWell(tx_slots', rx_slots', tx_bufs', senders', InUse(sq', performing', cq'))
      /\ SendsWell(tx_queue', written', failed', tx_bufs', Unwritten(sq', performing'), usent')
      /\ PlainWrites(cq')
  BY <1>1
<1>3. ReadSide'
  BY <1>1, ReadSideKept
<1>4. Within'
  BY <1>1 DEF Within
<1> QED
  BY <1>2, <1>3, <1>4 DEF UringInv

LEMMA MovesKeep ==
  ASSUME UringInv,
         KernelTakes \/ Submit \/ CheckEmpty \/ WaitForEvent \/ SyncAfterWait \/ TurnEnds \/ UNCHANGED uringVars
  PROVE  UringInv'
<1>1. /\ UNCHANGED <<sqpoll, cq, tx_slots, rx_slots, tx_bufs, senders, tx_queue, rx_queue>>
      /\ UNCHANGED <<tun_in, written, failed, pulled, tunned, got, usent>>
  BY DEF KernelTakes, Submit, CheckEmpty, WaitForEvent, SyncAfterWait, TurnEnds, uringVars, ringState, slotState,
         hostState, appState
<1>2. RingWell(sq, performing, cq) /\ Within
  BY DEF UringInv
<1>3. Len(cq) \in Nat /\ Len(sq) \in Nat /\ RingSize \in Nat /\ synced \in 0..Len(cq) /\ Len(sq) <= RingSize
  BY <1>2, SeqIs, EntriesAre DEF RingWell, Within
<1>4. synced' \in 0..Len(cq)
  <2>1. synced' = synced \/ synced' = Len(cq)
    BY DEF KernelTakes, Submit, CheckEmpty, WaitForEvent, SyncAfterWait, TurnEnds, uringVars, ringState
  <2> QED
    BY <1>3, <2>1
<1>5. CASE UNCHANGED <<sq, performing>>
  BY <1>1, <1>2, <1>3, <1>4, <1>5, RingMoves
<1>6. CASE KernelTakes
  <2>1. sq # <<>> /\ sq' = Tail(sq) /\ performing' = performing \cup {Head(sq)}
    BY <1>6 DEF KernelTakes
  <2>2. /\ RingWell(sq', performing', cq) /\ Len(sq') <= Len(sq)
        /\ InUse(sq', performing', cq) = InUse(sq, performing, cq)
        /\ Unwritten(sq', performing') = Unwritten(sq, performing)
    BY <1>2, <2>1, RingTakes
  <2>3. Len(sq') \in Nat
    BY <2>2, SeqIs DEF RingWell
  <2>4. Len(sq') <= RingSize
    BY <1>3, <2>2, <2>3
  <2> QED
    BY <1>1, <1>4, <2>2, <2>4, RingMoves
<1>7. CASE sq' = <<>> /\ performing' = performing \cup ToSet(sq)
  <2>1. /\ RingWell(sq', performing', cq) /\ InUse(sq', performing', cq) = InUse(sq, performing, cq)
        /\ Unwritten(sq', performing') = Unwritten(sq, performing)
    BY <1>2, <1>7, RingSubmits
  <2>2. Len(sq') = 0
    BY <1>7, NoneIs
  <2>3. Len(sq') <= RingSize
    BY <1>3, <2>2
  <2> QED
    BY <1>1, <1>4, <2>1, <2>3, RingMoves
<1>8. KernelTakes \/ (UNCHANGED <<sq, performing>>) \/ (sq' = <<>> /\ performing' = performing \cup ToSet(sq))
  BY DEF Submit, CheckEmpty, WaitForEvent, SyncAfterWait, TurnEnds, uringVars, ringState
<1> QED
  BY <1>5, <1>6, <1>7, <1>8

LEMMA RingAfter ==
  ASSUME RingWell(sq, performing, cq), NEW u \in performing, NEW r \in Completion, r.user_data = u
  PROVE  /\ RingWell(sq, performing \ {u}, Append(cq, r))
         /\ InUse(sq, performing \ {u}, Append(cq, r)) = InUse(sq, performing, cq)
         /\ Unwritten(sq, performing \ {u}) = Unwritten(sq, performing) \ {u}
BY RingCompletes

(* The kernel ends a read or a write.                                      *)
LEMMA CompletionKeeps ==
  ASSUME UringInv, NEW u, NEW p \in Nat, Completes(u, p), u \in Indexes => p = Nothing,
         SendsWell(tx_queue, written', failed', tx_bufs, Unwritten(sq, performing) \ {u}, usent),
         ReadsWell(cq', Len(got) + Len(rx_queue), Len(pulled')), CountsOn(pulled', 0),
         CountsOn(tun_in', Len(pulled')), tunned = Len(pulled') + Len(tun_in')
  PROVE  UringInv'
<1>0. PICK r : r = [user_data |-> u, packet |-> p]
  OBVIOUS
<1>1. /\ RingWell(sq, performing, cq) /\ ReadSide /\ Within /\ PlainWrites(cq)
      /\ SlotsWell(tx_slots, rx_slots, tx_bufs, senders, InUse(sq, performing, cq))
  BY DEF UringInv
<1>2. /\ u \in performing /\ performing' = performing \ {u} /\ cq' = Append(cq, r)
      /\ UNCHANGED <<sqpoll, sq, synced, tx_slots, rx_slots, tx_bufs, senders, tx_queue, rx_queue, tunned, got, usent>>
  BY <1>0 DEF Completes, slotState, appState
<1>3. /\ RingWell(sq, performing \ {u}, Append(cq, r)) /\ r \in Completion
      /\ InUse(sq, performing \ {u}, Append(cq, r)) = InUse(sq, performing, cq)
      /\ Unwritten(sq, performing \ {u}) = Unwritten(sq, performing) \ {u}
  <2>1. u \in performing /\ u \in Entries /\ RingWell(sq, performing, cq)
    BY <1>1, <1>2 DEF RingWell
  <2>2. r \in Completion /\ r.user_data = u
    BY <1>0, <2>1 DEF Completion
  <2> QED
    BY <2>1, <2>2, RingAfter
<1>4. RingWell(sq', performing', cq') /\ InUse(sq', performing', cq') = InUse(sq, performing, cq)
  BY <1>2, <1>3
<1>5. SlotsWell(tx_slots', rx_slots', tx_bufs', senders', InUse(sq', performing', cq'))
  BY <1>1, <1>2, <1>4
<1>6. SendsWell(tx_queue', written', failed', tx_bufs', Unwritten(sq', performing'), usent')
  BY <1>2, <1>3
<1>7. cq \in Seq(Completion)
  BY <1>1 DEF RingWell
<1>8. PlainWrites(cq')
  <2>1. r.user_data = u /\ r.packet = p
    BY <1>0
  <2> QED
    BY <1>1, <1>2, <1>3, <1>7, <2>1, PlainIs
<1>9. ReadSide'
  <2>1. CountsOn(got, 0) /\ CountsOn(rx_queue, Len(got))
    BY <1>1 DEF ReadSide
  <2> QED
    BY <1>2, <2>1 DEF ReadSide
<1>10. Within'
  <2>1. Len(cq) \in Nat /\ Len(cq') = Len(cq) + 1
    BY <1>2, <1>3, <1>7, AppendIs, SeqIs
  <2>2. synced' \in 0..Len(cq')
    BY <1>1, <1>2, <2>1 DEF Within
  <2> QED
    BY <1>1, <1>2, <2>2 DEF Within
<1> QED
  BY <1>4, <1>5, <1>6, <1>8, <1>9, <1>10 DEF UringInv

LEMMA KernelKeeps ==
  ASSUME UringInv, NEW u, KernelWrites(u, TRUE) \/ KernelWrites(u, FALSE) \/ KernelReads(u) \/ ReadEndsEmpty(u)
  PROVE  UringInv'
<1>1. /\ RingWell(sq, performing, cq) /\ ReadSide
      /\ SendsWell(tx_queue, written, failed, tx_bufs, Unwritten(sq, performing), usent)
  BY DEF UringInv
<1>2. /\ ReadsWell(cq, Len(got) + Len(rx_queue), Len(pulled)) /\ CountsOn(pulled, 0)
      /\ CountsOn(tun_in, Len(pulled)) /\ tunned = Len(pulled) + Len(tun_in)
  BY <1>1 DEF ReadSide
<1>3. u \in performing /\ u \in Entries /\ cq \in Seq(Completion)
  BY <1>1 DEF KernelWrites, KernelReads, ReadEndsEmpty, Completes, RingWell
<1>4. Nothing \in Nat
  BY DEF Nothing
<1>5. ASSUME NEW p \in Nat, Completes(u, p)
      PROVE  /\ p = Nothing => ReadsWell(cq', Len(got) + Len(rx_queue), Len(pulled))
             /\ p = Len(pulled) + 1 => ReadsWell(cq', Len(got) + Len(rx_queue), Len(pulled) + 1)
  <2> DEFINE r == [user_data |-> u, packet |-> p]
  <2>1. r \in Completion /\ r.packet = p
    BY <1>3 DEF Completion
  <2>2. cq' = Append(cq, r)
    BY <1>5 DEF Completes
  <2> QED
    BY <1>2, <1>3, <2>1, <2>2, ReadCompleted
<1>6. CASE KernelWrites(u, TRUE) \/ KernelWrites(u, FALSE)
  <2>1. ~IsRx(u) /\ Completes(u, Nothing) /\ UNCHANGED <<tun_in, pulled>>
    BY <1>6 DEF KernelWrites
  <2>2. u \in Indexes /\ idx_of(u) = u /\ u \in Unwritten(sq, performing)
    BY <1>3, <2>1, EntriesAre DEF Unwritten
  <2>3. \/ written' = Append(written, tx_bufs[u]) /\ failed' = failed
        \/ written' = written /\ failed' = failed \cup {tx_bufs[u]}
    BY <1>6, <2>2 DEF KernelWrites
  <2>4. SendsWell(tx_queue, written', failed', tx_bufs, Unwritten(sq, performing) \ {u}, usent)
    <3>1. /\ SendsWell(tx_queue, Append(written, tx_bufs[u]), failed, tx_bufs, Unwritten(sq, performing) \ {u}, usent)
          /\ SendsWell(tx_queue, written, failed \cup {tx_bufs[u]}, tx_bufs, Unwritten(sq, performing) \ {u}, usent)
      BY <1>1, <2>2, SendEnds
    <3> QED
      BY <2>3, <3>1
  <2>5. /\ ReadsWell(cq', Len(got) + Len(rx_queue), Len(pulled')) /\ CountsOn(pulled', 0)
        /\ CountsOn(tun_in', Len(pulled')) /\ tunned = Len(pulled') + Len(tun_in')
    BY <1>2, <1>4, <1>5, <2>1
  <2> QED
    BY <1>4, <2>1, <2>4, <2>5, CompletionKeeps
<1>7. ASSUME IsRx(u)
      PROVE  u \notin Indexes /\ Unwritten(sq, performing) \ {u} = Unwritten(sq, performing)
  <2>1. u \notin Indexes
    BY <1>3, <1>7, EntriesAre
  <2> QED
    BY <2>1 DEF Unwritten
<1>8. CASE ReadEndsEmpty(u)
  <2>1. IsRx(u) /\ Completes(u, Nothing) /\ UNCHANGED <<tun_in, pulled, written, failed>>
    BY <1>8 DEF ReadEndsEmpty
  <2>2. SendsWell(tx_queue, written', failed', tx_bufs, Unwritten(sq, performing) \ {u}, usent)
    BY <1>1, <1>7, <2>1
  <2>3. /\ ReadsWell(cq', Len(got) + Len(rx_queue), Len(pulled')) /\ CountsOn(pulled', 0)
        /\ CountsOn(tun_in', Len(pulled')) /\ tunned = Len(pulled') + Len(tun_in')
    BY <1>2, <1>4, <1>5, <2>1
  <2> QED
    BY <1>4, <2>1, <2>2, <2>3, CompletionKeeps
<1>9. CASE KernelReads(u)
  <2>1. PICK b \in Nat, t \in Nat : b = Len(pulled) /\ t = Len(tun_in)
    BY <1>2, CountsOnIs
  <2>2. /\ IsRx(u) /\ tun_in # <<>> /\ Completes(u, Head(tun_in)) /\ tun_in' = Tail(tun_in)
        /\ pulled' = Append(pulled, Head(tun_in)) /\ UNCHANGED <<written, failed>>
    BY <1>9 DEF KernelReads
  <2>3. CountsOn(tun_in, b) /\ CountsOn(pulled, 0)
    BY <1>2, <2>1
  <2>4. Head(tun_in) = b + 1 /\ CountsOn(Tail(tun_in), b + 1) /\ Len(Tail(tun_in)) = t - 1 /\ b + 1 \in Nat
    <3>1. /\ Head(tun_in) = b + 1 /\ CountsOn(Tail(tun_in), b + 1)
          /\ Len(Tail(tun_in)) = Len(tun_in) - 1
      BY <2>2, <2>3, CountsOnAfter
    <3> QED
      BY <2>1, <3>1
  <2>5. CountsOn(Append(pulled, b + 1), 0) /\ Len(Append(pulled, b + 1)) = b + 1
    <3>1. 0 + b + 1 = b + 1
      BY <2>1
    <3>2. CountsOn(Append(pulled, 0 + b + 1), 0)
      BY <2>1, <2>3, CountsOnIs
    <3>3. pulled \in Seq(Nat)
      BY <2>3 DEF CountsOn
    <3> QED
      BY <2>1, <2>4, <3>1, <3>2, <3>3, AppendIs
  <2>6. ReadsWell(cq', Len(got) + Len(rx_queue), b + 1)
    BY <1>5, <2>1, <2>2, <2>4
  <2>7. tunned = (b + 1) + (t - 1)
    BY <1>2, <2>1
  <2>8. pulled' = Append(pulled, b + 1) /\ Len(pulled') = b + 1 /\ CountsOn(pulled', 0)
    BY <2>2, <2>4, <2>5
  <2>9. /\ ReadsWell(cq', Len(got) + Len(rx_queue), Len(pulled')) /\ CountsOn(tun_in', Len(pulled'))
        /\ tunned = Len(pulled') + Len(tun_in')
    BY <2>2, <2>4, <2>6, <2>7, <2>8
  <2>10. SendsWell(tx_queue, written', failed', tx_bufs, Unwritten(sq, performing) \ {u}, usent)
    BY <1>1, <1>7, <2>2
  <2>11. u \notin Indexes
    BY <1>7, <2>2
  <2> QED
    BY <2>2, <2>4, <2>8, <2>9, <2>10, <2>11, CompletionKeeps
<1> QED
  BY <1>6, <1>8, <1>9

(* A full queue is handed to the kernel before an entry is pushed.         *)
Handed == IF SqFull /\ ~sqpoll THEN performing \cup ToSet(sq) ELSE performing

LEMMA PendingIs ==
  ASSUME UringInv
  PROVE  /\ RingWell(Pending, Handed, cq) /\ InUse(Pending, Handed, cq) = InUse(sq, performing, cq)
         /\ Unwritten(Pending, Handed) = Unwritten(sq, performing) /\ Len(Pending) \in Nat
<1>1. RingWell(sq, performing, cq)
  BY DEF UringInv
<1>2. /\ RingWell(Pending, Handed, cq) /\ InUse(Pending, Handed, cq) = InUse(sq, performing, cq)
      /\ Unwritten(Pending, Handed) = Unwritten(sq, performing)
  <2>1. CASE SqFull /\ ~sqpoll
    BY <1>1, <2>1, RingSubmits DEF Pending, Handed
  <2>2. CASE ~(SqFull /\ ~sqpoll)
    BY <1>1, <2>2 DEF Pending, Handed
  <2> QED
    BY <2>1, <2>2
<1>3. Pending \in Seq(Entries)
  BY <1>2 DEF RingWell
<1> QED
  BY <1>2, <1>3, SeqIs

(* Half of the ring is for writes and half for reads, so that an entry     *)
(* whose slot is free always finds room.                                   *)
LEMMA PushIs ==
  ASSUME UringInv, NEW u \in Entries, u \notin InUse(sq, performing, cq), sq' = Append(Pending, u), performing' = Handed
  PROVE  /\ RingWell(sq', performing', cq) /\ Len(sq') <= RingSize
         /\ InUse(sq', performing', cq) = InUse(sq, performing, cq) \cup {u}
         /\ u \in Indexes => Unwritten(sq', performing') = Unwritten(sq, performing) \cup {u}
         /\ u \notin Indexes => Unwritten(sq', performing') = Unwritten(sq, performing)
<1>1. /\ RingWell(Pending, Handed, cq) /\ InUse(Pending, Handed, cq) = InUse(sq, performing, cq)
      /\ Unwritten(Pending, Handed) = Unwritten(sq, performing) /\ Len(Pending) \in Nat
  BY PendingIs
<1>2. u \notin InUse(Pending, Handed, cq)
  BY <1>1
<1>3. /\ RingWell(Append(Pending, u), Handed, cq) /\ Len(Append(Pending, u)) = Len(Pending) + 1
      /\ InUse(Append(Pending, u), Handed, cq) = InUse(Pending, Handed, cq) \cup {u}
      /\ u \in Indexes => Unwritten(Append(Pending, u), Handed) = Unwritten(Pending, Handed) \cup {u}
      /\ u \notin Indexes => Unwritten(Append(Pending, u), Handed) = Unwritten(Pending, Handed)
  BY <1>1, <1>2, RingPushes
<1>4. Len(Pending) < RingSize
  <2>1. Pending \in Seq(Entries) /\ OnceOnly(Pending) /\ u \notin ToSet(Pending)
    BY <1>1, <1>2 DEF RingWell, InUse
  <2> QED
    BY <2>1, RoomToPush
<1>5. Len(sq') <= RingSize
  BY <1>1, <1>3, <1>4, EntriesAre
<1> QED
  BY <1>1, <1>3, <1>5

LEMMA RoomWhenFree ==
  ASSUME UringInv, NEW u \in Entries, u \notin InUse(sq, performing, cq)
  PROVE  Len(Pending) < RingSize
<1>1. RingWell(Pending, Handed, cq) /\ u \notin InUse(Pending, Handed, cq)
  BY PendingIs
<1>2. Pending \in Seq(Entries) /\ OnceOnly(Pending) /\ u \notin ToSet(Pending)
  BY <1>1 DEF RingWell, InUse
<1> QED
  BY <1>2, RoomToPush

LEMMA PushTxKeeps ==
  ASSUME UringInv, push_one_tx_event_to, tx_slots # <<>>, tx_queue # <<>>, performing' = Handed,
         UNCHANGED <<cq, synced, rx_slots, senders, sqpoll, tun_in, written, failed, pulled, tunned>>,
         UNCHANGED <<rx_queue, got, usent>>
  PROVE  UringInv'
<1>1. PICK i : i = Last(tx_slots)
  OBVIOUS
<1>2. /\ SlotsWell(tx_slots, rx_slots, tx_bufs, senders, InUse(sq, performing, cq)) /\ ReadSide /\ Within
      /\ SendsWell(tx_queue, written, failed, tx_bufs, Unwritten(sq, performing), usent) /\ PlainWrites(cq)
  BY DEF UringInv
<1>3. i \in Indexes /\ i \notin InUse(sq, performing, cq)
  <2>1. tx_slots \in Seq(Indexes) /\ \A j \in Indexes : j \in ToSet(tx_slots) => j \notin InUse(sq, performing, cq)
    BY <1>2 DEF SlotsWell
  <2> QED
    BY <1>1, <2>1, FrontIs
<1>4. i \in Entries /\ user_data(FALSE, i) = i /\ i \notin Unwritten(sq, performing)
  BY <1>3, EntriesAre DEF Unwritten, InUse
<1>5. tx_bufs \in [Indexes -> Nat] /\ Unwritten(sq, performing) \in SUBSET Indexes
  BY <1>2 DEF SlotsWell, Unwritten
<1>6. /\ Head(tx_queue) \in Nat /\ Head(tx_queue) # Nothing
      /\ SendsWell(Tail(tx_queue), written, failed, [tx_bufs EXCEPT ![i] = Head(tx_queue)],
                   Unwritten(sq, performing) \cup {i}, usent)
  BY <1>2, <1>3, <1>4, <1>5, SendPushed
<1>7. SlotsWell(Front(tx_slots), rx_slots, [tx_bufs EXCEPT ![i] = Head(tx_queue)], senders, InUse(sq, performing, cq) \cup {i})
  BY <1>1, <1>2, <1>6, SlotTaken
<1>8. Len(Pending) < RingSize
  BY <1>3, <1>4, RoomWhenFree
<1>9. ~(Len(Pending) >= RingSize)
  BY <1>8, PendingIs, EntriesAre
<1>10. /\ tx_queue' = Tail(tx_queue) /\ tx_slots' = Front(tx_slots) /\ sq' = Append(Pending, i)
       /\ tx_bufs' = [tx_bufs EXCEPT ![i] = Head(tx_queue)]
  BY <1>1, <1>4, <1>9 DEF push_one_tx_event_to
<1>11. /\ RingWell(sq', performing', cq) /\ Len(sq') <= RingSize
       /\ InUse(sq', performing', cq) = InUse(sq, performing, cq) \cup {i}
       /\ Unwritten(sq', performing') = Unwritten(sq, performing) \cup {i}
  BY <1>3, <1>4, <1>10, PushIs
<1>12. RingWell(sq', performing', cq') /\ PlainWrites(cq')
  BY <1>2, <1>11
<1>13. SlotsWell(tx_slots', rx_slots', tx_bufs', senders', InUse(sq', performing', cq'))
  BY <1>7, <1>10, <1>11
<1>14. SendsWell(tx_queue', written', failed', tx_bufs', Unwritten(sq', performing'), usent')
  BY <1>6, <1>10, <1>11
<1>15. ReadSide'
  BY <1>2, ReadSideKept
<1>16. Within'
  BY <1>2, <1>11 DEF Within
<1> QED
  BY <1>12, <1>13, <1>14, <1>15, <1>16 DEF UringInv

LEMMA PushesKeep ==
  ASSUME UringInv, WaitForTx \/ push_tx_events_to \/ push_rx_events_to
  PROVE  UringInv'
<1>1. CASE WaitForTx
  <2>1. Handed = performing
    BY <1>1 DEF WaitForTx, Handed
  <2> QED
    BY <1>1, <2>1, PushTxKeeps DEF WaitForTx, hostState, appState
<1>2. RingWell(sq, performing, cq) /\ Len(sq) <= RingSize /\ synced \in 0..Len(cq)
  BY DEF UringInv, Within
<1>3. CASE push_tx_events_to
  <2>1. CASE tx_slots # <<>> /\ tx_queue # <<>>
    <3>1. push_one_tx_event_to /\ performing' = Handed
      BY <1>3, <2>1 DEF push_tx_events_to, SubmitFull, Handed
    <3> QED
      BY <1>3, <2>1, <3>1, PushTxKeeps DEF push_tx_events_to, hostState, appState
  <2>2. CASE ~(tx_slots # <<>> /\ tx_queue # <<>>)
    <3>1. UNCHANGED <<sq, performing, tx_slots, tx_bufs, tx_queue>>
      BY <1>3, <2>2 DEF push_tx_events_to
    <3> QED
      BY <1>2, <1>3, <3>1, RingMoves DEF push_tx_events_to, hostState, appState
  <2> QED
    BY <2>1, <2>2
<1>4. CASE push_rx_events_to
  <2>1. CASE rx_slots # <<>> /\ Len(Pending) < RingSize
    <3>1. PICK i : i = Last(rx_slots)
      OBVIOUS
    <3>2. /\ SlotsWell(tx_slots, rx_slots, tx_bufs, senders, InUse(sq, performing, cq)) /\ ReadSide /\ Within
          /\ SendsWell(tx_queue, written, failed, tx_bufs, Unwritten(sq, performing), usent) /\ PlainWrites(cq)
      BY DEF UringInv
    <3>3. /\ i \in Indexes /\ -i - 1 \notin InUse(sq, performing, cq)
          /\ SlotsWell(tx_slots, Front(rx_slots), tx_bufs, senders, InUse(sq, performing, cq) \cup {-i - 1})
      BY <2>1, <3>1, <3>2, ReadSlotTaken
    <3>4. user_data(TRUE, i) = -i - 1 /\ -i - 1 \in Entries /\ -i - 1 \notin Indexes
      BY <3>3, EntriesAre
    <3>5. sq' = Append(Pending, -i - 1) /\ performing' = Handed /\ rx_slots' = Front(rx_slots)
      BY <1>4, <2>1, <3>1, <3>4 DEF push_rx_events_to, SubmitFull, Handed
    <3>6. /\ UNCHANGED <<cq, synced, tx_slots, tx_bufs, senders, sqpoll, tun_in, written, failed, pulled, tunned>>
          /\ UNCHANGED <<tx_queue, rx_queue, got, usent>>
      BY <1>4 DEF push_rx_events_to, hostState, appState
    <3>7. /\ RingWell(sq', performing', cq) /\ Len(sq') <= RingSize
          /\ InUse(sq', performing', cq) = InUse(sq, performing, cq) \cup {-i - 1}
          /\ Unwritten(sq', performing') = Unwritten(sq, performing)
      BY <3>3, <3>4, <3>5, PushIs
    <3>8. /\ RingWell(sq', performing', cq') /\ PlainWrites(cq')
          /\ SlotsWell(tx_slots', rx_slots', tx_bufs', senders', InUse(sq', performing', cq'))
          /\ SendsWell(tx_queue', written', failed', tx_bufs', Unwritten(sq', performing'), usent')
      BY <3>2, <3>3, <3>5, <3>6, <3>7
    <3>9. ReadSide'
      BY <3>2, <3>6, ReadSideKept
    <3>10. Within'
      BY <3>2, <3>6, <3>7 DEF Within
    <3> QED
      BY <3>8, <3>9, <3>10 DEF UringInv
  <2>2. CASE ~(rx_slots # <<>> /\ Len(Pending) < RingSize)
    <3>1. UNCHANGED <<sq, performing, rx_slots>>
      BY <1>4, <2>2 DEF push_rx_events_to
    <3> QED
      BY <1>2, <1>4, <3>1, RingMoves DEF push_rx_events_to, hostState, appState
  <2> QED
    BY <2>1, <2>2
<1> QED
  BY <1>1, <1>3, <1>4

(* The task takes a completion.                                            *)
LEMMA Reaped ==
  ASSUME UringInv, NEW u, Done(u), cq' = Tail(cq), synced' = synced - 1
  PROVE  /\ u \in InUse(sq, performing, cq) /\ u \notin Unwritten(sq, performing)
         /\ RingWell(sq, performing, cq') /\ InUse(sq, performing, cq') = InUse(sq, performing, cq) \ {u}
         /\ synced' \in 0..Len(cq') /\ PlainWrites(cq')
         /\ Head(cq).packet = Nothing => ReadsWell(cq', Len(got) + Len(rx_queue), Len(pulled))
         /\ Head(cq).packet # Nothing => /\ Head(cq).packet = Len(got) + Len(rx_queue) + 1
                                         /\ ReadsWell(cq', Len(got) + Len(rx_queue) + 1, Len(pulled))
         /\ u \in Indexes => Head(cq).packet = Nothing
<1>1. RingWell(sq, performing, cq) /\ PlainWrites(cq) /\ ReadsWell(cq, Len(got) + Len(rx_queue), Len(pulled))
  BY DEF UringInv, ReadSide
<1>2. cq # <<>> /\ Head(cq).user_data = u /\ synced > 0
  BY DEF Done
<1>3. /\ u \in InUse(sq, performing, cq) /\ u \notin Unwritten(sq, performing)
      /\ RingWell(sq, performing, cq') /\ InUse(sq, performing, cq') = InUse(sq, performing, cq) \ {u}
  BY <1>1, <1>2, RingReaps
<1>4. cq \in Seq(Completion)
  BY <1>1 DEF RingWell
<1>5. PlainWrites(cq') /\ (u \in Indexes => Head(cq).packet = Nothing)
  BY <1>1, <1>2, <1>4, PlainIs
<1>6. synced' \in 0..Len(cq')
  <2>1. Len(cq) \in Nat /\ Len(cq') = Len(cq) - 1
    BY <1>2, <1>4, TailIs, SeqIs
  <2>2. synced \in 0..Len(cq)
    BY DEF UringInv, Within
  <2> QED
    BY <1>2, <2>1, <2>2
<1>7. /\ Head(cq).packet = Nothing => ReadsWell(cq', Len(got) + Len(rx_queue), Len(pulled))
      /\ Head(cq).packet # Nothing => /\ Head(cq).packet = Len(got) + Len(rx_queue) + 1
                                      /\ ReadsWell(cq', Len(got) + Len(rx_queue) + 1, Len(pulled))
  BY <1>1, <1>2, <1>4, ReadTaken
<1> QED
  BY <1>3, <1>5, <1>6, <1>7

LEMMA CompletionsTaken ==
  ASSUME UringInv, NEW i \in Indexes, CompleteTx(i) \/ CompleteEmptyRx(i)
  PROVE  UringInv'
<1>1. /\ SlotsWell(tx_slots, rx_slots, tx_bufs, senders, InUse(sq, performing, cq)) /\ ReadSide /\ Within
      /\ SendsWell(tx_queue, written, failed, tx_bufs, Unwritten(sq, performing), usent)
  BY DEF UringInv
<1>2. user_data(FALSE, i) = i /\ user_data(TRUE, i) = -i - 1 /\ -i - 1 \notin Indexes
  BY EntriesAre
<1>3. /\ UNCHANGED <<sq, performing, senders, sqpoll, tun_in, written, failed, pulled, tunned>>
      /\ UNCHANGED <<tx_queue, rx_queue, got, usent>> /\ cq' = Tail(cq) /\ synced' = synced - 1
  BY DEF CompleteTx, CompleteEmptyRx, hostState, appState
<1>4. PICK u : u = (IF CompleteTx(i) THEN i ELSE -i - 1) /\ Done(u)
  BY <1>2 DEF CompleteTx, CompleteEmptyRx
<1>5. /\ u \in InUse(sq, performing, cq) /\ u \notin Unwritten(sq, performing)
      /\ RingWell(sq, performing, cq') /\ InUse(sq, performing, cq') = InUse(sq, performing, cq) \ {u}
      /\ synced' \in 0..Len(cq') /\ PlainWrites(cq')
      /\ Head(cq).packet = Nothing => ReadsWell(cq', Len(got) + Len(rx_queue), Len(pulled))
      /\ u \in Indexes => Head(cq).packet = Nothing
  BY <1>3, <1>4, Reaped
<1>6. Head(cq).packet = Nothing
  BY <1>4, <1>5 DEF CompleteTx, CompleteEmptyRx
<1>7. ReadSide'
  BY <1>1, <1>3, <1>5, <1>6 DEF ReadSide
<1>8. Within'
  BY <1>1, <1>3, <1>5 DEF Within
<1>9. RingWell(sq', performing', cq') /\ InUse(sq', performing', cq') = InUse(sq, performing, cq) \ {u}
  BY <1>3, <1>5
<1>10. /\ SlotsWell(tx_slots', rx_slots', tx_bufs', senders', InUse(sq', performing', cq'))
       /\ SendsWell(tx_queue', written', failed', tx_bufs', Unwritten(sq', performing'), usent')
  <2>1. CASE CompleteTx(i)
    <3>1. u = i /\ tx_slots' = Append(tx_slots, i) /\ tx_bufs' = [tx_bufs EXCEPT ![i] = Nothing] /\ rx_slots' = rx_slots
      BY <1>4, <2>1 DEF CompleteTx, FreeTxSlot
    <3>2. tx_bufs \in [Indexes -> Nat] /\ Unwritten(sq, performing) \in SUBSET Indexes
      BY <1>1 DEF SlotsWell, Unwritten
    <3>3. SlotsWell(Append(tx_slots, i), rx_slots, [tx_bufs EXCEPT ![i] = Nothing], senders, InUse(sq, performing, cq) \ {i})
      BY <1>1, <1>5, <3>1, SlotFreed
    <3>4. SendsWell(tx_queue, written, failed, [tx_bufs EXCEPT ![i] = Nothing], Unwritten(sq, performing), usent)
      BY <1>1, <1>5, <3>1, <3>2, SendForgotten
    <3> QED
      BY <1>3, <1>9, <3>1, <3>3, <3>4
  <2>2. CASE ~CompleteTx(i)
    <3>1. u = -i - 1 /\ rx_slots' = Append(rx_slots, i) /\ UNCHANGED <<tx_slots, tx_bufs>>
      BY <1>4, <2>2 DEF CompleteEmptyRx
    <3>2. SlotsWell(tx_slots, Append(rx_slots, i), tx_bufs, senders, InUse(sq, performing, cq) \ {-i - 1})
      BY <1>1, <1>5, <3>1, ReadSlotFreed
    <3> QED
      BY <1>1, <1>3, <1>9, <3>1, <3>2
  <2> QED
    BY <2>1, <2>2
<1> QED
  BY <1>5, <1>7, <1>8, <1>9, <1>10 DEF UringInv

LEMMA PacketDelivered ==
  ASSUME UringInv, NEW i \in Indexes, CompleteRx(i)
  PROVE  UringInv'
<1>1. /\ SlotsWell(tx_slots, rx_slots, tx_bufs, senders, InUse(sq, performing, cq)) /\ ReadSide /\ Within
      /\ SendsWell(tx_queue, written, failed, tx_bufs, Unwritten(sq, performing), usent)
  BY DEF UringInv
<1>2. user_data(TRUE, i) = -i - 1
  BY EntriesAre
<1>3. /\ UNCHANGED <<sq, performing, sqpoll, tun_in, written, failed, pulled, tunned>>
      /\ UNCHANGED <<tx_slots, tx_bufs, rx_slots, tx_queue, got, usent>> /\ cq' = Tail(cq) /\ synced' = synced - 1
      /\ Done(-i - 1) /\ Head(cq).packet # Nothing /\ senders' = senders \ {i}
      /\ rx_queue' = Append(rx_queue, Head(cq).packet)
  BY <1>2 DEF CompleteRx, SendAndReserve, hostState, appState
<1>4. /\ -i - 1 \in InUse(sq, performing, cq) /\ RingWell(sq, performing, cq')
      /\ InUse(sq, performing, cq') = InUse(sq, performing, cq) \ {-i - 1}
      /\ synced' \in 0..Len(cq') /\ PlainWrites(cq')
      /\ Head(cq).packet = Len(got) + Len(rx_queue) + 1
      /\ ReadsWell(cq', Len(got) + Len(rx_queue) + 1, Len(pulled))
  BY <1>3, Reaped
<1>5. i \in senders /\ SlotsWell(tx_slots, rx_slots, tx_bufs, senders \ {i}, InUse(sq, performing, cq) \ {-i - 1})
  BY <1>1, <1>4, ReadSlotFreed
<1>6. RingWell(sq', performing', cq') /\ InUse(sq', performing', cq') = InUse(sq, performing, cq) \ {-i - 1}
  BY <1>3, <1>4
<1>7. /\ SlotsWell(tx_slots', rx_slots', tx_bufs', senders', InUse(sq', performing', cq'))
      /\ SendsWell(tx_queue', written', failed', tx_bufs', Unwritten(sq', performing'), usent')
  BY <1>1, <1>3, <1>5, <1>6
<1>8. CountsOn(got, 0) /\ CountsOn(rx_queue, Len(got)) /\ rx_queue \in Seq(Nat)
  BY <1>1 DEF ReadSide, CountsOn
<1>9. PICK g \in Nat, r \in Nat : g = Len(got) /\ r = Len(rx_queue)
  BY <1>8, CountsOnIs
<1>10. CountsOn(rx_queue', g) /\ Len(rx_queue') = r + 1
  <2>1. rx_queue' = Append(rx_queue, g + r + 1) /\ g + r + 1 \in Nat
    BY <1>3, <1>4, <1>9
  <2>2. CountsOn(rx_queue, g)
    BY <1>8, <1>9
  <2>3. CountsOn(Append(rx_queue, g + Len(rx_queue) + 1), g)
    BY <2>2, CountsOnIs
  <2>4. Len(Append(rx_queue, g + r + 1)) = Len(rx_queue) + 1
    BY <1>8, <2>1, AppendIs
  <2> QED
    BY <1>9, <2>1, <2>3, <2>4
<1>11. ReadSide'
  <2>1. g + (r + 1) = g + r + 1
    OBVIOUS
  <2>2. ReadsWell(cq', Len(got) + Len(rx_queue'), Len(pulled))
    BY <1>4, <1>9, <1>10, <2>1
  <2> QED
    BY <1>1, <1>3, <1>9, <1>10, <2>2 DEF ReadSide
<1>12. Within'
  <2>1. Cardinality(senders') = Cardinality(senders) - 1 /\ Cardinality(senders) \in Nat
    <3>1. senders \subseteq Indexes
      BY <1>1 DEF SlotsWell
    <3> QED
      BY <1>3, <1>5, <3>1, PermitsAreFinite, FS_RemoveElement
  <2>2. Len(rx_queue') + Cardinality(senders') <= RingSize
    BY <1>1, <1>9, <1>10, <2>1, EntriesAre DEF Within
  <2> QED
    BY <1>1, <1>3, <1>4, <2>2 DEF Within
<1> QED
  BY <1>4, <1>6, <1>7, <1>11, <1>12 DEF UringInv

LEMMA ReserveKeeps ==
  ASSUME UringInv, NEW i \in Indexes, Reserve(i)
  PROVE  UringInv'
<1>1. /\ SlotsWell(tx_slots, rx_slots, tx_bufs, senders, InUse(sq, performing, cq)) /\ ReadSide /\ Within
      /\ SendsWell(tx_queue, written, failed, tx_bufs, Unwritten(sq, performing), usent)
      /\ RingWell(sq, performing, cq) /\ PlainWrites(cq)
  BY DEF UringInv
<1>2. /\ UNCHANGED <<sq, performing, cq, synced, tx_slots, tx_bufs, sqpoll, tun_in, written, failed, pulled, tunned>>
      /\ UNCHANGED <<tx_queue, rx_queue, got, usent>> /\ senders' = senders \cup {i} /\ rx_slots' = Append(rx_slots, i)
      /\ i \notin senders /\ Len(rx_queue) + Cardinality(senders) < RingSize
  BY DEF Reserve, ringState, hostState, appState
<1>3. SlotsWell(tx_slots, Append(rx_slots, i), tx_bufs, senders \cup {i}, InUse(sq, performing, cq))
  BY <1>1, <1>2, PermitTaken
<1>4. /\ RingWell(sq', performing', cq') /\ PlainWrites(cq')
      /\ SlotsWell(tx_slots', rx_slots', tx_bufs', senders', InUse(sq', performing', cq'))
      /\ SendsWell(tx_queue', written', failed', tx_bufs', Unwritten(sq', performing'), usent')
  BY <1>1, <1>2, <1>3
<1>5. ReadSide'
  BY <1>1, <1>2, ReadSideKept
<1>6. Within'
  <2>1. Cardinality(senders') = Cardinality(senders) + 1 /\ Cardinality(senders) \in Nat
    <3>1. senders \subseteq Indexes
      BY <1>1 DEF SlotsWell
    <3> QED
      BY <1>2, <3>1, PermitsAreFinite, FS_AddElement
  <2>2. Len(rx_queue) \in Nat
    BY <1>1, CountsOnIs DEF ReadSide
  <2>3. Len(rx_queue') + Cardinality(senders') <= RingSize
    BY <1>2, <2>1, <2>2, EntriesAre
  <2> QED
    BY <1>1, <1>2, <2>3 DEF Within
<1> QED
  BY <1>4, <1>5, <1>6 DEF UringInv

LEMMA UringInvNext ==
  ASSUME UringInv, [UringNext]_uringVars
  PROVE  UringInv'
<1>1. CASE UringTask
  BY <1>1, MovesKeep, PushesKeep, CompletionsTaken, PacketDelivered, ReserveKeeps DEF UringTask
<1>2. CASE UringKernel
  BY <1>2, MovesKeep, KernelKeeps DEF UringKernel
<1>3. CASE try_send \/ recv \/ HostSends
  BY <1>3, EndsKeep
<1>4. CASE \E u \in Entries : KernelWrites(u, FALSE) \/ ReadEndsEmpty(u)
  BY <1>4, KernelKeeps
<1>5. CASE UNCHANGED uringVars
  BY <1>5, MovesKeep
<1> QED
  BY <1>1, <1>2, <1>3, <1>4, <1>5 DEF UringNext

(* The counts of the invariant, from sets.                                 *)
LEMMA CountIs ==
  ASSUME NEW S, NEW s \in Seq(S), OnceOnly(s), NEW x
  PROVE  Count(s, x) = IF x \in ToSet(s) THEN 1 ELSE 0
<1>1. Len(s) \in Nat /\ DOMAIN s = 1..Len(s)
  BY SeqIs
<1>2. CASE x \in ToSet(s)
  <2>1. PICK k \in 1..Len(s) : x = s[k]
    BY <1>2, SeqIs
  <2>2. {i \in DOMAIN s : s[i] = x} = {k}
    BY <1>1, <2>1 DEF OnceOnly
  <2>3. Cardinality({k}) = 1
    BY FS_Singleton
  <2> QED
    BY <1>2, <2>2, <2>3 DEF Count
<1>3. CASE x \notin ToSet(s)
  <2>1. {i \in DOMAIN s : s[i] = x} = {}
    BY <1>1, <1>3, SeqIs
  <2>2. Cardinality({}) = 0
    BY FS_EmptySet
  <2> QED
    BY <1>3, <2>1, <2>2 DEF Count
<1> QED
  BY <1>2, <1>3

LEMMA InRingIs ==
  ASSUME UringInv, NEW u
  PROVE  /\ InRing(u) = IF u \in InUse(sq, performing, cq) THEN 1 ELSE 0
         /\ Count(sq, u) = IF u \in ToSet(sq) THEN 1 ELSE 0
<1>1. RingWell(sq, performing, cq)
  BY DEF UringInv
<1>2. sq \in Seq(Entries) /\ OnceOnly(sq) /\ cq \in Seq(Completion) /\ OnceOnly(Uds(cq))
  BY <1>1 DEF RingWell
<1>3. Count(sq, u) = IF u \in ToSet(sq) THEN 1 ELSE 0
  BY <1>2, CountIs
<1>4. Uds(cq) \in Seq(Entries) /\ DOMAIN cq = 1..Len(cq)
  BY <1>2, UdsIs, SeqIs
<1>5. Count(Uds(cq), u) = IF u \in ToSet(Uds(cq)) THEN 1 ELSE 0
  BY <1>2, <1>4, CountIs
<1>6. {i \in DOMAIN cq : cq[i].user_data = u} = {i \in DOMAIN Uds(cq) : Uds(cq)[i] = u}
  BY <1>4 DEF Uds
<1>7. Cardinality({i \in DOMAIN cq : cq[i].user_data = u}) = IF u \in ToSet(Uds(cq)) THEN 1 ELSE 0
  BY <1>5, <1>6 DEF Count
<1>8. InRing(u) = (IF u \in ToSet(sq) THEN 1 ELSE 0) + (IF u \in performing THEN 1 ELSE 0)
                  + (IF u \in ToSet(Uds(cq)) THEN 1 ELSE 0)
  BY <1>3, <1>7 DEF InRing
<1>9. /\ ~(u \in ToSet(sq) /\ u \in performing) /\ ~(u \in ToSet(sq) /\ u \in ToSet(Uds(cq)))
      /\ ~(u \in performing /\ u \in ToSet(Uds(cq)))
  BY <1>1 DEF RingWell
<1>10. u \in InUse(sq, performing, cq) <=> u \in ToSet(sq) \/ u \in performing \/ u \in ToSet(Uds(cq))
  BY DEF InUse
<1> QED
  BY <1>3, <1>8, <1>9, <1>10

LEMMA SlotsAreOwned == UringInv => SlotsOwned
<1> SUFFICES ASSUME UringInv, NEW i \in Indexes
             PROVE  /\ Count(tx_slots, i) + InRing(user_data(FALSE, i)) = 1
                    /\ Count(rx_slots, i) + InRing(user_data(TRUE, i)) = IF i \in senders THEN 1 ELSE 0
                    /\ (Count(tx_slots, i) = 0) <=> tx_bufs[i] # Nothing
  BY DEF SlotsOwned
<1>1. SlotsWell(tx_slots, rx_slots, tx_bufs, senders, InUse(sq, performing, cq))
  BY DEF UringInv
<1>2. tx_slots \in Seq(Indexes) /\ rx_slots \in Seq(Indexes) /\ OnceOnly(tx_slots) /\ OnceOnly(rx_slots)
  BY <1>1 DEF SlotsWell
<1>3. /\ Count(tx_slots, i) = IF i \in ToSet(tx_slots) THEN 1 ELSE 0
      /\ Count(rx_slots, i) = IF i \in ToSet(rx_slots) THEN 1 ELSE 0
  BY <1>2, CountIs
<1>4. user_data(FALSE, i) = i /\ user_data(TRUE, i) = -i - 1
  BY EntriesAre
<1>5. /\ InRing(user_data(FALSE, i)) = IF i \in InUse(sq, performing, cq) THEN 1 ELSE 0
      /\ InRing(user_data(TRUE, i)) = IF -i - 1 \in InUse(sq, performing, cq) THEN 1 ELSE 0
  BY <1>4, InRingIs
<1>6. /\ i \in ToSet(tx_slots) <=> i \notin InUse(sq, performing, cq)
      /\ i \in ToSet(tx_slots) <=> tx_bufs[i] = Nothing
      /\ i \in ToSet(rx_slots) <=> i \in senders /\ -i - 1 \notin InUse(sq, performing, cq)
      /\ -i - 1 \in InUse(sq, performing, cq) => i \in senders
  BY <1>1 DEF SlotsWell
<1>7. PICK w, x, y, z : /\ w = Count(tx_slots, i) /\ x = InRing(user_data(FALSE, i))
                        /\ y = Count(rx_slots, i) /\ z = InRing(user_data(TRUE, i))
  OBVIOUS
<1>8. /\ w = (IF i \in ToSet(tx_slots) THEN 1 ELSE 0) /\ x = (IF i \in InUse(sq, performing, cq) THEN 1 ELSE 0)
      /\ y = (IF i \in ToSet(rx_slots) THEN 1 ELSE 0) /\ z = (IF -i - 1 \in InUse(sq, performing, cq) THEN 1 ELSE 0)
  BY <1>3, <1>5, <1>7, Zenon
<1>9. w + x = 1 /\ (w = 0 <=> tx_bufs[i] # Nothing)
  <2>1. CASE i \in ToSet(tx_slots)
    BY <1>6, <1>8, <2>1
  <2>2. CASE i \notin ToSet(tx_slots)
    BY <1>6, <1>8, <2>2
  <2> QED
    BY <2>1, <2>2
<1>10. y + z = IF i \in senders THEN 1 ELSE 0
  <2>1. CASE i \in ToSet(rx_slots)
    BY <1>6, <1>8, <2>1
  <2>2. CASE i \notin ToSet(rx_slots)
    BY <1>6, <1>8, <2>2
  <2> QED
    BY <2>1, <2>2
<1> QED
  BY <1>7, <1>9, <1>10, Zenon

LEMMA SendsAreAccounted == UringInv => SendsAccounted
<1> SUFFICES ASSUME UringInv, NEW p \in 1..usent
             PROVE  Count(tx_queue, p) + Count(written, p) + (IF p \in failed THEN 1 ELSE 0)
                    + Cardinality({i \in Indexes : tx_bufs[i] = p /\ (Count(sq, i) > 0 \/ i \in performing)}) = 1
  BY DEF SendsAccounted
<1> DEFINE held == Unwritten(sq, performing)
           mine == {i \in Indexes : tx_bufs[i] = p /\ (Count(sq, i) > 0 \/ i \in performing)}
<1>1. SendsWell(tx_queue, written, failed, tx_bufs, held, usent)
  BY DEF UringInv
<1>2. tx_queue \in Seq(Nat) /\ written \in Seq(Nat) /\ OnceOnly(tx_queue) /\ OnceOnly(written)
  BY <1>1 DEF SendsWell
<1>3. /\ Count(tx_queue, p) = IF p \in ToSet(tx_queue) THEN 1 ELSE 0
      /\ Count(written, p) = IF p \in ToSet(written) THEN 1 ELSE 0
  BY <1>2, CountIs
<1>4. mine = {i \in held : tx_bufs[i] = p}
  <2>1. \A i \in Indexes : Count(sq, i) > 0 <=> i \in ToSet(sq)
    BY InRingIs
  <2> QED
    BY <2>1 DEF Unwritten
<1>5. Cardinality(mine) = IF p \in Bufs(tx_bufs, held) THEN 1 ELSE 0
  <2>1. CASE p \in Bufs(tx_bufs, held)
    <3>1. PICK k \in held : p = tx_bufs[k]
      BY <2>1 DEF Bufs
    <3>2. \A i \in held : tx_bufs[i] = tx_bufs[k] => i = k
      BY <1>1 DEF SendsWell
    <3>3. mine = {k}
      BY <1>4, <3>1, <3>2
    <3> QED
      BY <2>1, <3>3, FS_Singleton
  <2>2. CASE p \notin Bufs(tx_bufs, held)
    <3>1. mine = {}
      BY <1>4, <2>2 DEF Bufs
    <3> QED
      BY <2>2, <3>1, FS_EmptySet
  <2> QED
    BY <2>1, <2>2
<1>6. /\ p \in ToSet(tx_queue) \/ p \in ToSet(written) \/ p \in failed \/ p \in Bufs(tx_bufs, held)
      /\ ~(p \in ToSet(tx_queue) /\ p \in ToSet(written)) /\ ~(p \in ToSet(tx_queue) /\ p \in failed)
      /\ ~(p \in ToSet(tx_queue) /\ p \in Bufs(tx_bufs, held)) /\ ~(p \in ToSet(written) /\ p \in failed)
      /\ ~(p \in ToSet(written) /\ p \in Bufs(tx_bufs, held)) /\ ~(p \in failed /\ p \in Bufs(tx_bufs, held))
  BY <1>1 DEF SendsWell, Parted
<1> HIDE DEF mine, held
<1>7. Count(tx_queue, p) + Count(written, p) + (IF p \in failed THEN 1 ELSE 0) + Cardinality(mine) = 1
  BY <1>3, <1>5, <1>6
<1> QED
  BY <1>7 DEF mine

LEMMA ReadsAreAccounted == UringInv => ReadsAccounted
<1> SUFFICES ASSUME UringInv PROVE ReadsAccounted
  OBVIOUS
<1> DEFINE taken == got \o rx_queue
           read  == {i \in DOMAIN cq : cq[i].packet # Nothing}
<1>1. /\ ReadsWell(cq, Len(got) + Len(rx_queue), Len(pulled))
      /\ CountsOn(got, 0) /\ CountsOn(rx_queue, Len(got)) /\ CountsOn(pulled, 0)
  BY DEF UringInv, ReadSide
<1>2. cq \in Seq(Completion) /\ got \in Seq(Nat) /\ rx_queue \in Seq(Nat) /\ pulled \in Seq(Nat)
  BY <1>1 DEF UringInv, RingWell, CountsOn
<1>3. PICK g \in Nat, r \in Nat, b \in Nat : g = Len(got) /\ r = Len(rx_queue) /\ b = Len(pulled)
  BY <1>2, SeqIs
<1>4. \A n \in DOMAIN pulled : pulled[n] = n
  <2>1. DOMAIN pulled = 1..b /\ \A n \in 1..b : pulled[n] = 0 + n
    BY <1>1, <1>2, <1>3, SeqIs DEF CountsOn
  <2> QED
    BY <2>1
<1>5. Len(taken) = g + r /\ \A n \in DOMAIN taken : taken[n] = n
  <2>1. /\ Len(taken) = g + r /\ taken \in Seq(Nat)
        /\ \A n \in 1..(g + r) : taken[n] = IF n <= g THEN got[n] ELSE rx_queue[n - g]
    BY <1>2, <1>3, ConcatProperties
  <2>2. DOMAIN taken = 1..(g + r)
    BY <2>1, SeqIs
  <2>3. (\A n \in 1..g : got[n] = 0 + n) /\ \A n \in 1..r : rx_queue[n] = g + n
    BY <1>1, <1>3 DEF CountsOn
  <2>4. ASSUME NEW n \in 1..(g + r)
        PROVE  taken[n] = n
    <3>1. CASE n <= g
      <4>1. n \in 1..g /\ 0 + n = n
        BY <3>1
      <4> QED
        BY <2>1, <2>3, <3>1, <4>1
    <3>2. CASE ~(n <= g)
      <4>1. n - g \in 1..r /\ g + (n - g) = n
        BY <3>2
      <4> QED
        BY <2>1, <2>3, <3>2, <4>1
    <3> QED
      BY <3>1, <3>2
  <2> QED
    BY <2>1, <2>2, <2>4
<1>6. read = Full(cq)
  BY <1>2, SeqIs DEF Full
<1>7. /\ {cq[i].packet : i \in read} = ((g + r) + 1)..b
      /\ \A i, j \in read : i < j => cq[i].packet < cq[j].packet
  BY <1>1, <1>3, <1>6 DEF ReadsWell
<1>8. (Len(taken) + 1)..Len(pulled) = ((g + r) + 1)..b
  BY <1>3, <1>5
<1> QED
  BY <1>4, <1>5, <1>7, <1>8 DEF ReadsAccounted

(* Between the channels, the ring and the kernel no slot is used twice or  *)
(* lost, and no packet is dropped, repeated or reordered, for every size   *)
(* of ring, every number of packets and failures and every order in which  *)
(* the kernel completes: what the SAFETY comments of iouring_task rely on. *)
THEOREM UringIsSafe == UringSpec => []UringSafe
<1>1. UringInv => UringSafe
  <2> SUFFICES ASSUME UringInv PROVE UringSafe
    OBVIOUS
  <2>1. SlotsWell(tx_slots, rx_slots, tx_bufs, senders, InUse(sq, performing, cq)) /\ Within /\ cq \in Seq(Completion)
    BY DEF UringInv, RingWell
  <2>2. synced <= Len(cq)
    BY <2>1, SeqIs DEF Within
  <2>3. UringTypeOK
    BY <2>1, <2>2 DEF UringTypeOK, SlotsWell, Within
  <2> QED
    BY <2>3, SlotsAreOwned, SendsAreAccounted, ReadsAreAccounted DEF UringSafe
<1> QED
  BY <1>1, UringInvInit, UringInvNext, PTL DEF UringSpec

-----------------------------------------------------------------------------
(* A function defined from the value before exists, and stays in its set.  *)
LEMMA LeastIndex ==
  ASSUME NEW K \in SUBSET Nat, K # {}
  PROVE  \E m \in K : \A k \in K : m <= k
<1>1. PICK x \in K : \A y \in K : <<y, x>> \notin OpToRel(<, Nat)
  BY NatLessThanWellFounded, WFMin
<1>2. \A y \in K : ~(y < x)
  BY <1>1, Zenon DEF OpToRel
<1> QED
  BY <1>2

Unrolled(S, n, base, next, g) ==
  g \in [0..n -> S] /\ g[0] = base /\ \A i \in 1..n : g[i] = next[<<g[i - 1], i>>]

LEMMA Unrolls ==
  ASSUME NEW S, NEW n \in Nat, NEW base \in S, NEW next \in [S \X (1..n) -> S]
  PROVE  \E g : Unrolled(S, n, base, next, g)
<1> DEFINE K == {m \in 0..n : ~\E g : Unrolled(S, m, base, next, g)}
<1>1. K = {}
  <2>1. SUFFICES ASSUME K # {} PROVE FALSE
    OBVIOUS
  <2>2. PICK m \in K : \A k \in K : m <= k
    <3>1. K \in SUBSET Nat
      OBVIOUS
    <3> HIDE DEF K
    <3> QED
      BY <2>1, <3>1, LeastIndex
  <2>3. m \in 0..n /\ ~\E g : Unrolled(S, m, base, next, g)
    OBVIOUS
  <2>4. CASE m = 0
    <3>1. Unrolled(S, 0, base, next, [i \in 0..0 |-> base])
      BY DEF Unrolled
    <3> QED
      BY <2>3, <2>4, <3>1
  <2>5. CASE m # 0
    <3>1. PICK l \in 0..n : m = l + 1
      BY <2>3, <2>5
    <3>2. l \notin K
      BY <2>2, <3>1
    <3>3. PICK g : Unrolled(S, l, base, next, g)
      BY <3>2
    <3>4. PICK x : x = next[<<g[l], m>>]
      OBVIOUS
    <3>5. x \in S
      <4>1. g[l] \in S /\ m \in 1..n
        BY <2>3, <3>1, <3>3 DEF Unrolled
      <4> QED
        BY <3>4, <4>1
    <3>6. PICK h : h = [i \in 0..m |-> IF i = m THEN x ELSE g[i]]
      OBVIOUS
    <3>7. \A i \in 0..m : i # m => i \in 0..l /\ h[i] = g[i] /\ g[i] \in S
      BY <3>1, <3>3, <3>6 DEF Unrolled
    <3>8. h \in [0..m -> S]
      BY <3>5, <3>6, <3>7
    <3>9. h[0] = base /\ h[m] = x
      BY <3>1, <3>3, <3>6, <3>7 DEF Unrolled
    <3>10. ASSUME NEW i \in 1..m PROVE h[i] = next[<<h[i - 1], i>>]
      <4>1. i - 1 \in 0..m /\ i - 1 # m
        BY <3>1
      <4>2. CASE i = m
        <5>1. i - 1 = l /\ h[l] = g[l]
          BY <3>1, <3>7, <4>2
        <5> QED
          BY <3>4, <3>9, <4>2, <5>1
      <4>3. CASE i # m
        <5>1. i \in 1..l /\ i \in 0..m /\ h[i] = g[i] /\ h[i - 1] = g[i - 1]
          BY <3>1, <3>7, <4>1, <4>3
        <5>2. g[i] = next[<<g[i - 1], i>>]
          BY <3>3, <5>1 DEF Unrolled
        <5> QED
          BY <5>1, <5>2
      <4> QED
        BY <4>2, <4>3
    <3>11. Unrolled(S, m, base, next, h)
      BY <3>8, <3>9, <3>10 DEF Unrolled
    <3> QED
      BY <2>3, <3>11
  <2> QED
    BY <2>4, <2>5
<1> QED
  BY <1>1

(* Packets, and what a plugin does to one.                                 *)
Names == STRING \cup {"torn"}
Packet ==
  [src : Words \X Words, dst : Words \X Words, proto : {"tcp", "udp", "icmp", "ipv6"}, fragment : BOOLEAN, odd : BOOLEAN, mss : Words,
   word : Words, size : Nat, ip_sum : Words, l4_sum : Words, pads : Seq(Names)]
Verdicts == [pkt : Packet, verdict : {"accept", "drop", "reply"}]

LEMMA FrontKeeps ==
  ASSUME NEW S, NEW s \in Seq(S), s # <<>>
  PROVE  Front(s) \in Seq(S) /\ Len(Front(s)) = Len(s) - 1 /\ \A i \in 1..(Len(s) - 1) : Front(s)[i] = s[i]
<1>1. PICK n \in Nat : n = Len(s) /\ n > 0
  BY EmptySeq
<1>2. PICK l \in Nat : l = n - 1
  BY <1>1
<1>3. SubSeq(s, 1, l) \in Seq(S) /\ Len(SubSeq(s, 1, l)) = l /\ \A i \in 1..l : SubSeq(s, 1, l)[i] = s[i]
  BY <1>1, <1>2, SubSeqProperties
<1> QED
  BY <1>1, <1>2, <1>3 DEF Front

LEMMA FrontOfAppend ==
  ASSUME NEW S, NEW s \in Seq(S), NEW x \in S
  PROVE  Append(s, x) # <<>> /\ Front(Append(s, x)) = s /\ Last(Append(s, x)) = x
<1>1. PICK t : t = Append(s, x)
  OBVIOUS
<1>2. PICK n \in Nat : n = Len(s)
  OBVIOUS
<1>3. t \in Seq(S) /\ t # <<>> /\ Len(t) = n + 1 /\ t[n + 1] = x /\ \A i \in 1..n : t[i] = s[i]
  BY <1>1, <1>2, AppendProperties
<1>4. Front(t) \in Seq(S) /\ Len(Front(t)) = n /\ \A i \in 1..n : Front(t)[i] = t[i]
  BY <1>3, FrontKeeps
<1>5. Front(t) = s
  BY <1>2, <1>3, <1>4, SeqEqual
<1> QED
  BY <1>1, <1>3, <1>5 DEF Last

LEMMA PaddedIs ==
  ASSUME NEW p \in Packet, NEW plugin \in Names
  PROVE  Pads(plugin, p) \in Packet /\ Unpads(plugin, p) \in Packet
<1>1. PICK s \in Seq(Names) : s = p.pads
  BY DEF Packet
<1>2. PICK t \in Names : t = "torn"
  BY DEF Names
<1>3. Append(s, plugin) \in Seq(Names) /\ Append(s, t) \in Seq(Names)
  BY AppendProperties
<1>4. s # <<>> => Front(s) \in Seq(Names)
  BY FrontKeeps
<1>5. ASSUME NEW x \in Seq(Names) PROVE [p EXCEPT !.pads = x] \in Packet
  BY DEF Packet
<1> QED
  BY <1>1, <1>2, <1>3, <1>4, <1>5 DEF Pads, Unpads

LEMMA ThroughIs ==
  ASSUME NEW r \in Verdicts, NEW plugin \in Names, NEW entering \in BOOLEAN
  PROVE  Through(plugin, r, entering) \in Verdicts
<1>1. r.pkt \in Packet
  BY DEF Verdicts
<1>2. Verdict(plugin, r.pkt) \in {"accept", "drop", "reply"}
  BY DEF Verdict
<1> QED
  BY <1>1, <1>2, PaddedIs DEF Verdicts, Through

(* The results of a chain, one for each plugin run.                        *)
Runs(chain, p, entering, g) ==
  /\ g \in [0..Len(chain) -> Verdicts] /\ g[0] = [pkt |-> p, verdict |-> "accept"]
  /\ \A i \in 1..Len(chain) : g[i] = Through(chain[i], g[i - 1], entering)
  /\ Run(chain, p, entering) = g[Len(chain)]

LEMMA RunIs ==
  ASSUME NEW chain \in Seq(Names), NEW p \in Packet, NEW entering \in BOOLEAN
  PROVE  \E g : Runs(chain, p, entering, g)
<1>1. PICK n \in Nat : n = Len(chain)
  OBVIOUS
<1>2. PICK base \in Verdicts : base = [pkt |-> p, verdict |-> "accept"]
  BY DEF Verdicts
<1>3. PICK next : next = [x \in Verdicts \X (1..n) |-> Through(chain[x[2]], x[1], entering)]
  OBVIOUS
<1>4. next \in [Verdicts \X (1..n) -> Verdicts]
  <2>1. ASSUME NEW x \in Verdicts \X (1..n) PROVE Through(chain[x[2]], x[1], entering) \in Verdicts
    <3>1. x[1] \in Verdicts /\ x[2] \in 1..n
      OBVIOUS
    <3>2. chain[x[2]] \in Names
      BY <1>1, <3>1
    <3> QED
      BY <3>1, <3>2, ThroughIs
  <2> QED
    BY <1>3, <2>1
<1>5. PICK g : Unrolled(Verdicts, n, base, next, g)
  BY <1>4, Unrolls
<1>6. /\ g \in [0..n -> Verdicts] /\ g[0] = base
      /\ \A i \in 1..n : g[i] = Through(chain[i], g[i - 1], entering)
  <2>1. g \in [0..n -> Verdicts] /\ g[0] = base /\ \A i \in 1..n : g[i] = next[<<g[i - 1], i>>]
    BY <1>5 DEF Unrolled
  <2>2. ASSUME NEW i \in 1..n PROVE g[i] = Through(chain[i], g[i - 1], entering)
    <3>1. i - 1 \in 0..n
      OBVIOUS
    <3>2. g[i - 1] \in Verdicts
      BY <2>1, <3>1
    <3>3. <<g[i - 1], i>> \in Verdicts \X (1..n)
      BY <3>2
    <3> QED
      BY <1>3, <2>1, <3>3
  <2> QED
    BY <2>1, <2>2
<1> DEFINE D(f) == f = [i \in 0..n |-> IF i = 0 THEN base ELSE Through(chain[i], f[i - 1], entering)]
<1>7. D(g)
  <2>1. \A i \in 0..n : i # 0 => i \in 1..n
    OBVIOUS
  <2>2. \A i \in 0..n : g[i] = IF i = 0 THEN base ELSE Through(chain[i], g[i - 1], entering)
    BY <1>6, <2>1
  <2> QED
    BY <1>6, <2>2
<1>8. PICK f : f = CHOOSE x : D(x)
  OBVIOUS
<1>9. D(f)
  BY <1>7, <1>8
<1>10. Run(chain, p, entering) = f[n]
  BY <1>1, <1>2, <1>8 DEF Run
<1>11. f[n] = g[n]
  <2> DEFINE K == {i \in 0..n : f[i] # g[i]}
  <2>1. SUFFICES ASSUME K # {} PROVE FALSE
    OBVIOUS
  <2>2. PICK m \in K : \A k \in K : m <= k
    <3>1. K \in SUBSET Nat
      OBVIOUS
    <3> HIDE DEF K
    <3> QED
      BY <2>1, <3>1, LeastIndex
  <2>3. m \in 0..n /\ f[m] # g[m]
    OBVIOUS
  <2>4. m # 0
    BY <1>6, <1>9, <2>3
  <2>5. m \in 1..n /\ m - 1 \in 0..n /\ m - 1 \notin K
    BY <2>2, <2>3, <2>4
  <2>6. f[m - 1] = g[m - 1]
    BY <2>5
  <2>7. f[m] = Through(chain[m], f[m - 1], entering)
    BY <1>9, <2>3, <2>4
  <2> QED
    BY <1>6, <2>3, <2>5, <2>6, <2>7
<1> QED
  BY <1>1, <1>2, <1>6, <1>10, <1>11 DEF Runs

(* A plugin changes nothing but what it pads; its verdict is of the word.  *)
Same(p, q) ==
  /\ p \in Packet /\ q \in Packet
  /\ p.src = q.src /\ p.dst = q.dst /\ p.proto = q.proto /\ p.fragment = q.fragment /\ p.odd = q.odd /\ p.mss = q.mss
  /\ p.word = q.word /\ p.size = q.size /\ p.ip_sum = q.ip_sum /\ p.l4_sum = q.l4_sum

LEMMA PaddedSame ==
  ASSUME NEW p \in Packet, NEW plugin \in Names
  PROVE  Same(Pads(plugin, p), p) /\ Same(Unpads(plugin, p), p)
<1>1. Pads(plugin, p) \in Packet /\ Unpads(plugin, p) \in Packet
  BY PaddedIs
<1>2. ASSUME NEW x, [p EXCEPT !.pads = x] \in Packet PROVE Same([p EXCEPT !.pads = x], p)
  BY <1>2 DEF Packet, Same
<1>3. Same(p, p)
  BY DEF Same
<1>4. CASE IsPad(plugin)
  BY <1>1, <1>2, <1>4 DEF Pads, Unpads
<1>5. CASE ~IsPad(plugin)
  BY <1>3, <1>5 DEF Pads, Unpads
<1> QED
  BY <1>4, <1>5

LEMMA Undone ==
  ASSUME NEW p \in Packet, NEW plugin \in Names
  PROVE  Unpads(plugin, Pads(plugin, p)) = p
<1>1. PICK s \in Seq(Names) : s = p.pads
  BY DEF Packet
<1>2. PICK t : t = Append(s, plugin)
  OBVIOUS
<1>3. t # <<>> /\ Front(t) = s /\ Last(t) = plugin
  BY <1>2, FrontOfAppend
<1>4. CASE IsPad(plugin)
  <2>1. PICK q : q = [p EXCEPT !.pads = t]
    OBVIOUS
  <2>2. Pads(plugin, p) = q
    BY <1>1, <1>2, <1>4, <2>1 DEF Pads
  <2>3. q.pads = t
    BY <2>1 DEF Packet
  <2>4. Unpads(plugin, q) = [q EXCEPT !.pads = s]
    BY <1>3, <1>4, <2>3 DEF Unpads
  <2>5. [q EXCEPT !.pads = s] = p
    BY <1>1, <2>1 DEF Packet
  <2> QED
    BY <2>2, <2>4, <2>5
<1>5. CASE ~IsPad(plugin)
  BY <1>5 DEF Pads, Unpads
<1> QED
  BY <1>4, <1>5

LEMMA VerdictSame ==
  ASSUME NEW p, NEW q, Same(p, q), NEW plugin
  PROVE  Verdict(plugin, p) = Verdict(plugin, q)
BY DEF Same, Verdict

LEMMA SameAll ==
  ASSUME NEW p, NEW q, NEW r, Same(p, q), Same(q, r)
  PROVE  Same(p, r)
BY DEF Same

(* Along a chain.                                                          *)
LEMMA PassedSame ==
  ASSUME NEW chain \in Seq(Names), NEW p \in Packet, NEW entering \in BOOLEAN, NEW g, Runs(chain, p, entering, g),
         NEW i \in 0..Len(chain)
  PROVE  Same(g[i].pkt, p) /\ (g[i].verdict = "reply" => p.word = 0)
<1>1. PICK n \in Nat : n = Len(chain)
  OBVIOUS
<1>2. /\ g \in [0..n -> Verdicts] /\ g[0] = [pkt |-> p, verdict |-> "accept"]
      /\ \A j \in 1..n : g[j] = Through(chain[j], g[j - 1], entering)
  BY <1>1 DEF Runs
<1> DEFINE K == {j \in 0..n : ~(Same(g[j].pkt, p) /\ (g[j].verdict = "reply" => p.word = 0))}
<1>3. SUFFICES ASSUME K # {} PROVE FALSE
  BY <1>1
<1>4. PICK m \in K : \A k \in K : m <= k
  <2>1. K \in SUBSET Nat
    OBVIOUS
  <2> HIDE DEF K
  <2> QED
    BY <1>3, <2>1, LeastIndex
<1>5. m \in 0..n /\ ~(Same(g[m].pkt, p) /\ (g[m].verdict = "reply" => p.word = 0))
  OBVIOUS
<1>6. m # 0
  BY <1>2, <1>5 DEF Same
<1>7. PICK l \in 0..n : l = m - 1
  BY <1>5, <1>6
<1>8. m \in 1..n /\ l \notin K
  BY <1>4, <1>5, <1>6, <1>7
<1>9. PICK r \in Verdicts : r = g[l]
  BY <1>2
<1>10. Same(r.pkt, p) /\ (r.verdict = "reply" => p.word = 0)
  BY <1>8, <1>9
<1>11. g[m] = Through(chain[m], r, entering)
  BY <1>2, <1>7, <1>8, <1>9
<1>12. CASE Stops(r.verdict)
  BY <1>5, <1>10, <1>11, <1>12 DEF Through
<1>13. CASE ~Stops(r.verdict)
  <2>1. r.pkt \in Packet /\ chain[m] \in Names
    BY <1>1, <1>8 DEF Verdicts
  <2>2. Same(Pads(chain[m], r.pkt), p) /\ Same(Unpads(chain[m], r.pkt), p)
    BY <1>10, <2>1, PaddedSame, SameAll
  <2>3. Verdict(chain[m], r.pkt) = Verdict(chain[m], p)
    BY <1>10, VerdictSame
  <2>4. /\ g[m].pkt = IF entering THEN Pads(chain[m], r.pkt) ELSE Unpads(chain[m], r.pkt)
        /\ g[m].verdict = Verdict(chain[m], p)
    BY <1>11, <1>13, <2>3 DEF Through
  <2>5. Verdict(chain[m], p) = "reply" => p.word = 0
    BY DEF Verdict
  <2> QED
    BY <1>5, <2>2, <2>4, <2>5
<1> QED
  BY <1>12, <1>13

LEMMA PassedAccepts ==
  ASSUME NEW chain \in Seq(Names), NEW p \in Packet, NEW entering \in BOOLEAN, NEW g, Runs(chain, p, entering, g),
         g[Len(chain)].verdict = "accept", NEW i \in 0..Len(chain)
  PROVE  g[i].verdict = "accept"
<1>1. PICK n \in Nat : n = Len(chain)
  OBVIOUS
<1>2. \A j \in 1..n : g[j] = Through(chain[j], g[j - 1], entering)
  BY <1>1 DEF Runs
<1> DEFINE K == {j \in 0..n : g[n - j].verdict # "accept"}
<1>3. SUFFICES ASSUME K # {} PROVE FALSE
  <2>1. PICK j \in 0..n : i = n - j
    BY <1>1
  <2> QED
    BY <1>3, <2>1
<1>4. PICK m \in K : \A k \in K : m <= k
  <2>1. K \in SUBSET Nat
    OBVIOUS
  <2> HIDE DEF K
  <2> QED
    BY <1>3, <2>1, LeastIndex
<1>5. m \in 0..n /\ g[n - m].verdict # "accept"
  OBVIOUS
<1>6. m # 0
  <2>1. n - 0 = n
    OBVIOUS
  <2> QED
    BY <1>1, <1>5, <2>1
<1>7. PICK l \in 0..n : l = m - 1
  BY <1>5, <1>6
<1>8. PICK k \in 1..n : k = n - l /\ k - 1 = n - m
  BY <1>5, <1>6, <1>7
<1>9. g[k].verdict = "accept"
  <2>1. l \notin K
    <3>1. ~(m <= l)
      BY <1>5, <1>7
    <3> HIDE DEF K
    <3> QED
      BY <1>4, <3>1
  <2> QED
    BY <1>8, <2>1
<1>10. g[k] = g[k - 1]
  BY <1>2, <1>5, <1>8 DEF Through, Stops
<1> QED
  BY <1>5, <1>8, <1>9, <1>10

LEMMA AcceptsAll ==
  ASSUME NEW chain \in Seq(Names), NEW p \in Packet, NEW entering \in BOOLEAN, NEW g, Runs(chain, p, entering, g),
         g[Len(chain)].verdict = "accept", NEW i \in 1..Len(chain)
  PROVE  /\ Verdict(chain[i], p) = "accept"
         /\ g[i].pkt = IF entering THEN Pads(chain[i], g[i - 1].pkt) ELSE Unpads(chain[i], g[i - 1].pkt)
<1>1. PICK n \in Nat : n = Len(chain)
  OBVIOUS
<1>2. PICK l \in 0..n : l = i - 1
  BY <1>1
<1>3. i \in 0..n /\ g[i].verdict = "accept" /\ g[l].verdict = "accept"
  BY <1>1, <1>2, PassedAccepts
<1>4. g[i] = Through(chain[i], g[l], entering)
  BY <1>2 DEF Runs
<1>5. Same(g[l].pkt, p)
  BY <1>1, <1>2, PassedSame
<1>6. Verdict(chain[i], g[l].pkt) = Verdict(chain[i], p)
  BY <1>5, VerdictSame
<1> QED
  BY <1>2, <1>3, <1>4, <1>6 DEF Through, Stops

(* The peer undoes what the chain did, in the opposite order.              *)
Undo(chain, p) == Run(Reverse(chain), Run(chain, p, TRUE).pkt, FALSE)

LEMMA RoundTrip ==
  ASSUME NEW chain \in Seq(Names), NEW p \in Packet, Run(chain, p, TRUE).verdict = "accept"
  PROVE  Undo(chain, p).verdict = "accept" /\ Undo(chain, p).pkt = p
<1>1. PICK q, r : q = Run(chain, p, TRUE) /\ q.verdict = "accept" /\ r = Run(Reverse(chain), q.pkt, FALSE) /\ r = Undo(chain, p)
  BY DEF Undo
<1>2. PICK n \in Nat : n = Len(chain)
  OBVIOUS
<1>3. PICK g : Runs(chain, p, TRUE, g)
  BY RunIs
<1>4. g \in [0..n -> Verdicts] /\ g[0] = [pkt |-> p, verdict |-> "accept"] /\ q = g[n]
  BY <1>1, <1>2, <1>3 DEF Runs
<1>5. PICK b : b = Reverse(chain)
  OBVIOUS
<1>6. b \in Seq(Names) /\ Len(b) = n /\ \A i \in 1..n : b[i] = chain[(n - i) + 1]
  BY <1>2, <1>5 DEF Reverse
<1>7. q.pkt \in Packet
  <2>1. n \in 0..n
    OBVIOUS
  <2> QED
    BY <1>4, <2>1 DEF Verdicts
<1>8. PICK h : Runs(b, q.pkt, FALSE, h)
  BY <1>6, <1>7, RunIs
<1>9. /\ h \in [0..n -> Verdicts] /\ h[0] = [pkt |-> q.pkt, verdict |-> "accept"] /\ r = h[n]
      /\ \A i \in 1..n : h[i] = Through(b[i], h[i - 1], FALSE)
  BY <1>1, <1>5, <1>6, <1>8 DEF Runs
<1> DEFINE Undoes(j) == h[j].verdict = "accept" /\ h[j].pkt = g[n - j].pkt
           K == {j \in 0..n : ~Undoes(j)}
<1>10. K = {}
  <2>1. SUFFICES ASSUME K # {} PROVE FALSE
    OBVIOUS
  <2>2. PICK m \in K : \A k \in K : m <= k
    <3>1. K \in SUBSET Nat
      OBVIOUS
    <3> HIDE DEF K
    <3> QED
      BY <2>1, <3>1, LeastIndex
  <2>3. m \in 0..n /\ ~Undoes(m)
    OBVIOUS
  <2>4. m # 0
    <3>1. n - 0 = n
      OBVIOUS
    <3>2. Undoes(0)
      BY <1>4, <1>9, <3>1
    <3> QED
      BY <2>3, <3>2
  <2>5. PICK l \in 0..n : l = m - 1
    BY <2>3, <2>4
  <2>6. Undoes(l)
    <3>1. ~(m <= l)
      BY <2>3, <2>5
    <3>2. l \notin K
      <4> HIDE DEF K
      <4> QED
        BY <2>2, <3>1
    <3> HIDE DEF Undoes
    <3> QED
      BY <3>2
  <2>7. PICK i \in 1..n : i = n - l /\ i - 1 = n - m /\ i = (n - m) + 1
    BY <2>3, <2>4, <2>5
  <2>8. m \in 1..n /\ m - 1 = l
    BY <2>3, <2>4, <2>5
  <2>9. b[m] = chain[i]
    BY <1>6, <2>7, <2>8
  <2>10. h[m] = Through(chain[i], h[l], FALSE)
    BY <1>9, <2>8, <2>9
  <2>11. PICK x \in Packet : x = g[i - 1].pkt
    <3>1. i - 1 \in 0..n
      OBVIOUS
    <3> QED
      BY <1>4, <3>1 DEF Verdicts
  <2>12. chain[i] \in Names
    BY <1>2
  <2>13. Verdict(chain[i], p) = "accept" /\ g[i].pkt = Pads(chain[i], x)
    <3>1. i \in 1..Len(chain) /\ g[Len(chain)].verdict = "accept" /\ TRUE \in BOOLEAN
      BY <1>1, <1>2, <1>4
    <3>2. /\ Verdict(chain[i], p) = "accept"
          /\ g[i].pkt = IF TRUE THEN Pads(chain[i], g[i - 1].pkt) ELSE Unpads(chain[i], g[i - 1].pkt)
      BY <1>3, <3>1, AcceptsAll
    <3> QED
      BY <2>11, <3>2
  <2>14. h[l].verdict = "accept" /\ h[l].pkt = Pads(chain[i], x)
    BY <2>6, <2>7, <2>13
  <2>15. i \in 0..n /\ Same(g[i].pkt, p)
    <3>1. i \in 0..n /\ i \in 0..Len(chain) /\ TRUE \in BOOLEAN
      BY <1>2
    <3> QED
      BY <1>3, <3>1, PassedSame
  <2>16. Verdict(chain[i], Pads(chain[i], x)) = "accept"
    BY <2>13, <2>15, VerdictSame
  <2>17. h[m].verdict = "accept" /\ h[m].pkt = x
    BY <2>10, <2>12, <2>14, <2>16, Undone DEF Through, Stops
  <2> QED
    BY <2>3, <2>7, <2>11, <2>17
<1>11. Undoes(n)
  <2>1. n \in 0..n
    OBVIOUS
  <2> HIDE DEF Undoes
  <2> QED
    BY <1>10, <2>1
<1>12. n - n = 0
  OBVIOUS
<1> QED
  BY <1>1, <1>4, <1>9, <1>11, <1>12

LEMMA RunFacts ==
  ASSUME NEW chain \in Seq(Names), NEW p \in Packet, NEW entering \in BOOLEAN, NEW r, r = Run(chain, p, entering)
  PROVE  /\ r \in Verdicts /\ Same(r.pkt, p)
         /\ r.verdict = "reply" => p.word = 0
         /\ r.verdict = "accept" /\ "even" \in ToSet(chain) => p.word % 2 = 0
<1>1. PICK n \in Nat : n = Len(chain)
  OBVIOUS
<1>2. PICK g : Runs(chain, p, entering, g)
  BY RunIs
<1>3. r = g[n] /\ n \in 0..n /\ r \in Verdicts
  BY <1>1, <1>2 DEF Runs
<1>4. Same(r.pkt, p) /\ (r.verdict = "reply" => p.word = 0)
  BY <1>1, <1>2, <1>3, PassedSame
<1>5. ASSUME r.verdict = "accept", "even" \in ToSet(chain) PROVE p.word % 2 = 0
  <2>1. PICK i \in 1..n : chain[i] = "even"
    BY <1>1, <1>5 DEF ToSet
  <2>2. Verdict(chain[i], p) = "accept"
    BY <1>1, <1>2, <1>3, <1>5, AcceptsAll
  <2>3. p.word % 2 # 1
    BY <2>1, <2>2 DEF Verdict
  <2>4. p.word \in Nat
    BY PathBounds DEF Packet, Words
  <2> QED
    BY <2>3, <2>4
<1> QED
  BY <1>3, <1>4, <1>5

(* One's complement arithmetic, modulo Ones.                               *)
LEMMA OnesIs ==
  WordBase \in Nat /\ Ones \in Nat /\ Ones > 0 /\ WordBase = Ones + 1 /\ Words = 0..Ones
<1>1. WordBase \in Nat /\ \E b \in 2..WordBase : b * b = WordBase
  BY PathBounds
<1>2. PICK b \in Nat : b >= 2 /\ b <= WordBase
  BY <1>1
<1> QED
  BY <1>1, <1>2 DEF Ones, Words

LEMMA Division ==
  ASSUME NEW m \in Nat, m > 0, NEW a \in Int
  PROVE  a = m * (a \div m) + (a % m) /\ a % m \in 0..(m - 1) /\ a \div m \in Int
OBVIOUS

LEMMA MultipleIs ==
  ASSUME NEW m \in Nat, m > 0, NEW k \in Int
  PROVE  (k * m) % m = 0
<1>1. PICK a \in Int : a = k * m
  OBVIOUS
<1>2. PICK d \in Int : d = a \div m
  OBVIOUS
<1>3. PICK r \in Int : r = a % m
  OBVIOUS
<1>4. k * m = m * d + r /\ 0 <= r /\ r < m
  BY <1>1, <1>2, <1>3
<1>5. PICK e \in Int : e = k - d
  OBVIOUS
<1>6. e * m = r
  BY <1>4, <1>5
<1>7. e >= 1 => e * m >= m
  OBVIOUS
<1>8. e <= -1 => e * m <= -m
  OBVIOUS
<1> QED
  BY <1>1, <1>3, <1>4, <1>6, <1>7, <1>8

LEMMA ShiftsByOnes ==
  ASSUME NEW a \in Int, NEW b \in Int, NEW k \in Int, a % Ones = 0, b = a + k * Ones
  PROVE  b % Ones = 0
<1>1. PICK m \in Nat : m = Ones /\ m > 0
  BY OnesIs
<1>2. PICK d \in Int : a = m * d
  BY <1>1, Division
<1>3. PICK e \in Int : e = d + k
  OBVIOUS
<1>4. b = e * m
  BY <1>1, <1>2, <1>3
<1>5. (e * m) % m = 0
  BY <1>1, MultipleIs
<1> QED
  BY <1>1, <1>4, <1>5

(* A word that stands for c + old - new.                                   *)
Differs(c, x, y) == \E k \in Int : c + x = y + k * Ones

LEMMA MinusIs ==
  ASSUME NEW c \in Words, NEW rhs \in Words
  PROVE  Minus(c, rhs) \in Words /\ Differs(Minus(c, rhs), rhs, c)
<1>1. PICK m \in Nat : m = Ones /\ m > 0 /\ WordBase = m + 1 /\ Words = 0..m
  BY OnesIs
<1>2. CASE c < rhs
  <2>1. Minus(c, rhs) = c - rhs + m
    BY <1>1, <1>2 DEF Minus
  <2>2. c - rhs + m \in 0..m /\ (c - rhs + m) + rhs = c + 1 * m
    BY <1>1, <1>2
  <2> QED
    BY <1>1, <2>1, <2>2 DEF Differs
<1>3. CASE ~(c < rhs)
  <2>1. Minus(c, rhs) = c - rhs
    BY <1>3 DEF Minus
  <2>2. c - rhs \in 0..m /\ (c - rhs) + rhs = c + 0 * m
    BY <1>1, <1>3
  <2> QED
    BY <1>1, <2>1, <2>2 DEF Differs
<1> QED
  BY <1>2, <1>3

LEMMA UpdateWordIs ==
  ASSUME NEW c \in Words, NEW old \in Words, NEW new \in Words
  PROVE  update_word(c, old, new) \in Words /\ Differs(update_word(c, old, new), new, c + old)
<1>1. PICK m \in Nat : m = Ones /\ m > 0 /\ Words = 0..m
  BY OnesIs
<1>2. PICK o \in Words : o = m - old
  BY <1>1
<1>3. PICK d \in Words : d = Minus(c, o) /\ Differs(d, o, c)
  BY MinusIs
<1>4. PICK e \in Words : e = Minus(d, new) /\ Differs(e, new, d)
  BY MinusIs
<1>5. update_word(c, old, new) = e
  BY <1>1, <1>2, <1>3, <1>4 DEF update_word
<1>6. PICK j \in Int : d + o = c + j * m
  BY <1>1, <1>3 DEF Differs
<1>7. PICK k \in Int : e + new = d + k * m
  BY <1>1, <1>4 DEF Differs
<1>8. PICK l \in Int : l = j + k - 1
  OBVIOUS
<1>9. e + new = (c + old) + l * m
  BY <1>1, <1>2, <1>6, <1>7, <1>8
<1> QED
  BY <1>1, <1>5, <1>9 DEF Differs

LEMMA UpdatesIs ==
  ASSUME NEW c \in Words, NEW old \in Words \X Words, NEW new \in Words \X Words
  PROVE  Updates(c, old, new) \in Words /\ Differs(Updates(c, old, new), SumOf(new), c + SumOf(old))
<1>1. PICK m \in Nat : m = Ones /\ m > 0 /\ Words = 0..m
  BY OnesIs
<1>2. PICK a \in Words, b \in Words, x \in Words, y \in Words : a = old[1] /\ b = old[2] /\ x = new[1] /\ y = new[2]
  OBVIOUS
<1>3. PICK d \in Words : d = update_word(c, a, x) /\ Differs(d, x, c + a)
  BY UpdateWordIs
<1>4. PICK e \in Words : e = update_word(d, b, y) /\ Differs(e, y, d + b)
  BY UpdateWordIs
<1>5. Updates(c, old, new) = e /\ SumOf(old) = a + b /\ SumOf(new) = x + y
  BY <1>2, <1>3, <1>4 DEF Updates, SumOf
<1>6. PICK j \in Int : d + x = (c + a) + j * m
  BY <1>1, <1>3 DEF Differs
<1>7. PICK k \in Int : e + y = (d + b) + k * m
  BY <1>1, <1>4 DEF Differs
<1>8. PICK l \in Int : l = j + k
  OBVIOUS
<1>9. e + (x + y) = (c + (a + b)) + l * m
  BY <1>1, <1>6, <1>7, <1>8
<1> QED
  BY <1>1, <1>5, <1>9 DEF Differs

LEMMA ComplementIs ==
  ASSUME NEW sum \in Nat
  PROVE  Complement(sum) \in Words /\ (sum + Complement(sum)) % Ones = 0
<1>1. PICK m \in Nat : m = Ones /\ m > 0 /\ Words = 0..m
  BY OnesIs
<1>2. CASE sum = 0
  <2>1. Complement(sum) = m /\ sum + m = 1 * m /\ m \in Words
    BY <1>1, <1>2 DEF Complement
  <2> QED
    BY <1>1, <2>1, MultipleIs
<1>3. CASE sum # 0
  <2>1. PICK a \in Nat : a = sum - 1
    BY <1>3
  <2>2. PICK r \in 0..(m - 1) : r = a % m
    BY <1>1, Division
  <2>3. PICK d \in Int : d = a \div m /\ a = m * d + r
    BY <1>1, <2>2, Division
  <2>4. Complement(sum) = m - (r + 1)
    BY <1>1, <1>3, <2>1, <2>2 DEF Complement
  <2>5. m - (r + 1) \in Words
    BY <1>1
  <2>6. PICK e \in Int : e = d + 1
    OBVIOUS
  <2>7. sum + (m - (r + 1)) = e * m
    BY <2>1, <2>3, <2>6
  <2> QED
    BY <1>1, <2>4, <2>5, <2>7, MultipleIs
<1> QED
  BY <1>2, <1>3

(* What a rewrite leaves as it was, and what it makes of the checksums.    *)
LEMMA PacketIs ==
  ASSUME NEW p \in Packet
  PROVE  /\ p.src \in Words \X Words /\ p.dst \in Words \X Words /\ p.mss \in Words /\ p.word \in Words
         /\ p.ip_sum \in Words /\ p.l4_sum \in Words /\ p.size \in Nat /\ p.pads \in Seq(Names)
         /\ p.proto \in {"tcp", "udp", "icmp", "ipv6"} /\ p.fragment \in BOOLEAN /\ p.odd \in BOOLEAN
BY DEF Packet

LEMMA SumIs ==
  ASSUME NEW ip \in Words \X Words
  PROVE  SumOf(ip) \in Nat
<1>1. ip[1] \in Nat /\ ip[2] \in Nat
  BY OnesIs
<1> QED
  BY <1>1 DEF SumOf

LEMMA SwappedIs ==
  ASSUME NEW w \in Words
  PROVE  Swapped(w) \in Nat
<1>1. PICK b : b = CHOOSE x \in 1..WordBase : x * x = WordBase
  OBVIOUS
<1>2. \E x \in 1..WordBase : x * x = WordBase
  <2>1. PICK x \in 2..WordBase : x * x = WordBase
    BY PathBounds
  <2>2. x \in 1..WordBase
    BY OnesIs
  <2> QED
    BY <2>1, <2>2
<1>3. b \in 1..WordBase
  BY <1>1, <1>2
<1>4. b \in Nat /\ b > 0 /\ w \in Nat
  BY <1>3, OnesIs
<1>5. PICK r \in Nat, d \in Nat : r = w % b /\ d = w \div b
  BY <1>4
<1>6. Swapped(w) = r * b + d
  BY <1>1, <1>5 DEF Swapped
<1> QED
  BY <1>4, <1>5, <1>6

LEMMA MssWordIs ==
  ASSUME NEW p \in Packet
  PROVE  MssWord(p) \in Nat
<1>1. p.mss \in Words /\ p.mss \in Nat /\ 0 \in Nat
  BY PacketIs, OnesIs
<1> QED
  BY <1>1, SwappedIs DEF MssWord

(* The checksums, as sums.                                                 *)
LEMMA IpSumIs ==
  ASSUME NEW p \in Packet
  PROVE  \E a \in Int : a = SumOf(p.src) + SumOf(p.dst) + p.ip_sum /\ (IpSumOk(p) <=> a % Ones = 0)
<1>1. SumOf(p.src) \in Nat /\ SumOf(p.dst) \in Nat /\ p.ip_sum \in Nat
  BY PacketIs, SumIs, OnesIs
<1> QED
  BY <1>1 DEF IpSumOk

LEMMA IpSumShifts ==
  ASSUME NEW p \in Packet, NEW q \in Packet, NEW k \in Int, IpSumOk(p),
         SumOf(q.src) + SumOf(q.dst) + q.ip_sum = SumOf(p.src) + SumOf(p.dst) + p.ip_sum + k * Ones
  PROVE  IpSumOk(q)
<1>1. PICK a \in Int : a = SumOf(p.src) + SumOf(p.dst) + p.ip_sum /\ a % Ones = 0
  BY IpSumIs
<1>2. PICK b \in Int : b = SumOf(q.src) + SumOf(q.dst) + q.ip_sum /\ (IpSumOk(q) <=> b % Ones = 0)
  BY IpSumIs
<1>3. b = a + k * Ones
  BY <1>1, <1>2
<1> QED
  BY <1>1, <1>2, <1>3, ShiftsByOnes

Covered(p) == ~p.fragment /\ p.proto \in {"tcp", "udp"}
L4Sum(p) == SumOf(p.src) + SumOf(p.dst) + MssWord(p) + p.word + p.l4_sum

LEMMA L4SumIs ==
  ASSUME NEW p \in Packet
  PROVE  /\ L4Sum(p) \in Int
         /\ L4SumOk(p) <=> (Covered(p) => (p.proto = "udp" /\ p.l4_sum = 0) \/ L4Sum(p) % Ones = 0)
<1>1. SumOf(p.src) \in Nat /\ SumOf(p.dst) \in Nat /\ p.word \in Nat /\ p.l4_sum \in Nat /\ MssWord(p) \in Nat
  BY PacketIs, SumIs, OnesIs, MssWordIs
<1>2. L4Sum(p) \in Int
  BY <1>1 DEF L4Sum
<1>3. L4SumOk(p) <=> (Covered(p) => (p.proto = "udp" /\ p.l4_sum = 0) \/ L4Sum(p) % Ones = 0)
  BY PacketIs DEF L4SumOk, Covered, L4Sum
<1> QED
  BY <1>2, <1>3

LEMMA L4SumShifts ==
  ASSUME NEW p \in Packet, NEW q \in Packet, NEW k \in Int, L4Sum(p) % Ones = 0, L4Sum(q) = L4Sum(p) + k * Ones
  PROVE  L4SumOk(q)
<1>1. L4Sum(p) \in Int /\ L4Sum(q) \in Int
  BY L4SumIs
<1>2. L4Sum(q) % Ones = 0
  BY <1>1, ShiftsByOnes
<1> QED
  BY <1>2, L4SumIs

LEMMA PacketSums ==
  ASSUME NEW p \in Packet
  PROVE  /\ SumOf(p.src) \in Nat /\ SumOf(p.dst) \in Nat /\ p.word \in Nat /\ p.l4_sum \in Nat /\ p.ip_sum \in Nat
         /\ p.mss \in Nat /\ MssWord(p) \in Nat
BY PacketIs, SumIs, OnesIs, MssWordIs

(* A change of one address.                                                *)
Rest(p, q) ==
  /\ p \in Packet /\ q \in Packet /\ p.proto = q.proto /\ p.fragment = q.fragment /\ p.odd = q.odd
  /\ p.mss = q.mss /\ p.word = q.word /\ p.size = q.size /\ p.pads = q.pads
Sums(p, q) == (IpSumOk(p) => IpSumOk(q)) /\ (L4SumOk(p) => L4SumOk(q))

LEMMA AdjustIs ==
  ASSUME NEW p \in Packet, NEW u \in Packet, Rest(p, u), NEW old \in Words \X Words, NEW new \in Words \X Words,
         u.l4_sum = p.l4_sum, NEW q, q = AdjustL4(u, old, new),
         SumOf(u.src) + SumOf(u.dst) + SumOf(old) = SumOf(p.src) + SumOf(p.dst) + SumOf(new)
  PROVE  /\ Rest(p, q) /\ q.src = u.src /\ q.dst = u.dst /\ q.ip_sum = u.ip_sum
         /\ L4SumOk(p) => L4SumOk(q)
<1>1. MssWord(u) = MssWord(p) /\ Covered(u) = Covered(p)
  BY DEF Rest, MssWord, Covered
<1>2. CASE HasSum(u)
  <2>1. PICK c \in Words : c = Updates(u.l4_sum, old, new) /\ Differs(c, SumOf(new), u.l4_sum + SumOf(old))
    BY PacketIs, UpdatesIs
  <2>2. q = [u EXCEPT !.l4_sum = c]
    BY <1>2, <2>1 DEF AdjustL4
  <2>3. /\ q \in Packet /\ q.l4_sum = c /\ q.src = u.src /\ q.dst = u.dst /\ q.ip_sum = u.ip_sum
        /\ q.proto = u.proto /\ q.fragment = u.fragment /\ q.odd = u.odd
        /\ q.mss = u.mss /\ q.word = u.word /\ q.size = u.size /\ q.pads = u.pads
    BY <2>2 DEF Packet
  <2>4. Rest(p, q)
    BY <2>3 DEF Rest
  <2>5. MssWord(q) = MssWord(p)
    BY <2>4 DEF Rest, MssWord
  <2>6. ASSUME L4SumOk(p) PROVE L4SumOk(q)
    <3>1. Covered(p) /\ ~(p.proto = "udp" /\ p.l4_sum = 0)
      BY <1>1, <1>2 DEF HasSum, Covered, Rest
    <3>2. L4Sum(p) % Ones = 0
      BY <2>6, <3>1, L4SumIs
    <3>3. PICK k \in Int : c + SumOf(new) = (u.l4_sum + SumOf(old)) + k * Ones
      BY <2>1 DEF Differs
    <3>4. /\ SumOf(u.src) \in Nat /\ SumOf(u.dst) \in Nat /\ SumOf(p.src) \in Nat /\ SumOf(p.dst) \in Nat
          /\ SumOf(old) \in Nat /\ SumOf(new) \in Nat /\ p.word \in Nat /\ p.l4_sum \in Nat /\ MssWord(p) \in Nat
          /\ c \in Nat /\ Ones \in Nat
      BY PacketSums, SumIs, OnesIs
    <3>5. PICK us \in Nat, ud \in Nat, ps \in Nat, pd \in Nat, o \in Nat, n \in Nat, w \in Nat, l \in Nat, m \in Nat :
            /\ us = SumOf(u.src) /\ ud = SumOf(u.dst) /\ ps = SumOf(p.src) /\ pd = SumOf(p.dst)
            /\ o = SumOf(old) /\ n = SumOf(new) /\ w = p.word /\ l = p.l4_sum /\ m = MssWord(p)
      BY <3>4
    <3>6. PICK x \in Int : x = k * Ones
      BY <3>4
    <3>7. L4Sum(p) = ps + pd + m + w + l
      BY <3>5 DEF L4Sum
    <3>8. L4Sum(q) = us + ud + m + w + c
      BY <2>3, <2>4, <2>5, <3>5 DEF L4Sum, Rest
    <3>9. c + n = (l + o) + x /\ us + ud + o = ps + pd + n
      BY <3>3, <3>5, <3>6
    <3>10. us + ud + m + w + c = (ps + pd + m + w + l) + x
      BY <3>4, <3>9
    <3>11. L4Sum(q) = L4Sum(p) + k * Ones
      BY <3>6, <3>7, <3>8, <3>10
    <3> QED
      BY <2>3, <3>2, <3>11, L4SumShifts
  <2> QED
    BY <2>3, <2>4, <2>6
<1>3. CASE ~HasSum(u)
  <2>1. q = u
    BY <1>3 DEF AdjustL4
  <2>2. ~Covered(p) \/ (p.proto = "udp" /\ p.l4_sum = 0)
    BY <1>1, <1>3 DEF HasSum, Covered, Rest
  <2>3. ~Covered(u) \/ (u.proto = "udp" /\ u.l4_sum = 0)
    BY <1>1, <2>2 DEF Rest
  <2>4. L4SumOk(u)
    BY <2>3, L4SumIs
  <2> QED
    BY <2>1, <2>4
<1> QED
  BY <1>2, <1>3

LEMMA SourceIs ==
  ASSUME NEW p \in Packet, NEW ip \in Words \X Words, NEW q, q = ipv4_update_source(p, ip)
  PROVE  Rest(p, q) /\ q.src = ip /\ q.dst = p.dst /\ Sums(p, q)
<1>1. PICK c \in Words : c = Updates(p.ip_sum, p.src, ip) /\ Differs(c, SumOf(ip), p.ip_sum + SumOf(p.src))
  BY PacketIs, UpdatesIs
<1>2. PICK u : u = [p EXCEPT !.src = ip, !.ip_sum = c]
  OBVIOUS
<1>3. q = AdjustL4(u, p.src, ip)
  BY <1>1, <1>2 DEF ipv4_update_source
<1>4. /\ u \in Packet /\ u.src = ip /\ u.dst = p.dst /\ u.ip_sum = c /\ u.l4_sum = p.l4_sum /\ Rest(p, u)
  BY <1>2 DEF Packet, Rest
<1>5. SumOf(p.src) \in Nat /\ SumOf(p.dst) \in Nat /\ SumOf(ip) \in Nat /\ p.ip_sum \in Nat /\ c \in Nat /\ Ones \in Nat
  BY PacketIs, SumIs, OnesIs
<1>6. SumOf(u.src) + SumOf(u.dst) + SumOf(p.src) = SumOf(p.src) + SumOf(p.dst) + SumOf(ip)
  BY <1>4, <1>5
<1>7. p.src \in Words \X Words
  BY PacketIs
<1>8. /\ Rest(p, q) /\ q.src = u.src /\ q.dst = u.dst /\ q.ip_sum = u.ip_sum
      /\ L4SumOk(p) => L4SumOk(q)
  BY <1>3, <1>4, <1>6, <1>7, AdjustIs
<1>9. ASSUME IpSumOk(p) PROVE IpSumOk(q)
  <2>1. PICK k \in Int : c + SumOf(ip) = (p.ip_sum + SumOf(p.src)) + k * Ones
    BY <1>1 DEF Differs
  <2>2. PICK a \in Nat, b \in Nat, d \in Nat, o \in Nat : a = SumOf(p.src) /\ b = SumOf(p.dst) /\ d = SumOf(ip) /\ o = p.ip_sum
    BY <1>5
  <2>3. PICK x \in Int : x = k * Ones
    BY <1>5
  <2>4. d + b + c = a + b + o + x
    <3>1. c + d = (o + a) + x
      BY <2>1, <2>2, <2>3
    <3> QED
      BY <1>5, <3>1
  <2>5. SumOf(q.src) + SumOf(q.dst) + q.ip_sum = SumOf(p.src) + SumOf(p.dst) + p.ip_sum + k * Ones
    BY <1>4, <1>8, <2>2, <2>3, <2>4
  <2>6. q \in Packet
    BY <1>8 DEF Rest
  <2> QED
    BY <1>9, <2>5, <2>6, IpSumShifts
<1> QED
  BY <1>4, <1>8, <1>9 DEF Sums

LEMMA DestinationIs ==
  ASSUME NEW p \in Packet, NEW ip \in Words \X Words, NEW q, q = ipv4_update_destination(p, ip)
  PROVE  Rest(p, q) /\ q.dst = ip /\ q.src = p.src /\ Sums(p, q)
<1>1. PICK c \in Words : c = Updates(p.ip_sum, p.dst, ip) /\ Differs(c, SumOf(ip), p.ip_sum + SumOf(p.dst))
  BY PacketIs, UpdatesIs
<1>2. PICK u : u = [p EXCEPT !.dst = ip, !.ip_sum = c]
  OBVIOUS
<1>3. q = AdjustL4(u, p.dst, ip)
  BY <1>1, <1>2 DEF ipv4_update_destination
<1>4. /\ u \in Packet /\ u.dst = ip /\ u.src = p.src /\ u.ip_sum = c /\ u.l4_sum = p.l4_sum /\ Rest(p, u)
  BY <1>2 DEF Packet, Rest
<1>5. SumOf(p.src) \in Nat /\ SumOf(p.dst) \in Nat /\ SumOf(ip) \in Nat /\ p.ip_sum \in Nat /\ c \in Nat /\ Ones \in Nat
  BY PacketIs, SumIs, OnesIs
<1>6. SumOf(u.src) + SumOf(u.dst) + SumOf(p.dst) = SumOf(p.src) + SumOf(p.dst) + SumOf(ip)
  BY <1>4, <1>5
<1>7. p.dst \in Words \X Words
  BY PacketIs
<1>8. /\ Rest(p, q) /\ q.src = u.src /\ q.dst = u.dst /\ q.ip_sum = u.ip_sum
      /\ L4SumOk(p) => L4SumOk(q)
  BY <1>3, <1>4, <1>6, <1>7, AdjustIs
<1>9. ASSUME IpSumOk(p) PROVE IpSumOk(q)
  <2>1. PICK k \in Int : c + SumOf(ip) = (p.ip_sum + SumOf(p.dst)) + k * Ones
    BY <1>1 DEF Differs
  <2>2. PICK a \in Nat, b \in Nat, d \in Nat, o \in Nat : a = SumOf(p.src) /\ b = SumOf(p.dst) /\ d = SumOf(ip) /\ o = p.ip_sum
    BY <1>5
  <2>3. PICK x \in Int : x = k * Ones
    BY <1>5
  <2>4. a + d + c = a + b + o + x
    <3>1. c + d = (o + b) + x
      BY <2>1, <2>2, <2>3
    <3> QED
      BY <1>5, <3>1
  <2>5. SumOf(q.src) + SumOf(q.dst) + q.ip_sum = SumOf(p.src) + SumOf(p.dst) + p.ip_sum + k * Ones
    BY <1>4, <1>8, <2>2, <2>3, <2>4
  <2>6. q \in Packet
    BY <1>8 DEF Rest
  <2> QED
    BY <1>9, <2>5, <2>6, IpSumShifts
<1> QED
  BY <1>4, <1>8, <1>9 DEF Sums

(* A clamped MSS; only an option at an odd offset leaves a wrong checksum. *)
LEMMA ClampIs ==
  ASSUME NEW p \in Packet, NEW q, q = tcp_clamp_mss(p)
  PROVE  /\ q \in Packet /\ q.src = p.src /\ q.dst = p.dst /\ q.word = p.word /\ q.size = p.size /\ q.pads = p.pads
         /\ q.odd = p.odd
         /\ IpSumOk(p) => IpSumOk(q)
         /\ L4SumOk(p) => L4SumOk(q) \/ (p.odd /\ q.mss # p.mss)
<1>1. CASE p.proto # "tcp" \/ p.mss <= MssLimit
  BY <1>1 DEF tcp_clamp_mss
<1>2. CASE ~(p.proto # "tcp" \/ p.mss <= MssLimit)
  <2>1. MssLimit \in Words /\ MssLimit \in Nat /\ Ones \in Nat
    BY PathBounds, OnesIs
  <2>2. PICK c \in Words : c = update_word(p.l4_sum, p.mss, MssLimit) /\ Differs(c, MssLimit, p.l4_sum + p.mss)
    BY <2>1, PacketIs, UpdateWordIs
  <2>3. q = [p EXCEPT !.mss = MssLimit, !.l4_sum = c]
    BY <1>2, <2>2 DEF tcp_clamp_mss
  <2>4. /\ q \in Packet /\ q.src = p.src /\ q.dst = p.dst /\ q.word = p.word /\ q.size = p.size /\ q.pads = p.pads
        /\ q.odd = p.odd /\ q.mss = MssLimit /\ q.l4_sum = c /\ q.ip_sum = p.ip_sum /\ q.proto = p.proto
        /\ q.fragment = p.fragment
    BY <2>1, <2>3 DEF Packet
  <2>5. IpSumOk(p) => IpSumOk(q)
    BY <2>4 DEF IpSumOk
  <2>6. q.mss # p.mss
    BY <1>2, <2>1, <2>4, PacketSums
  <2>7. ASSUME L4SumOk(p), ~p.odd PROVE L4SumOk(q)
    <3>1. CASE ~Covered(p)
      <4>1. ~Covered(q)
        BY <2>4, <3>1 DEF Covered
      <4> QED
        BY <2>4, <4>1, L4SumIs
    <3>2. CASE Covered(p)
      <4>1. p.proto = "tcp"
        BY <1>2
      <4>2. L4Sum(p) % Ones = 0
        BY <2>7, <3>2, <4>1, L4SumIs
      <4>3. MssWord(p) = p.mss /\ MssWord(q) = MssLimit
        BY <2>4, <2>7, <4>1 DEF MssWord
      <4>4. PICK k \in Int : c + MssLimit = (p.l4_sum + p.mss) + k * Ones
        BY <2>2 DEF Differs
      <4>5. PICK x \in Int : x = k * Ones
        BY <2>1
      <4>6. PICK a \in Nat, b \in Nat, w \in Nat, l \in Nat, m \in Nat :
              a = SumOf(p.src) /\ b = SumOf(p.dst) /\ w = p.word /\ l = p.l4_sum /\ m = p.mss
        BY PacketSums
      <4>7. L4Sum(p) = a + b + m + w + l
        BY <4>3, <4>6 DEF L4Sum
      <4>8. L4Sum(q) = a + b + MssLimit + w + c
        BY <2>4, <4>3, <4>6 DEF L4Sum
      <4>9. c + MssLimit = (l + m) + x
        BY <4>4, <4>5, <4>6
      <4>10. c \in Nat
        BY OnesIs
      <4>11. a + b + MssLimit + w + c = (a + b + m + w + l) + x
        BY <2>1, <4>9, <4>10
      <4>12. L4Sum(q) = L4Sum(p) + k * Ones
        BY <4>5, <4>7, <4>8, <4>11
      <4> QED
        BY <2>4, <4>2, <4>12, L4SumShifts
    <3> QED
      BY <3>1, <3>2
  <2>8. p.odd \in BOOLEAN
    BY PacketIs
  <2> QED
    BY <2>4, <2>5, <2>6, <2>7, <2>8
<1> QED
  BY <1>1, <1>2

(* The checksums a host computes are right.                                *)
LEMMA SummedIs ==
  ASSUME NEW p \in Packet, NEW none \in BOOLEAN, NEW q, q = Summed(p, none)
  PROVE  Rest(p, q) /\ q.src = p.src /\ q.dst = p.dst /\ IpSumOk(q) /\ L4SumOk(q)
<1>1. PICK a \in Nat, b \in Nat, m \in Nat, w \in Nat : a = SumOf(p.src) /\ b = SumOf(p.dst) /\ m = MssWord(p) /\ w = p.word
  BY PacketSums
<1>2. PICK c \in Words : c = Complement(a + b) /\ ((a + b) + c) % Ones = 0
  BY ComplementIs
<1>3. PICK d \in Words : d = Complement(a + b + m + w) /\ ((a + b + m + w) + d) % Ones = 0
  BY ComplementIs
<1>4. PICK o \in Nat : o = Ones /\ o > 0 /\ o \in Words /\ 0 \in Words
  BY OnesIs
<1>5. PICK l : l = IF p.fragment \/ p.proto \notin {"tcp", "udp"} THEN 0
                   ELSE IF p.proto = "tcp" THEN d ELSE IF none THEN 0 ELSE UdpSum(d)
  OBVIOUS
<1>6. q = [p EXCEPT !.ip_sum = c, !.l4_sum = l]
  BY <1>1, <1>2, <1>3, <1>5 DEF Summed
<1>7. \/ ~Covered(p) /\ l = 0
      \/ Covered(p) /\ l = d
      \/ p.proto = "udp" /\ l = 0
      \/ Covered(p) /\ d = 0 /\ l = o
  <2>1. p.proto \in {"tcp", "udp", "icmp", "ipv6"} /\ p.fragment \in BOOLEAN
    BY PacketIs
  <2>2. ~Covered(p) => l = 0
    BY <1>5, <2>1 DEF Covered
  <2>3. Covered(p) /\ p.proto = "tcp" => l = d
    BY <1>5, <2>1 DEF Covered
  <2>4. ASSUME Covered(p), p.proto = "udp" PROVE (none /\ l = 0) \/ (~none /\ l = UdpSum(d))
    <3>1. ~(p.fragment \/ p.proto \notin {"tcp", "udp"}) /\ p.proto # "tcp"
      BY <2>4 DEF Covered
    <3>2. l = IF none THEN 0 ELSE UdpSum(d)
      BY <1>5, <3>1
    <3> QED
      BY <3>2
  <2>5. (d = 0 /\ UdpSum(d) = o) \/ UdpSum(d) = d
    BY <1>4 DEF UdpSum
  <2>6. Covered(p) => p.proto = "tcp" \/ p.proto = "udp"
    BY DEF Covered
  <2> QED
    BY <2>2, <2>3, <2>4, <2>5, <2>6
<1>8. l \in Words
  BY <1>4, <1>7
<1>9. /\ q \in Packet /\ q.ip_sum = c /\ q.l4_sum = l /\ q.src = p.src /\ q.dst = p.dst /\ Rest(p, q)
  BY <1>6, <1>8 DEF Packet, Rest
<1>10. IpSumOk(q)
  BY <1>1, <1>2, <1>9 DEF IpSumOk
<1>11. MssWord(q) = m /\ Covered(q) = Covered(p) /\ q.proto = p.proto
  BY <1>1, <1>9 DEF Rest, MssWord, Covered
<1>12. L4Sum(q) = a + b + m + w + l
  BY <1>1, <1>9, <1>11 DEF L4Sum, Rest
<1>13. L4SumOk(q)
  <2>1. CASE ~Covered(p)
    BY <1>9, <1>11, <2>1, L4SumIs
  <2>2. CASE p.proto = "udp" /\ l = 0
    BY <1>9, <1>11, <2>2, L4SumIs
  <2>3. CASE Covered(p) /\ l = d
    <3>1. L4Sum(q) % Ones = 0
      BY <1>3, <1>12, <2>3
    <3> QED
      BY <1>9, <3>1, L4SumIs
  <2>4. CASE Covered(p) /\ d = 0 /\ l = o
    <3>1. PICK x \in Int : x = a + b + m + w + d
      BY <2>4
    <3>2. x % Ones = 0
      BY <1>3, <3>1
    <3>3. L4Sum(q) = x + 1 * Ones
      BY <1>4, <1>12, <2>4, <3>1
    <3>4. L4Sum(q) \in Int
      BY <1>9, L4SumIs
    <3>5. L4Sum(q) % Ones = 0
      BY <3>2, <3>3, <3>4, ShiftsByOnes
    <3> QED
      BY <1>9, <3>5, L4SumIs
  <2> QED
    BY <1>7, <2>1, <2>2, <2>3, <2>4
<1> QED
  BY <1>9, <1>10, <1>13

(* Where a packet is and what is true of it there: o is the packet as the  *)
(* host sent it, q the packet before the chain it went through.            *)
OutDst(ip) == IF ip = TunDns THEN ServerDns ELSE ip
Right(p) == IpSumOk(p) /\ L4SumOk(p)
SentBy(o) == o \in Packet /\ o.src = TunIp /\ o.pads = <<>> /\ Right(o)
Outgoing(p, o, src) ==
  /\ p \in Packet /\ p.pads = <<>> /\ p.src = src /\ p.dst = OutDst(o.dst) /\ p.size = o.size /\ p.word = o.word
  /\ p.odd = o.odd /\ IpSumOk(p) /\ (L4SumOk(p) \/ (o.odd /\ p.mss # o.mss))
Answer(p, o, dst) ==
  p \in Packet /\ p.pads = <<>> /\ p.src = OutDst(o.dst) /\ p.dst = dst /\ Right(p)
Enters(chain, q, p) == Run(chain, q, TRUE).verdict = "accept" /\ p = Run(chain, q, TRUE).pkt
Lets(chain, p) == "even" \in ToSet(chain) => p.word % 2 = 0
Back(p, o) ==
  /\ p \in Packet /\ p.pads = <<>> /\ p.dst = TunIp /\ (o.dst # ServerDns => p.src = o.dst) /\ Right(p)

PathAt(w, c, s, p, o) ==
  /\ w \in [chain : Chains, offload : BOOLEAN, clamps : BOOLEAN] /\ c \in BOOLEAN
  /\ s \in {"none", "read", "uplink", "remote", "served", "downlink", "host"}
  /\ p \in Packet /\ o \in Packet
  /\ s # "none" => SentBy(o)
  /\ s \notin {"none", "read"} => c
  /\ s = "read" => p = o
  /\ s = "uplink" => \E q : Outgoing(q, o, ClientIp) /\ Enters(w.chain, q, p)
  /\ s = "remote" => Outgoing(p, o, PoolIp) /\ Lets(w.chain, p)
  /\ s = "served" => Answer(p, o, PoolIp)
  /\ s = "downlink" => \E q : Answer(q, o, ClientIp) /\ Enters(w.chain, q, p)
  /\ s = "host" => Back(p, o) /\ Lets(w.chain, p)

PathInv == PathAt(way, configured, stage, pkt, origin)

LEMMA AddressesAre ==
  /\ TunIp \in Words \X Words /\ TunDns \in Words \X Words /\ ClientIp \in Words \X Words
  /\ ServerDns \in Words \X Words /\ PoolIp \in Words \X Words
BY PathBounds

LEMMA NoPktIs == NoPkt \in Packet
<1>1. 0 \in Words /\ 0 \in Nat
  BY OnesIs
<1>2. <<>> \in Seq(Names)
  OBVIOUS
<1> QED
  BY <1>1, <1>2, AddressesAre DEF NoPkt, Packet

LEMMA ChainIs ==
  ASSUME PathInv
  PROVE  way.chain \in Seq(Names) /\ Reverse(way.chain) \in Seq(Names)
<1>1. way.chain \in Chains
  BY DEF PathInv, PathAt
<1>2. PICK c : c = way.chain /\ c \in Seq(STRING)
  BY <1>1, PathBounds
<1>3. PICK n \in Nat : n = Len(c)
  BY <1>2
<1>4. c \in Seq(Names)
  BY <1>2, SeqMonotonic DEF Names
<1>5. Reverse(c) \in Seq(Names)
  BY <1>3, <1>4 DEF Reverse
<1> QED
  BY <1>2, <1>4, <1>5

(* An address of the client's own, for the one the tunnel knows, and back. *)
LEMMA TranslatedOut ==
  ASSUME NEW o, SentBy(o), NEW q, q = TranslateOut(o)
  PROVE  Outgoing(q, o, ClientIp) /\ q.mss = o.mss /\ L4SumOk(q)
<1>1. o \in Packet /\ o.pads = <<>> /\ Right(o)
  BY DEF SentBy
<1>2. PICK p : p = ipv4_update_source(o, ClientIp)
  OBVIOUS
<1>3. Rest(o, p) /\ p.src = ClientIp /\ p.dst = o.dst /\ Sums(o, p)
  BY <1>1, <1>2, AddressesAre, SourceIs
<1>4. p \in Packet /\ Right(p)
  BY <1>1, <1>3 DEF Rest, Sums, Right
<1>5. CASE p.dst = TunDns
  <2>1. q = ipv4_update_destination(p, ServerDns)
    BY <1>2, <1>5 DEF TranslateOut
  <2>2. Rest(p, q) /\ q.dst = ServerDns /\ q.src = p.src /\ Sums(p, q)
    BY <1>4, <2>1, AddressesAre, DestinationIs
  <2>3. Right(q) /\ q.dst = OutDst(o.dst)
    BY <1>3, <1>4, <1>5, <2>2 DEF Sums, Right, OutDst
  <2> QED
    BY <1>1, <1>3, <2>2, <2>3 DEF Rest, Outgoing, Right
<1>6. CASE p.dst # TunDns
  <2>1. q = p
    BY <1>2, <1>6 DEF TranslateOut
  <2>2. q.dst = OutDst(o.dst)
    BY <1>3, <1>6, <2>1 DEF OutDst
  <2> QED
    BY <1>1, <1>3, <1>4, <2>1, <2>2 DEF Rest, Outgoing, Right
<1> QED
  BY <1>5, <1>6

LEMMA TranslatedIn ==
  ASSUME NEW o, NEW p, Answer(p, o, ClientIp), configured, NEW q, q = TranslateIn(p)
  PROVE  Back(q, o) /\ q.word = p.word
<1>1. p \in Packet /\ p.pads = <<>> /\ p.src = OutDst(o.dst) /\ Right(p)
  BY DEF Answer
<1>2. PICK r : r = ipv4_update_destination(p, TunIp)
  OBVIOUS
<1>3. Rest(p, r) /\ r.dst = TunIp /\ r.src = p.src /\ Sums(p, r)
  BY <1>1, <1>2, AddressesAre, DestinationIs
<1>4. r \in Packet /\ Right(r) /\ r.pads = <<>> /\ r.word = p.word
  BY <1>1, <1>3 DEF Rest, Sums, Right
<1>5. CASE r.src = ServerDns
  <2>1. q = ipv4_update_source(r, TunDns)
    BY <1>2, <1>5 DEF TranslateIn
  <2>2. Rest(r, q) /\ q.src = TunDns /\ q.dst = r.dst /\ Sums(r, q)
    BY <1>4, <2>1, AddressesAre, SourceIs
  <2>3. Right(q) /\ (o.dst # ServerDns => q.src = o.dst)
    BY <1>1, <1>3, <1>4, <1>5, <2>2 DEF Sums, Right, OutDst
  <2> QED
    BY <1>3, <1>4, <2>2, <2>3 DEF Rest, Back
<1>6. CASE r.src # ServerDns
  <2>1. q = r
    BY <1>2, <1>6 DEF TranslateIn
  <2>2. q.src = o.dst
    BY <1>1, <1>3, <1>6, <2>1 DEF OutDst
  <2> QED
    BY <1>3, <1>4, <2>1, <2>2 DEF Rest, Back
<1> QED
  BY <1>5, <1>6

(* Every next keeps the invariant.                                         *)
LEMMA PathInitIs == PathInit => PathInv
BY NoPktIs DEF PathInit, PathInv, PathAt

LEMMA GoneIs ==
  ASSUME PathInv, Gone, UNCHANGED <<way, configured>>
  PROVE  PathInv'
<1>1. way \in [chain : Chains, offload : BOOLEAN, clamps : BOOLEAN] /\ configured \in BOOLEAN
  BY DEF PathInv, PathAt
<1> QED
  BY <1>1, NoPktIs DEF Gone, PathInv, PathAt

LEMMA ConfigureIs ==
  ASSUME PathInv, Configure
  PROVE  PathInv'
<1>1. PICK c : c = configured'
  OBVIOUS
<1>2. c = TRUE /\ way' = way /\ stage' = stage /\ pkt' = pkt /\ origin' = origin
  BY <1>1 DEF Configure
<1>3. PathAt(way, c, stage, pkt, origin)
  BY <1>2 DEF PathInv, PathAt
<1> QED
  BY <1>1, <1>2, <1>3 DEF PathInv

LEMMA ReadIs ==
  ASSUME NEW p \in Packet, p.size \in {1, InsideMtu}
  PROVE  ReadFromTun(p) = p
<1>1. InsideMtu \in Nat /\ InsideMtu > 0
  BY PathBounds
<1>2. HeaderLen \in {0, 1} /\ vnet_headroom = HeaderLen
  BY DEF HeaderLen, vnet_headroom
<1>3. PICK h \in Nat, z \in Nat : h = HeaderLen /\ z = p.size /\ z <= InsideMtu
  BY <1>1, <1>2
<1>4. Least(h + z, InsideMtu + h) - h = z
  BY <1>1, <1>3 DEF Least
<1>5. ReadFromTun(p) = [p EXCEPT !.size = z]
  BY <1>2, <1>3, <1>4 DEF ReadFromTun
<1> QED
  BY <1>3, <1>5 DEF Packet

LEMMA HostWritesIs ==
  ASSUME PathInv, NEW dst \in Hosts, NEW kind \in Kinds, NEW word \in 0..Ones, NEW size \in {1, InsideMtu},
         NEW mss \in MssOf(kind), HostWrites(dst, kind, mss, word, size)
  PROVE  PathInv'
<1>1. PICK none \in BOOLEAN, frag \in BOOLEAN, odd \in BOOLEAN, proto \in {"tcp", "udp", "icmp", "ipv6"} :
        none = (kind[2] = "none") /\ frag = (kind[2] = "fragment") /\ odd = (kind[2] = "odd") /\ proto = kind[1]
  <2>1. kind[1] \in {"tcp", "udp", "icmp", "ipv6"}
    BY DEF Kinds
  <2>2. (kind[2] = "none") \in BOOLEAN /\ (kind[2] = "fragment") \in BOOLEAN /\ (kind[2] = "odd") \in BOOLEAN
    OBVIOUS
  <2> QED
    BY <2>1, <2>2, Zenon
<1>2. mss \in Words /\ word \in Words /\ dst \in Words \X Words /\ size \in Nat
  <2>1. 0 \in Words /\ Ones \in Words /\ word \in Words
    BY OnesIs
  <2>2. MssLimit \in Words /\ dst \in Words \X Words /\ size \in Nat
    BY PathBounds
  <2>3. mss \in Words
    BY <2>1, <2>2 DEF MssOf
  <2> QED
    BY <2>1, <2>2, <2>3
<1>3. PICK p : p = [NoPkt EXCEPT !.dst = dst, !.proto = proto, !.fragment = frag, !.odd = odd,
                                 !.mss = mss, !.word = word, !.size = size]
  OBVIOUS
<1>4. p \in Packet /\ p.src = TunIp /\ p.pads = <<>> /\ p.size = size
  <2>1. NoPkt.src = TunIp /\ NoPkt.pads = <<>>
    BY DEF NoPkt
  <2> QED
    BY <1>2, <1>3, <2>1, NoPktIs DEF Packet
<1>5. PICK o : o = Summed(p, none)
  OBVIOUS
<1>6. origin' = o
  BY <1>1, <1>3, <1>5 DEF HostWrites
<1>7. Rest(p, o) /\ o.src = p.src /\ Right(o)
  BY <1>4, <1>5, SummedIs DEF Right
<1>8. SentBy(o) /\ o.size \in {1, InsideMtu}
  BY <1>4, <1>7 DEF SentBy, Rest
<1>9. o \in Packet
  BY <1>8 DEF SentBy
<1>10. pkt' = o
  <2>1. pkt' = ReadFromTun(o)
    BY <1>6 DEF HostWrites
  <2> QED
    BY <1>8, <1>9, <2>1, ReadIs
<1>11. stage' = "read" /\ way' = way /\ configured' = configured
  BY DEF HostWrites, At
<1>12. way \in [chain : Chains, offload : BOOLEAN, clamps : BOOLEAN] /\ configured \in BOOLEAN
  BY DEF PathInv, PathAt
<1> QED
  BY <1>6, <1>8, <1>9, <1>10, <1>11, <1>12 DEF PathInv, PathAt

(* What the client makes of a packet it read.                              *)
LEMMA OutwardIs ==
  ASSUME PathInv, stage = "read", configured, NEW q, q = Outward, NEW t, t = IF way.clamps THEN tcp_clamp_mss(q) ELSE q
  PROVE  /\ SentBy(origin) /\ Outgoing(q, origin, ClientIp) /\ L4SumOk(q) /\ Outgoing(t, origin, ClientIp)
         /\ Entered = Run(way.chain, t, TRUE)
<1>1. SentBy(origin) /\ pkt = origin
  BY DEF PathInv, PathAt
<1>2. q = TranslateOut(origin)
  BY <1>1 DEF Outward
<1>3. Outgoing(q, origin, ClientIp) /\ q.mss = origin.mss /\ L4SumOk(q)
  BY <1>1, <1>2, TranslatedOut
<1>4. CASE way.clamps
  <2>1. q \in Packet
    BY <1>3 DEF Outgoing
  <2>2. PICK u : u = tcp_clamp_mss(q)
    OBVIOUS
  <2>3. /\ u \in Packet /\ u.src = q.src /\ u.dst = q.dst /\ u.word = q.word /\ u.size = q.size /\ u.pads = q.pads
        /\ u.odd = q.odd
        /\ IpSumOk(q) => IpSumOk(u)
        /\ L4SumOk(q) => L4SumOk(u) \/ (q.odd /\ u.mss # q.mss)
    BY <2>1, <2>2, ClampIs
  <2>4. t = u
    BY <1>4, <2>2
  <2>5. Outgoing(u, origin, ClientIp)
    BY <1>3, <2>3 DEF Outgoing
  <2>6. Entered = Run(way.chain, t, TRUE)
    BY <1>4 DEF Entered, Ingress, do_ingress
  <2> QED
    BY <1>1, <1>3, <2>4, <2>5, <2>6
<1>5. CASE ~way.clamps
  <2>1. t = q
    BY <1>5
  <2>2. Entered = Run(way.chain, t, TRUE)
    BY <1>5 DEF Entered, Ingress, do_ingress
  <2> QED
    BY <1>1, <1>3, <2>1, <2>2
<1> QED
  BY <1>4, <1>5

LEMMA ClientForwardsIs ==
  ASSUME PathInv, ClientForwards
  PROVE  PathInv'
<1>1. /\ stage = "read" /\ stage' = "uplink" /\ configured /\ Entered.verdict = "accept" /\ pkt' = Entered.pkt
      /\ way' = way /\ configured' = configured /\ origin' = origin
  BY DEF ClientForwards, At
<1>2. PICK q : q = Outward
  OBVIOUS
<1>3. PICK t : t = IF way.clamps THEN tcp_clamp_mss(q) ELSE q
  OBVIOUS
<1>4. SentBy(origin) /\ Outgoing(t, origin, ClientIp) /\ Entered = Run(way.chain, t, TRUE)
  BY <1>1, <1>2, <1>3, OutwardIs
<1>5. PICK p : p = pkt'
  OBVIOUS
<1>6. Enters(way.chain, t, p)
  BY <1>1, <1>4, <1>5 DEF Enters
<1>7. p \in Packet
  <2>1. t \in Packet
    BY <1>4 DEF Outgoing
  <2>2. Run(way.chain, t, TRUE) \in Verdicts
    BY <2>1, ChainIs, RunFacts
  <2> QED
    BY <1>6, <2>2 DEF Enters, Verdicts
<1>8. way \in [chain : Chains, offload : BOOLEAN, clamps : BOOLEAN] /\ configured \in BOOLEAN
  BY DEF PathInv, PathAt
<1>9. origin \in Packet
  BY DEF PathInv, PathAt
<1>10. PathAt(way, configured, "uplink", p, origin)
  BY <1>1, <1>4, <1>6, <1>7, <1>8, <1>9 DEF PathAt
<1> QED
  BY <1>1, <1>5, <1>10 DEF PathInv

(* A plugin's reply, and a remote host's, are of the word they were sent.  *)
LEMMA ReplyIs ==
  ASSUME NEW p \in Packet, NEW q, q = ReplyTo(p)
  PROVE  q \in Packet /\ q.pads = <<>> /\ q.src = p.dst /\ q.dst = p.src /\ q.word = p.word /\ Right(q)
<1>1. PICK u : u = [p EXCEPT !.src = p.dst, !.dst = p.src, !.pads = <<>>]
  OBVIOUS
<1>2. <<>> \in Seq(Names)
  OBVIOUS
<1>3. u \in Packet /\ u.src = p.dst /\ u.dst = p.src /\ u.pads = <<>> /\ u.word = p.word
  BY <1>1, <1>2 DEF Packet
<1>4. q = Summed(u, FALSE)
  BY <1>1 DEF ReplyTo
<1>5. Rest(u, q) /\ q.src = u.src /\ q.dst = u.dst /\ IpSumOk(q) /\ L4SumOk(q)
  BY <1>3, <1>4, SummedIs
<1> QED
  BY <1>3, <1>5 DEF Rest, Right

LEMMA ClientRepliesIs ==
  ASSUME PathInv, ClientReplies
  PROVE  PathInv'
<1>1. /\ stage = "read" /\ stage' = "host" /\ configured /\ Entered.verdict = "reply" /\ pkt' = TranslateIn(ReplyTo(Outward))
      /\ way' = way /\ configured' = configured /\ origin' = origin
  BY DEF ClientReplies, At
<1>2. PICK q : q = Outward
  OBVIOUS
<1>3. PICK t : t = IF way.clamps THEN tcp_clamp_mss(q) ELSE q
  OBVIOUS
<1>4. SentBy(origin) /\ Outgoing(q, origin, ClientIp) /\ Outgoing(t, origin, ClientIp) /\ Entered = Run(way.chain, t, TRUE)
  BY <1>1, <1>2, <1>3, OutwardIs
<1>5. q \in Packet /\ t \in Packet /\ q.word = t.word
  BY <1>4 DEF Outgoing
<1>6. q.word = 0
  BY <1>1, <1>4, <1>5, ChainIs, RunFacts
<1>7. PICK r : r = ReplyTo(q)
  OBVIOUS
<1>8. r \in Packet /\ r.pads = <<>> /\ r.src = q.dst /\ r.dst = q.src /\ r.word = q.word /\ Right(r)
  BY <1>5, <1>7, ReplyIs
<1>9. Answer(r, origin, ClientIp)
  BY <1>4, <1>8 DEF Answer, Outgoing
<1>10. PICK p : p = TranslateIn(r)
  OBVIOUS
<1>11. Back(p, origin) /\ p.word = 0
  BY <1>1, <1>6, <1>8, <1>9, <1>10, TranslatedIn
<1>12. Lets(way.chain, p)
  BY <1>11 DEF Lets
<1>13. pkt' = p
  BY <1>1, <1>2, <1>7, <1>10
<1>14. way \in [chain : Chains, offload : BOOLEAN, clamps : BOOLEAN] /\ configured \in BOOLEAN /\ origin \in Packet
  BY DEF PathInv, PathAt
<1>15. p \in Packet
  BY <1>11 DEF Back
<1>16. PathAt(way, configured, "host", p, origin)
  BY <1>1, <1>4, <1>11, <1>12, <1>14, <1>15 DEF PathAt
<1> QED
  BY <1>1, <1>13, <1>16 DEF PathInv

(* The far end of the tunnel takes the packet out as it went in.           *)
LEMMA TakenOut ==
  ASSUME PathInv, NEW q \in Packet, Enters(way.chain, q, pkt), NEW r, r = do_egress(pkt)
  PROVE  r.verdict = "accept" /\ r.pkt = q /\ Lets(way.chain, q)
<1>1. PICK chain \in Seq(Names) : chain = way.chain
  BY ChainIs
<1>2. Run(chain, q, TRUE).verdict = "accept" /\ r = Undo(chain, q)
  BY <1>1 DEF Enters, do_egress, Undo
<1>3. Undo(chain, q).verdict = "accept" /\ Undo(chain, q).pkt = q
  BY <1>2, RoundTrip
<1>4. PICK s : s = Run(chain, q, TRUE)
  OBVIOUS
<1>5. s.verdict = "accept" /\ "even" \in ToSet(chain) => q.word % 2 = 0
  BY <1>4, RunFacts
<1>6. Lets(way.chain, q)
  BY <1>1, <1>2, <1>4, <1>5 DEF Lets
<1> QED
  BY <1>2, <1>3, <1>6

LEMMA ServerSendsInsideIs ==
  ASSUME PathInv, ServerSendsInside
  PROVE  PathInv'
<1>1. stage = "uplink" /\ way' = way /\ configured' = configured
  BY DEF ServerSendsInside
<1>2. PICK q : Outgoing(q, origin, ClientIp) /\ Enters(way.chain, q, pkt)
  BY <1>1 DEF PathInv, PathAt
<1>3. q \in Packet
  BY <1>2 DEF Outgoing
<1>4. PICK r : r = do_egress(pkt)
  OBVIOUS
<1>5. r.verdict = "accept" /\ r.pkt = q /\ Lets(way.chain, q)
  BY <1>2, <1>3, <1>4, TakenOut
<1>6. stage' = "remote" /\ pkt' = FromClient(q) /\ origin' = origin
  BY <1>4, <1>5 DEF ServerSendsInside
<1>7. PICK p : p = ipv4_update_source(q, PoolIp)
  OBVIOUS
<1>8. pkt' = p
  BY <1>6, <1>7 DEF FromClient
<1>9. Rest(q, p) /\ p.src = PoolIp /\ p.dst = q.dst /\ Sums(q, p)
  BY <1>3, <1>7, AddressesAre, SourceIs
<1>10. Outgoing(p, origin, PoolIp) /\ Lets(way.chain, p)
  BY <1>2, <1>5, <1>9 DEF Outgoing, Rest, Sums, Lets
<1>11. /\ way \in [chain : Chains, offload : BOOLEAN, clamps : BOOLEAN] /\ configured \in BOOLEAN /\ origin \in Packet
       /\ configured /\ SentBy(origin)
  BY <1>1 DEF PathInv, PathAt
<1>12. p \in Packet
  BY <1>10 DEF Outgoing
<1>13. PathAt(way, configured, "remote", p, origin)
  BY <1>10, <1>11, <1>12 DEF PathAt
<1> QED
  BY <1>1, <1>6, <1>8, <1>13 DEF PathInv

LEMMA RemoteAnswersIs ==
  ASSUME PathInv, NEW word \in {0, Ones}, RemoteAnswers(word)
  PROVE  PathInv'
<1>1. /\ stage = "remote" /\ stage' = "served" /\ way' = way /\ configured' = configured /\ origin' = origin
  BY DEF RemoteAnswers, At
<1>2. Outgoing(pkt, origin, PoolIp)
  BY <1>1 DEF PathInv, PathAt
<1>3. word \in Words /\ 0 \in Words
  BY OnesIs
<1>4. PICK u : u = [pkt EXCEPT !.src = pkt.dst, !.dst = pkt.src, !.mss = 0, !.word = word]
  OBVIOUS
<1>5. pkt \in Packet /\ pkt.src = PoolIp /\ pkt.dst = OutDst(origin.dst) /\ pkt.pads = <<>>
  BY <1>2 DEF Outgoing
<1>6. u \in Packet /\ u.src = OutDst(origin.dst) /\ u.dst = PoolIp /\ u.pads = <<>>
  BY <1>3, <1>4, <1>5 DEF Packet
<1>7. PICK p : p = Summed(u, FALSE)
  OBVIOUS
<1>8. Rest(u, p) /\ p.src = u.src /\ p.dst = u.dst /\ IpSumOk(p) /\ L4SumOk(p)
  BY <1>6, <1>7, SummedIs
<1>9. pkt' = p
  BY <1>4, <1>7 DEF RemoteAnswers
<1>10. Answer(p, origin, PoolIp)
  BY <1>6, <1>8 DEF Rest, Answer, Right
<1>11. /\ way \in [chain : Chains, offload : BOOLEAN, clamps : BOOLEAN] /\ configured \in BOOLEAN /\ origin \in Packet
       /\ configured /\ SentBy(origin)
  BY <1>1 DEF PathInv, PathAt
<1>12. p \in Packet
  BY <1>10 DEF Answer
<1>13. PathAt(way, configured, "served", p, origin)
  BY <1>10, <1>11, <1>12 DEF PathAt
<1> QED
  BY <1>1, <1>9, <1>13 DEF PathInv

LEMMA ServerForwardsIs ==
  ASSUME PathInv, ServerForwards
  PROVE  PathInv'
<1>1. stage = "served" /\ way' = way /\ configured' = configured
  BY DEF ServerForwards
<1>2. Answer(pkt, origin, PoolIp)
  BY <1>1 DEF PathInv, PathAt
<1>3. pkt \in Packet
  BY <1>2 DEF Answer
<1>4. PICK q : q = ipv4_update_destination(pkt, ClientIp)
  OBVIOUS
<1>5. Rest(pkt, q) /\ q.dst = ClientIp /\ q.src = pkt.src /\ Sums(pkt, q)
  BY <1>3, <1>4, AddressesAre, DestinationIs
<1>6. Answer(q, origin, ClientIp)
  BY <1>2, <1>5 DEF Answer, Rest, Sums, Right
<1>7. PICK r : r = Run(way.chain, q, TRUE)
  OBVIOUS
<1>8. r = Ingress(ipv4_update_destination(pkt, ClientIp), FALSE)
  BY <1>4, <1>7 DEF Ingress, do_ingress
<1>9. CASE r.verdict # "accept"
  <2>1. Gone /\ UNCHANGED <<way, configured>>
    BY <1>8, <1>9 DEF ServerForwards
  <2> QED
    BY <2>1, GoneIs
<1>10. CASE r.verdict = "accept"
  <2>1. stage' = "downlink" /\ pkt' = r.pkt /\ origin' = origin
    BY <1>8, <1>10 DEF ServerForwards
  <2>2. q \in Packet
    BY <1>6 DEF Answer
  <2>3. r \in Verdicts
    BY <1>7, <2>2, ChainIs, RunFacts
  <2>4. PICK p : p = r.pkt
    OBVIOUS
  <2>5. p \in Packet /\ Enters(way.chain, q, p)
    BY <1>7, <1>10, <2>3, <2>4 DEF Verdicts, Enters
  <2>6. /\ way \in [chain : Chains, offload : BOOLEAN, clamps : BOOLEAN] /\ configured \in BOOLEAN /\ origin \in Packet
        /\ configured /\ SentBy(origin)
    BY <1>1 DEF PathInv, PathAt
  <2>7. PathAt(way, configured, "downlink", p, origin)
    BY <1>6, <2>5, <2>6 DEF PathAt
  <2> QED
    BY <1>1, <2>1, <2>4, <2>7 DEF PathInv
<1> QED
  BY <1>9, <1>10

LEMMA ClientSendsInsideIs ==
  ASSUME PathInv, ClientSendsInside
  PROVE  PathInv'
<1>1. stage = "downlink" /\ way' = way /\ configured' = configured
  BY DEF ClientSendsInside
<1>2. PICK q : Answer(q, origin, ClientIp) /\ Enters(way.chain, q, pkt)
  BY <1>1 DEF PathInv, PathAt
<1>3. q \in Packet
  BY <1>2 DEF Answer
<1>4. PICK r : r = do_egress(pkt)
  OBVIOUS
<1>5. r.verdict = "accept" /\ r.pkt = q /\ Lets(way.chain, q)
  BY <1>2, <1>3, <1>4, TakenOut
<1>6. PICK p : p = TranslateIn(q)
  OBVIOUS
<1>7. stage' = "host" /\ pkt' = p /\ origin' = origin
  BY <1>4, <1>5, <1>6 DEF ClientSendsInside
<1>8. /\ way \in [chain : Chains, offload : BOOLEAN, clamps : BOOLEAN] /\ configured \in BOOLEAN /\ origin \in Packet
      /\ configured /\ SentBy(origin)
  BY <1>1 DEF PathInv, PathAt
<1>9. Back(p, origin) /\ p.word = q.word
  BY <1>2, <1>6, <1>8, TranslatedIn
<1>10. Lets(way.chain, p)
  BY <1>5, <1>9 DEF Lets
<1>11. p \in Packet
  BY <1>9 DEF Back
<1>12. PathAt(way, configured, "host", p, origin)
  BY <1>8, <1>9, <1>10, <1>11 DEF PathAt
<1> QED
  BY <1>1, <1>7, <1>12 DEF PathInv

LEMMA PathStepIs ==
  ASSUME PathInv, [PathNext]_pathVars
  PROVE  PathInv'
<1>1. ASSUME NEW dst \in Hosts, NEW kind \in Kinds, NEW word \in 0..Ones, NEW size \in {1, InsideMtu},
             NEW mss \in MssOf(kind), HostWrites(dst, kind, mss, word, size)
      PROVE  PathInv'
  BY <1>1, HostWritesIs
<1>2. ASSUME NEW word \in {0, Ones}, RemoteAnswers(word) PROVE PathInv'
  BY <1>2, RemoteAnswersIs
<1>3. CASE ClientDrops \/ Lost \/ Consumed
  BY <1>3, GoneIs DEF ClientDrops, Lost, Consumed
<1>4. CASE UNCHANGED pathVars
  BY <1>4 DEF pathVars, PathInv, PathAt
<1> QED
  BY <1>1, <1>2, <1>3, <1>4, ConfigureIs, ClientForwardsIs, ClientRepliesIs, ServerSendsInsideIs, ServerForwardsIs,
     ClientSendsInsideIs DEF PathNext

(* The invariant says what the property asks, at every stage.              *)
LEMMA SameSums ==
  ASSUME NEW p, NEW q, Same(p, q)
  PROVE  (IpSumOk(q) => IpSumOk(p)) /\ (L4SumOk(q) => L4SumOk(p))
<1>1. /\ p.src = q.src /\ p.dst = q.dst /\ p.proto = q.proto /\ p.fragment = q.fragment /\ p.odd = q.odd /\ p.mss = q.mss
      /\ p.word = q.word /\ p.ip_sum = q.ip_sum /\ p.l4_sum = q.l4_sum
  BY DEF Same
<1>2. MssWord(p) = MssWord(q)
  BY <1>1 DEF MssWord
<1> QED
  BY <1>1, <1>2 DEF IpSumOk, L4SumOk

LEMMA PathInvGives == PathInv => TunnelTransparent
<1> SUFFICES ASSUME PathInv PROVE TunnelTransparent
  OBVIOUS
<1>1. pkt \in Packet /\ origin \in Packet /\ stage \in {"none", "read", "uplink", "remote", "served", "downlink", "host"}
  BY DEF PathInv, PathAt
<1>2. PathTypeOK
  BY <1>1, PacketIs, OnesIs DEF PathTypeOK
<1>3. ASSUME NEW q \in Packet, Enters(way.chain, q, pkt) PROVE Same(pkt, q)
  BY <1>3, ChainIs, RunFacts DEF Enters
<1>4. ChecksumsKept
  <2>1. ASSUME stage = "uplink" PROVE IpSumOk(pkt) /\ (L4SumOk(pkt) \/ (origin.odd /\ pkt.mss # origin.mss))
    <3>1. PICK q : Outgoing(q, origin, ClientIp) /\ Enters(way.chain, q, pkt)
      BY <2>1 DEF PathInv, PathAt
    <3>2. q \in Packet /\ IpSumOk(q) /\ (L4SumOk(q) \/ (origin.odd /\ q.mss # origin.mss))
      BY <3>1 DEF Outgoing
    <3>3. Same(pkt, q) /\ pkt.mss = q.mss
      BY <1>3, <3>1, <3>2 DEF Same
    <3> QED
      BY <3>2, <3>3, SameSums
  <2>2. ASSUME stage = "downlink" PROVE IpSumOk(pkt) /\ L4SumOk(pkt)
    <3>1. PICK q : Answer(q, origin, ClientIp) /\ Enters(way.chain, q, pkt)
      BY <2>2 DEF PathInv, PathAt
    <3>2. q \in Packet /\ IpSumOk(q) /\ L4SumOk(q)
      BY <3>1 DEF Answer, Right
    <3>3. Same(pkt, q)
      BY <1>3, <3>1, <3>2
    <3> QED
      BY <3>2, <3>3, SameSums
  <2>3. ASSUME stage = "remote" PROVE IpSumOk(pkt) /\ (L4SumOk(pkt) \/ (origin.odd /\ pkt.mss # origin.mss))
    BY <2>3 DEF PathInv, PathAt, Outgoing
  <2>4. ASSUME stage = "host" PROVE IpSumOk(pkt) /\ L4SumOk(pkt)
    BY <2>4 DEF PathInv, PathAt, Back, Right
  <2> QED
    BY <2>1, <2>2, <2>3, <2>4 DEF ChecksumsKept
<1>5. ArrivesAsSent
  BY DEF PathInv, PathAt, Outgoing, OutDst, ArrivesAsSent
<1>6. AnsweredByAddressee
  BY DEF PathInv, PathAt, Back, AnsweredByAddressee
<1>7. Filtered
  BY DEF PathInv, PathAt, Lets, Filtered
<1> QED
  BY <1>2, <1>4, <1>5, <1>6, <1>7 DEF TunnelTransparent

(* For every width of the checksum words, every chain of plugins, every    *)
(* set of hosts and every MTU: what comes out of the tunnel is what went   *)
(* in, with right checksums, from the address the receiver expects, unless *)
(* a filter refused it (tun.rs, plugin.rs, utils.rs).                      *)
THEOREM TunnelIsTransparent == PathSpec => []TunnelTransparent
<1>1. PathInv /\ [PathNext]_pathVars => PathInv'
  BY PathStepIs
<1> QED
  BY <1>1, PathInitIs, PathInvGives, PTL DEF PathSpec
=============================================================================
