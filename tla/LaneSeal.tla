------------------------------ MODULE LaneSeal ------------------------------
(***************************************************************************)
(* The send half of an ExpressLane session.  Any number of threads seal    *)
(* packets through `&self`: each reserves a wire counter, reads the wire   *)
(* version, takes the keys for reading, borrows a cipher of the current    *)
(* key's pool (or builds one), encrypts, and gives the cipher back.  Key   *)
(* changes take the keys for writing, and so wait for the threads that     *)
(* are sealing.  set_version is called by the owner of the session before  *)
(* it lets anybody send.                                                   *)
(***************************************************************************)
EXTENDS Integers, Sequences, FiniteSets

CONSTANTS Sealers,       \* threads that send
          LaneKeys,      \* real keys
          MAX_POOLED,    \* ciphers a pool retains
          MaxReserved,   \* bound on the counters reserved
          MaxStaged,     \* bound on the keys staged
          MaxBuilt       \* bound on the ciphers built

ASSUME LaneAssumption == MAX_POOLED \in Nat \ {0} /\ MaxReserved \in Nat

VARIABLES
  lane_version,    \* the wire version in force
  wire_counter,    \* counters reserved
  current_self, next_self,  \* the TX keys, each a Keyed or NoKeyed
  pools,           \* pools[n]: the ciphers at rest in the pool of the n-th key staged
  built,           \* built[c]: the key cipher c was built with
  sealing,         \* where each thread is
  frames,          \* the frames returned to the callers
  staged           \* number of keys staged

laneVars == <<lane_version, wire_counter, current_self, next_self, pools, built, sealing, frames, staged>>

INVALID == "all-zero"
NoKeyed == [key |-> INVALID, pool |-> 0]
Versions == 1..2
AtRest  == [at |-> "idle", counter |-> 0, encoded |-> FALSE, version |-> 1, keyed |-> NoKeyed, cipher |-> 0]

(* What the receiver must rebuild from the frame's own fields.             *)
build_aad(version, counter, encoded) ==
  IF version >= 2 THEN <<counter, encoded>> ELSE <<counter>>

LaneInit ==
  /\ lane_version \in Versions /\ wire_counter = 0
  /\ current_self = NoKeyed /\ next_self = NoKeyed /\ pools = <<>> /\ built = <<>>
  /\ sealing = [w \in Sealers |-> AtRest]
  /\ frames = {} /\ staged = 0

-----------------------------------------------------------------------------
(* The keys are behind a readers-writer lock.                              *)

Readers == {w \in Sealers : sealing[w].at \in {"keyed", "cipher"}}

NoWait == TRUE                                    \* mutant: a rotation does not wait for the threads that seal
keys_write == Readers = {}

(* PooledAead::new builds a first cipher before the lock is taken.         *)
update_next_self_key(key) ==
  /\ staged < MaxStaged /\ Len(built) < MaxBuilt /\ keys_write
  /\ staged' = staged + 1 /\ built' = Append(built, key)
  /\ pools' = Append(pools, {Len(built) + 1})
  /\ next_self' = [key |-> key, pool |-> Len(pools) + 1]
  /\ UNCHANGED <<lane_version, wire_counter, current_self, sealing, frames>>

promote_self_key ==
  /\ next_self # NoKeyed /\ keys_write
  /\ current_self' = next_self /\ next_self' = NoKeyed
  /\ UNCHANGED <<lane_version, wire_counter, pools, built, sealing, frames, staged>>

Unsent == wire_counter = 0

(* The caller owns the session: no thread is inside a call.                *)
set_version(v) ==
  /\ \A w \in Sealers : sealing[w].at = "idle"
  /\ v # lane_version /\ Unsent /\ lane_version' = v
  /\ UNCHANGED <<wire_counter, current_self, next_self, pools, built, sealing, frames, staged>>

-----------------------------------------------------------------------------
(* append_to_wire by thread w.                                             *)

Becomes(w, at) == sealing' = [sealing EXCEPT ![w] = at]
Fails(w) == Becomes(w, AtRest)          \* the counter leaves a gap

reserve_counter(w, encoded) ==
  /\ sealing[w].at = "idle" /\ wire_counter < MaxReserved
  /\ wire_counter' = wire_counter + 1
  /\ Becomes(w, [AtRest EXCEPT !.at = "counted", !.counter = wire_counter + 1, !.encoded = encoded])
  /\ UNCHANGED <<lane_version, current_self, next_self, pools, built, frames, staged>>

ReadVersion(w) ==
  /\ sealing[w].at = "counted"
  /\ Becomes(w, [sealing[w] EXCEPT !.at = "versioned", !.version = lane_version])
  /\ UNCHANGED <<lane_version, wire_counter, current_self, next_self, pools, built, frames, staged>>

Usable(k) == k # NoKeyed /\ k.key # INVALID

NoKey(w) ==
  /\ sealing[w].at = "versioned" /\ ~Usable(current_self) /\ Fails(w)
  /\ UNCHANGED <<lane_version, wire_counter, current_self, next_self, pools, built, frames, staged>>

keys_read(w) ==
  /\ sealing[w].at = "versioned" /\ Usable(current_self)
  /\ Becomes(w, [sealing[w] EXCEPT !.at = "keyed", !.keyed = current_self])
  /\ UNCHANGED <<lane_version, wire_counter, current_self, next_self, pools, built, frames, staged>>

PeeksPool(p, c) == pools                          \* mutant: the cipher is not taken out of the pool
Without(p, c) == [pools EXCEPT ![p] = @ \ {c}]

take(w) ==
  LET p == sealing[w].keyed.pool IN
  /\ sealing[w].at = "keyed"
  /\ \/ \E c \in pools[p] :
          /\ pools' = Without(p, c) /\ UNCHANGED built
          /\ Becomes(w, [sealing[w] EXCEPT !.at = "cipher", !.cipher = c])
     \/ /\ pools[p] = {} /\ Len(built) < MaxBuilt /\ UNCHANGED pools
        /\ built' = Append(built, sealing[w].keyed.key)
        /\ Becomes(w, [sealing[w] EXCEPT !.at = "cipher", !.cipher = Len(built) + 1])
  /\ UNCHANGED <<lane_version, wire_counter, current_self, next_self, frames, staged>>

BuildFails(w) ==
  /\ sealing[w].at = "keyed" /\ pools[sealing[w].keyed.pool] = {} /\ Fails(w)
  /\ UNCHANGED <<lane_version, wire_counter, current_self, next_self, pools, built, frames, staged>>

PoolHasRoom(p) == Cardinality(pools[p]) < MAX_POOLED

(* encrypt; the cipher goes back, the keys are unlocked, and the frame is  *)
(* put together from the result.                                           *)
give_back(w) ==
  LET p == sealing[w].keyed.pool IN
  /\ sealing[w].at = "cipher"
  /\ pools' = IF PoolHasRoom(p) THEN [pools EXCEPT ![p] = @ \cup {sealing[w].cipher}] ELSE pools
  /\ Becomes(w, [sealing[w] EXCEPT !.at = "sealed"])
  /\ UNCHANGED <<lane_version, wire_counter, current_self, next_self, built, frames, staged>>

Frame(s) == [counter |-> s.counter, encoded |-> s.encoded,
             key |-> built[s.cipher], aad |-> build_aad(s.version, s.counter, s.encoded)]

append_frame(w) ==
  /\ sealing[w].at = "sealed" /\ Becomes(w, AtRest)
  /\ frames' = frames \cup {Frame(sealing[w])}
  /\ UNCHANGED <<lane_version, wire_counter, current_self, next_self, pools, built, staged>>

EncryptFails(w) ==
  /\ sealing[w].at = "sealed" /\ Fails(w)
  /\ UNCHANGED <<lane_version, wire_counter, current_self, next_self, pools, built, frames, staged>>

LaneNext ==
  \/ \E key \in LaneKeys \cup {INVALID} : update_next_self_key(key)
  \/ promote_self_key
  \/ \E v \in Versions : set_version(v)
  \/ \E w \in Sealers, encoded \in BOOLEAN : reserve_counter(w, encoded)
  \/ \E w \in Sealers : \/ ReadVersion(w) \/ NoKey(w) \/ keys_read(w) \/ take(w) \/ BuildFails(w)
                        \/ give_back(w) \/ append_frame(w) \/ EncryptFails(w)

LaneSpec == LaneInit /\ [][LaneNext]_laneVars

-----------------------------------------------------------------------------
Held(w) == sealing[w].at = "cipher"

(* The key slots, the pools, which never exceed MAX_POOLED, and the place  *)
(* of every sealing thread have their types (session.rs).                  *)
LaneTypeOK ==
  /\ lane_version \in Versions /\ wire_counter \in 0..MaxReserved
  /\ \A k \in {current_self, next_self} : k.pool \in 0..Len(pools)
  /\ \A n \in DOMAIN pools : Cardinality(pools[n]) <= MAX_POOLED /\ pools[n] \subseteq DOMAIN built

(* A cipher's methods need `&mut self`: no two threads work with one, and  *)
(* none that a thread works with is in a pool.  A pool hands out ciphers   *)
(* of its own key only.                                                    *)
CipherExclusive ==
  /\ \A v, w \in Sealers : Held(v) /\ Held(w) /\ v # w => sealing[v].cipher # sealing[w].cipher
  /\ \A w \in Sealers : Held(w) => \A n \in DOMAIN pools : sealing[w].cipher \notin pools[n]
  /\ \A w \in Sealers : Held(w) => built[sealing[w].cipher] = sealing[w].keyed.key

(* Every counter reserved ends in at most one frame, whatever the order of *)
(* the threads and across key rotations: the peer's replay window, which   *)
(* outlives a key, would drop a second one.                                *)
CounterOnce ==
  /\ \A f, g \in frames : f.counter = g.counter => f = g
  /\ \A v, w \in Sealers : v # w /\ sealing[v].at # "idle" => sealing[v].counter # sealing[w].counter
  /\ \A w \in Sealers : sealing[w].at # "idle" => \A f \in frames : f.counter # sealing[w].counter

(* Once a key is promoted no packet is sealed under the one before it, and *)
(* once the sentinel of a degrade notice is, none at all.                  *)
SealedCurrent ==
  \A w \in Sealers : Held(w) => built[sealing[w].cipher] = current_self.key /\ current_self.key # INVALID

(* set_version: "adopting a new one mid-stream would fail every packet     *)
(* already in flight": the version in force rebuilds the associated data   *)
(* of every frame sent.                                                    *)
AadRebuilt == \A f \in frames : f.aad = build_aad(lane_version, f.counter, f.encoded)

(* Sealing is safe for any number of threads and through every change of   *)
(* keys: no cipher is shared, no counter is used twice, nothing is sealed  *)
(* under a key that has been replaced, and the peer can rebuild the        *)
(* associated data of all that is sent (try_append_to_wire, keys).         *)
LaneSafe ==
  /\ LaneTypeOK
  /\ CipherExclusive
  /\ CounterOnce
  /\ SealedCurrent
  /\ AadRebuilt
=============================================================================
