----------------------------- MODULE ServerStats -----------------------------
(***************************************************************************)
(* What the server knows of the activity of its connections: the times the *)
(* data path notes, the poll of the counters of offloaded sessions, the    *)
(* session statistics and the eviction of idle connections.  Session ids   *)
(* rotate under the poll, and a counter may be unreadable.  Ages count up  *)
(* to OldAge, in units that the limits of the statistics fall on.          *)
(***************************************************************************)
EXTENDS Naturals, FiniteSets

CONSTANTS StatConns,   \* connections
          OldAge,      \* the age at which ages stop counting
          Intervals,   \* FIVE_MINUTES, FIFTEEN_MINUTES, SIXTY_MINUTES
          MaxIdleAge,  \* CONNECTION_MAX_IDLE_AGE
          MaxBytes,    \* bound on the traffic of a connection
          MaxIds       \* bound on session ids

ASSUME StatBounds ==
  /\ OldAge \in Nat /\ Intervals \subseteq 1 .. OldAge - 1 /\ MaxIdleAge \in 1 .. OldAge - 1
  /\ MaxBytes \in Nat /\ MaxIds \in Nat
  /\ IsFiniteSet(StatConns) /\ Cardinality(StatConns) <= MaxIds

VARIABLES
  online,      \* connections that are online
  sid,         \* session_id of each
  next_sid,    \* the next id
  carried,     \* bytes received by the offload, carried over a rotation
  seen_bytes,  \* seen: the last observation of each session id, or NoBytes
  reported,    \* expresslane_offload_rx_bytes, for each connection
  skipped,     \* what first observations took as their baselines and no report has
  baselined,   \* history: the session ids that have been observed
  hidden,      \* history: connections whose last traffic a baseline took
  outside_age, \* since last_outside_data_received
  traffic_age, \* since last_data_traffic_from_peer
  heard_age    \* since the peer's last packet, of any path

statVars == <<online, sid, next_sid, carried, seen_bytes, reported, skipped, baselined, hidden,
              outside_age, traffic_age, heard_age>>

NoBytes == MaxBytes + 1
SidRange == 1 .. MaxIds

StatInit ==
  /\ online = StatConns
  /\ sid \in [StatConns -> 1 .. Cardinality(StatConns)] /\ \A a, b \in StatConns : a # b => sid[a] # sid[b]
  /\ next_sid = Cardinality(StatConns) + 1
  /\ carried = [c \in StatConns |-> 0] /\ seen_bytes = [i \in SidRange |-> NoBytes]
  /\ reported = [c \in StatConns |-> 0] /\ skipped = [c \in StatConns |-> 0]
  /\ baselined = {} /\ hidden = {}
  /\ outside_age = [c \in StatConns |-> 0] /\ traffic_age = [c \in StatConns |-> 0]
  /\ heard_age = [c \in StatConns |-> 0]

(* handle_outside_data_packet: any packet; a data frame is also delivered. *)
Received(c, data) ==
  /\ c \in online
  /\ outside_age' = [outside_age EXCEPT ![c] = 0] /\ heard_age' = [heard_age EXCEPT ![c] = 0]
  /\ traffic_age' = IF data THEN [traffic_age EXCEPT ![c] = 0] ELSE traffic_age
  /\ hidden' = hidden \ {c}
  /\ UNCHANGED <<online, sid, next_sid, carried, seen_bytes, reported, skipped, baselined>>

(* A packet to the client over ExpressLane, or as a batch of segments.     *)
Sent(c) ==
  /\ c \in online
  /\ traffic_age' = [traffic_age EXCEPT ![c] = 0]
  /\ UNCHANGED <<online, sid, next_sid, carried, seen_bytes, reported, skipped, baselined, hidden, outside_age, heard_age>>

(* Traffic that never reaches the process.                                 *)
Offloaded(c) ==
  /\ c \in online /\ carried[c] < MaxBytes
  /\ carried' = [carried EXCEPT ![c] = @ + 1] /\ heard_age' = [heard_age EXCEPT ![c] = 0]
  /\ UNCHANGED <<online, sid, next_sid, seen_bytes, reported, skipped, baselined, hidden, outside_age, traffic_age>>

RotateSid(c) ==
  /\ c \in online /\ next_sid <= MaxIds
  /\ sid' = [sid EXCEPT ![c] = next_sid] /\ next_sid' = next_sid + 1
  /\ UNCHANGED <<online, carried, seen_bytes, reported, skipped, baselined, hidden, outside_age, traffic_age, heard_age>>

-----------------------------------------------------------------------------
(* decide: the bytes since the last observation; a first one is a baseline.*)
FromZero(c) == IF seen_bytes[sid[c]] = NoBytes THEN carried[c] ELSE carried[c] - seen_bytes[sid[c]]
decide(c) == IF seen_bytes[sid[c]] = NoBytes THEN 0 ELSE carried[c] - seen_bytes[sid[c]]

(* A tick of the poll.  A session without a reading keeps its baseline;    *)
(* the ids that are gone are forgotten.  tx: the offload sent something.   *)
LiveIfBusy == {sid[c] : c \in {d \in online : decide(d) > 0}}
Live == {sid[c] : c \in online}
Poll(read, tx) ==
  /\ read \subseteq online /\ tx \subseteq {c \in read : seen_bytes[sid[c]] # NoBytes}
  /\ reported' = [c \in StatConns |-> reported[c] + (IF c \in read THEN decide(c) ELSE 0)]
  /\ skipped' = [c \in StatConns |-> IF c \in read /\ seen_bytes[sid[c]] = NoBytes
                                     THEN carried[c] - reported[c] ELSE skipped[c]]
  /\ LET rx == {c \in read : decide(c) > 0}
         first == {c \in read : seen_bytes[sid[c]] = NoBytes}
     IN /\ outside_age' = [c \in StatConns |-> IF c \in rx \cup tx THEN 0 ELSE outside_age[c]]
        /\ traffic_age' = [c \in StatConns |-> IF c \in rx THEN 0 ELSE traffic_age[c]]
        /\ baselined' = baselined \cup {sid[c] : c \in first}
        /\ hidden' = (hidden \ (rx \cup tx)) \cup {c \in first : carried[c] > reported[c] + skipped[c]}
  /\ seen_bytes' = [i \in SidRange |-> IF \E c \in read : sid[c] = i
                                  THEN carried[CHOOSE c \in read : sid[c] = i]
                                  ELSE IF i \in Live THEN seen_bytes[i] ELSE NoBytes]
  /\ UNCHANGED <<online, sid, next_sid, carried, heard_age>>

(* calculate_session_stats.                                                *)
Active(k) == {c \in online : traffic_age[c] <= k}
Standby(k) == {c \in online : outside_age[c] <= k /\ traffic_age[c] > k}

(* evict_idle_connections.                                                 *)
EvictsQuiet(c) == traffic_age[c] > MaxIdleAge
IsIdle(c) == outside_age[c] > MaxIdleAge
Evict(c) ==
  /\ c \in online /\ IsIdle(c)
  /\ online' = online \ {c}
  /\ UNCHANGED <<sid, next_sid, carried, seen_bytes, reported, skipped, baselined, hidden, outside_age, traffic_age, heard_age>>

Older(age) == [c \in StatConns |-> IF age[c] < OldAge THEN age[c] + 1 ELSE age[c]]
StatTick ==
  /\ outside_age' = Older(outside_age) /\ traffic_age' = Older(traffic_age) /\ heard_age' = Older(heard_age)
  /\ UNCHANGED <<online, sid, next_sid, carried, seen_bytes, reported, skipped, baselined, hidden>>

StatNext ==
  \/ \E c \in StatConns, data \in BOOLEAN : Received(c, data)
  \/ \E c \in StatConns : Sent(c) \/ Offloaded(c) \/ RotateSid(c) \/ Evict(c)
  \/ \E read, tx \in SUBSET StatConns : Poll(read, tx)
  \/ StatTick

StatSpec == StatInit /\ [][StatNext]_statVars
-----------------------------------------------------------------------------
StatTypeOK ==
  /\ online \subseteq StatConns /\ sid \in [StatConns -> SidRange]
  /\ \A c \in StatConns : carried[c] <= MaxBytes /\ reported[c] <= MaxBytes

(* No byte of the offload is reported twice, and none goes unreported but  *)
(* what the first observation of a session id took as its baseline: what   *)
(* is reported and what baselines took add up to what has been observed.   *)
(* An id takes one baseline: readings that fail in between hide nothing,   *)
(* however many there are.                                                 *)
BytesOnce ==
  \A c \in StatConns :
    /\ reported[c] + skipped[c] <= carried[c]
    /\ seen_bytes[sid[c]] # NoBytes => reported[c] + skipped[c] = seen_bytes[sid[c]]
    /\ c \in online /\ sid[c] \in baselined => seen_bytes[sid[c]] # NoBytes

(* What was heard of a connection last is not known to the server: no poll *)
(* has observed it yet, or a baseline took it.                             *)
Unknown(c) == carried[c] > reported[c] + skipped[c] \/ c \in hidden

(* A connection is evicted only when its peer has been silent for the      *)
(* maximum idle age or what was heard of it last is not known: offloaded   *)
(* bytes that no poll has observed, or that the first poll after a         *)
(* rotation took as its baseline.  Hearing the peer once more, or one poll *)
(* that reports, ends the exception.                                       *)
EvictedSilent ==
  [][\A c \in online \ online' : heard_age[c] > MaxIdleAge \/ Unknown(c)]_statVars

(* The session statistics of an interval leave no client out that was      *)
(* heard in it, under the same exception.                                  *)
HeardCounted ==
  \A k \in Intervals, c \in online :
    heard_age[c] <= k => c \in Active(k) \cup Standby(k) \/ Unknown(c)

(* Offloaded bytes are reported at most once, and only the baseline after  *)
(* a rotation (or of a new session) hides any; a client heard in an        *)
(* interval is counted in it unless its last traffic is still unpolled or  *)
(* was hidden by such a baseline (offload_stats.rs, statistics.rs).        *)
StatsSafe ==
  /\ StatTypeOK
  /\ BytesOnce
  /\ HeardCounted
=============================================================================
