------------------------------ MODULE Dplpmtud ------------------------------
(***************************************************************************)
(* Path MTU discovery (lightway-core connection/dplpmtud.rs, RFC 8899),    *)
(* with the Tokio timer that drives it (lightway-app-utils                 *)
(* dplpmtud_timer.rs) and a path that drops probes too large for it.       *)
(*                                                                         *)
(* The manager is a record; each of its methods maps a manager to the      *)
(* manager it leaves behind, whose field "out" is the Action it returns.   *)
(***************************************************************************)
EXTENDS Naturals, FiniteSets

CONSTANTS
  MAX_PROBES,       \* probes of one size before it is given up
  PROBE_BIG_STEP,
  PROBE_SMALL_STEP,
  BasePlpmtu,       \* base_plpmtu
  MaxPlpmtu,        \* max_plpmtu
  IdSpace,          \* number of values of a probe id (2^16 in the code)
  PathSizes,        \* the sizes the path may carry
  MaxPathChanges,   \* bound: how often the path changes
  MaxTicks,         \* bound: expired timers waiting in the timer's channel
  Timelies          \* timely paths answer within the probe timeout, lose nothing

ASSUME PmtudAssumption ==
  /\ MAX_PROBES \in Nat \ {0} /\ IdSpace \in Nat /\ IdSpace > 2
  /\ PROBE_SMALL_STEP \in Nat \ {0} /\ PROBE_BIG_STEP \in Nat
  /\ PROBE_SMALL_STEP < PROBE_BIG_STEP
  /\ BasePlpmtu \in Nat /\ MaxPlpmtu \in Nat /\ BasePlpmtu <= MaxPlpmtu
  /\ PathSizes \subseteq Nat /\ MaxPathChanges \in Nat /\ MaxTicks \in Nat
  /\ Timelies \subseteq BOOLEAN

VARIABLES
  pmtud,      \* the manager, a record
  expired,    \* expired timers whose tick has not been handled yet
  online,     \* the connection is Online
  probes,     \* probes on their way to the peer
  pongs,      \* answers on their way back
  pathSize,   \* the largest probe the path carries now
  changes,    \* how often it changed
  carried,    \* history: sizes the path carried since the last base probe
  timely      \* this behaviour's path, fixed at the start

pmtudVars == <<pmtud, expired, online, probes, pongs, pathSize, changes, carried, timely>>

NoProbe == [id |-> 0, size |-> 0]
Sizes   == {0} \cup (BasePlpmtu..MaxPlpmtu)
Probes  == [id : 0..(IdSpace - 1), size : Sizes]
PmtudStates == {"Disabled", "Base", "Error", "Searching", "SearchComplete"}
Managers == [state : PmtudStates, plpmtu : BasePlpmtu..MaxPlpmtu,
             probe_count : 0..(MAX_PROBES + 1), next_probe_id : 0..(IdSpace - 1),
             step_size : {"Small", "Big"}, pending_probe : Probes,
             timer : {"off", "probe", "raise"}, out : Probes]
-----------------------------------------------------------------------------
(* The methods of the manager.                                             *)

NewManager ==
  [state |-> "Disabled", plpmtu |-> BasePlpmtu, probe_count |-> 0,
   next_probe_id |-> 1, step_size |-> "Big", pending_probe |-> NoProbe,
   timer |-> "off", out |-> NoProbe]

\* Id 0 belongs to keepalives and is skipped when the counter wraps.
next_probe_id(m) == IF m.next_probe_id = 0 THEN 1 ELSE m.next_probe_id

end_probe(m) == [m EXCEPT !.pending_probe = NoProbe, !.probe_count = 0, !.timer = "off"]

\* The code's counter has no bound in state Error, where it is never read.
Saturated(n) == IF n > MAX_PROBES THEN MAX_PROBES + 1 ELSE n

send_probe(m, size) ==
  LET id == next_probe_id(m)
      p  == [id |-> id, size |-> size]
  IN [m EXCEPT !.next_probe_id = (id + 1) % IdSpace,
               !.probe_count = Saturated(@ + 1), !.pending_probe = p,
               !.timer = "probe", !.out = p]

base_probe_start(m) ==
  send_probe([m EXCEPT !.state = "Base", !.probe_count = 0], BasePlpmtu)

error(m) == send_probe([end_probe(m) EXCEPT !.state = "Error"], BasePlpmtu)

SearchStep(step) == IF step = "Big" THEN PROBE_BIG_STEP ELSE PROBE_SMALL_STEP

AtMost(a, b) == IF a < b THEN a ELSE b

search_probe_start(m, step) ==
  send_probe([m EXCEPT !.probe_count = 0, !.step_size = step],
             AtMost(m.plpmtu + SearchStep(step), MaxPlpmtu))

search_start(m) == search_probe_start([m EXCEPT !.state = "Searching"], "Big")

search_complete(m) ==
  [end_probe(m) EXCEPT !.state = "SearchComplete", !.timer = "raise"]

base_probe_confirmed(m, size) == search_start([end_probe(m) EXCEPT !.plpmtu = size])

base_probe_timeout(m) ==
  IF m.probe_count < MAX_PROBES THEN send_probe(m, BasePlpmtu) ELSE error(m)

search_probe_confirmed(m, size) ==
  LET found == [m EXCEPT !.plpmtu = size]
  IN IF size < MaxPlpmtu THEN search_probe_start(found, m.step_size)
                         ELSE search_complete(found)

GivesUpBigOnly(m) ==
  CASE m.probe_count < MAX_PROBES -> send_probe(m, m.pending_probe.size)
    [] OTHER -> search_complete(m)

search_probe_timeout(m) ==
  IF m.pending_probe = NoProbe THEN error(m)
  ELSE CASE m.probe_count < MAX_PROBES -> send_probe(m, m.pending_probe.size)
         [] m.probe_count = MAX_PROBES /\ m.step_size = "Big" -> search_probe_start(m, "Small")
         [] OTHER -> search_complete(m)

search_complete_probe_timeout(m) ==
  IF m.pending_probe = NoProbe THEN send_probe(m, m.plpmtu)
  ELSE IF m.probe_count < MAX_PROBES THEN send_probe(m, m.pending_probe.size)
                                     ELSE base_probe_start(m)

tick(m) ==
  CASE m.state = "Base" -> base_probe_timeout(m)
    [] m.state = "Error" -> send_probe(m, BasePlpmtu)
    [] m.state = "Searching" -> search_probe_timeout(m)
    [] m.state = "SearchComplete" -> search_complete_probe_timeout(m)
    [] OTHER -> m

Confirmed(m) ==
  CASE m.state \in {"Base", "Error"} -> base_probe_confirmed(m, m.pending_probe.size)
    [] m.state = "Searching" -> search_probe_confirmed(m, m.pending_probe.size)
    [] m.state = "SearchComplete" -> search_start(m)
    [] OTHER -> m

AnyPongConfirms(m, id) == IF m.pending_probe = NoProbe THEN m ELSE Confirmed(m)

pong_received(m, id) ==
  IF id # 0 /\ m.pending_probe # NoProbe /\ m.pending_probe.id = id
  THEN Confirmed(m) ELSE m

\* current_plpmtu: the estimate the data path fragments by, 0 when there is none.
current_plpmtu(m) == IF m.state \in {"Searching", "SearchComplete"} THEN m.plpmtu ELSE 0
-----------------------------------------------------------------------------
(* The connection: handle_pmtud_action puts a returned probe on the path.  *)
(* An id is not issued again while an answer to its last use is under way. *)

Perform(m, answers) ==
  /\ pmtud' = [m EXCEPT !.out = NoProbe]
  /\ probes' = {p \in probes : p.id # m.out.id}
               \cup (IF m.out = NoProbe THEN {} ELSE {m.out})
  /\ pongs' = {p \in answers : p.id # m.out.id}
  /\ carried' = IF m.state = "Base" /\ pmtud.state # "Base" THEN {} ELSE carried
  /\ UNCHANGED <<online, pathSize, changes, timely>>

PmtudInit ==
  /\ pmtud = NewManager /\ expired = 0 /\ online = FALSE
  /\ probes = {} /\ pongs = {} /\ carried = {} /\ changes = 0
  /\ pathSize \in PathSizes /\ timely \in Timelies

\* set_state(Online) starts the discovery.
GoOnline ==
  /\ pmtud.state = "Disabled" /\ ~online
  /\ online' = TRUE
  /\ LET m == base_probe_start(pmtud)
     IN pmtud' = [m EXCEPT !.out = NoProbe] /\ probes' = {m.out}
  /\ UNCHANGED <<expired, pongs, pathSize, changes, carried, timely>>

\* The connection ends: ticks and pongs are ignored from now on.
GoOffline ==
  /\ online /\ ~timely
  /\ online' = FALSE
  /\ UNCHANGED <<pmtud, expired, probes, pongs, pathSize, changes, carried, timely>>

AnswerComing ==
  \/ \E p \in pongs : p.id = pmtud.pending_probe.id
  \/ \E p \in probes : p.id = pmtud.pending_probe.id /\ p.size <= pathSize

\* The sleep of the timer ends: its tick is queued, whatever happens next.
TimerElapses ==
  /\ pmtud.timer # "off" /\ expired < MaxTicks
  /\ timely => (~AnswerComing /\ expired = 0)
  /\ pmtud' = [pmtud EXCEPT !.timer = "off"]
  /\ expired' = expired + 1
  /\ UNCHANGED <<online, probes, pongs, pathSize, changes, carried, timely>>

\* pmtud_tick, called by DplpmtudTimerTask for each queued tick.
PmtudTick ==
  /\ expired > 0
  /\ expired' = expired - 1
  /\ IF online THEN Perform(tick(pmtud), pongs)
     ELSE UNCHANGED <<pmtud, probes, pongs, carried, online, pathSize, changes, timely>>

\* handle_pong; a pong is refused unless the connection is Online.
PongReceived(p) ==
  /\ p \in pongs /\ online
  /\ Perform(pong_received(pmtud, p.id), pongs \ {p})
  /\ UNCHANGED expired

\* External: the path delivers a probe that fits and the peer answers it.
Cross(p) ==
  /\ p \in probes
  /\ probes' = probes \ {p}
  /\ IF p.size <= pathSize
     THEN pongs' = pongs \cup {p} /\ carried' = carried \cup {p.size}
     ELSE UNCHANGED <<pongs, carried>>
  /\ UNCHANGED <<pmtud, expired, online, pathSize, changes, timely>>

PmtudLose(p) ==
  /\ ~timely
  /\ p \in probes \cup pongs
  /\ probes' = probes \ {p} /\ pongs' = pongs \ {p}
  /\ UNCHANGED <<pmtud, expired, online, pathSize, changes, carried, timely>>

PathChanges(s) ==
  /\ changes < MaxPathChanges /\ s # pathSize
  /\ pathSize' = s /\ changes' = changes + 1
  /\ UNCHANGED <<pmtud, expired, online, probes, pongs, carried, timely>>

PmtudNext ==
  \/ GoOnline \/ GoOffline \/ TimerElapses \/ PmtudTick
  \/ \E p \in pongs : PongReceived(p)
  \/ \E p \in probes : Cross(p)
  \/ \E p \in probes \cup pongs : PmtudLose(p)
  \/ \E s \in PathSizes : PathChanges(s)

\* Timers elapse, queued ticks are handled, and a path carries what it holds.
PmtudFairness ==
  /\ WF_pmtudVars(GoOnline) /\ WF_pmtudVars(TimerElapses) /\ WF_pmtudVars(PmtudTick)
  /\ WF_pmtudVars(\E p \in pongs : PongReceived(p))
  /\ WF_pmtudVars(\E p \in probes : Cross(p))

PmtudSpec == PmtudInit /\ [][PmtudNext]_pmtudVars /\ PmtudFairness
-----------------------------------------------------------------------------
(* The manager's fields have their types; a size is probed MAX_PROBES      *)
(* times at most, and outside state Error the count says so.               *)
PmtudTypeOK ==
  /\ pmtud \in Managers /\ pmtud.out = NoProbe
  /\ (pmtud.state # "Error" => pmtud.probe_count <= MAX_PROBES)
  /\ expired \in 0..MaxTicks /\ online \in BOOLEAN /\ timely \in BOOLEAN
  /\ probes \subseteq Probes /\ pongs \subseteq Probes
  /\ carried \subseteq Sizes /\ pathSize \in PathSizes /\ changes \in 0..MaxPathChanges

(* The estimate by which data is fragmented is a size the path carried     *)
(* since discovery last fell back to the base probe: late pongs of earlier *)
(* probes and stale ticks never raise it (pong_received).                  *)
EstimateCarried ==
  current_plpmtu(pmtud) # 0 => current_plpmtu(pmtud) \in carried

(* Discovery never stalls: while the connection is Online a timer runs or  *)
(* its tick is queued (every path of tick and pong_received re-arms it).   *)
DiscoveryArmed == online => (pmtud.timer # "off" \/ expired > 0)

Accurate ==
  /\ pmtud.state = "SearchComplete" /\ pmtud.plpmtu <= pathSize
  /\ (pmtud.plpmtu = MaxPlpmtu \/ pathSize < pmtud.plpmtu + PROBE_SMALL_STEP)

(* On a path that answers in time the search ends, again and again, within *)
(* one small step below what the path carries, also after the path shrank  *)
(* under the estimate (black hole) or grew; and while the path carries     *)
(* less than the base size there is, again and again, no estimate.         *)
Converges ==
  /\ (timely /\ [](pathSize >= BasePlpmtu)) => []<>Accurate
  /\ timely => []<>(current_plpmtu(pmtud) <= pathSize)

(* Late ticks, late pongs and a path that shrinks neither raise the        *)
(* estimate above what was carried nor stop discovery (Dplpmtud::tick,     *)
(* pong_received).                                                         *)
DiscoverySafe ==
  /\ PmtudTypeOK
  /\ EstimateCarried
  /\ DiscoveryArmed
=============================================================================
