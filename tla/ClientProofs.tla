----------------------------- MODULE ClientProofs -----------------------------
(***************************************************************************)
(* Proofs about the client: the end of a connection is complete whichever  *)
(* of its tasks ends first, the outside socket is used in the mode it is   *)
(* in, and the choice among any number of servers respects preference.     *)
(***************************************************************************)
EXTENDS MCClient, WellFoundedInduction, FiniteSetTheorems, SequenceTheorems, TLAPS

(* The task of a connection.  Events are emitted in the order of the       *)
(* states: few are under way, and none tells of an end that has not come.  *)
Events == {"LinkUp", "Online", "Disconnecting", "Disconnected"}
Ends == {"open", "sent", "closed"}

TaskTyped ==
  /\ worker \in [Workers -> {"running", "ended", "aborted"}]
  /\ oneshot \in [connected : Ends, disconnected : Ends, stop : Ends]
  /\ task \in {"select", "await", "ended"} /\ result \in {"none", "ok", "err"} /\ caller \in Callers

CoreTyped == lw \in {"Connecting", "LinkUp", "Online", "Disconnected"} /\ emitted \in Seq(Events)
FewUnderWay ==
  /\ lw = "Connecting" => Len(emitted) = 0
  /\ lw = "LinkUp" => Len(emitted) <= 1
  /\ lw = "Online" => Len(emitted) <= 2
  /\ Len(emitted) <= 4
EndIsTrue ==
  "Disconnected" \in told \/ (\E i \in 1..Len(emitted) : emitted[i] = "Disconnected") => lw = "Disconnected"
Core == CoreTyped /\ FewUnderWay /\ EndIsTrue

SignalIsTrue ==
  /\ oneshot.disconnected = "closed" => task = "ended"
  /\ oneshot.disconnected = "sent" => "Disconnected" \in told

TaskInv == TaskTyped /\ Core /\ SignalIsTrue /\ OkTold /\ TornDown

LEMMA EventsFollow ==
  ASSUME CoreTyped, NEW s \in Seq(Events), emitted' = emitted \o s
  PROVE  /\ emitted' \in Seq(Events) /\ Len(emitted') = Len(emitted) + Len(s) /\ Len(emitted) \in Nat
         /\ \A i \in 1..Len(emitted') : \/ i \in 1..Len(emitted) /\ emitted'[i] = emitted[i]
                                        \/ \E j \in 1..Len(s) : emitted'[i] = s[j]
<1>1. emitted \in Seq(Events) /\ Len(emitted) \in Nat /\ Len(s) \in Nat
  BY DEF CoreTyped
<1>2. emitted' \in Seq(Events) /\ Len(emitted') = Len(emitted) + Len(s)
  BY <1>1, ConcatProperties
<1>3. ASSUME NEW i \in 1..(Len(emitted) + Len(s))
      PROVE  \/ i \in 1..Len(emitted) /\ emitted'[i] = emitted[i]
             \/ \E j \in 1..Len(s) : emitted'[i] = s[j]
  <2>1. emitted'[i] = IF i <= Len(emitted) THEN emitted[i] ELSE s[i - Len(emitted)]
    BY <1>1, ConcatProperties
  <2>2. CASE i <= Len(emitted)
    BY <1>1, <2>1, <2>2
  <2>3. CASE ~(i <= Len(emitted))
    <3>1. i - Len(emitted) \in 1..Len(s)
      BY <1>1, <2>3
    <3> QED
      BY <2>1, <2>3, <3>1
  <2> QED
    BY <2>2, <2>3
<1> QED
  BY <1>1, <1>2, <1>3

LEMMA DisconnectCore ==
  ASSUME Core, disconnect, told' = told
  PROVE  Core' /\ ~Disconnectable'
<1>1. CASE ~Disconnectable
  <2>1. lw' = lw /\ emitted' = emitted
    BY <1>1 DEF disconnect
  <2> QED
    BY <1>1, <2>1 DEF Core, CoreTyped, FewUnderWay, EndIsTrue, Disconnectable
<1>2. CASE Disconnectable
  <2> DEFINE s == <<"Disconnecting", "Disconnected">>
  <2>1. s \in Seq(Events) /\ Len(s) = 2 /\ s[2] = "Disconnected"
    BY DEF Events
  <2>2. lw' = "Disconnected" /\ emitted' = emitted \o s
    BY <1>2 DEF disconnect, SetState
  <2> HIDE DEF s
  <2>3. emitted' \in Seq(Events) /\ Len(emitted') = Len(emitted) + Len(s) /\ Len(emitted) \in Nat
    BY <2>1, <2>2, EventsFollow DEF Core
  <2>4. Len(emitted) <= 2
    BY <1>2, <2>3 DEF Disconnectable, Core, FewUnderWay
  <2>5. Len(emitted') <= 4
    BY <2>1, <2>3, <2>4
  <2> QED
    BY <2>2, <2>3, <2>5 DEF Core, CoreTyped, FewUnderWay, EndIsTrue, Disconnectable
<1> QED
  BY <1>1, <1>2

LEMMA UpCore ==
  ASSUME Core, OutsideIo
  PROVE  Core'
<1>1. PICK e \in {"LinkUp", "Online"} :
        /\ lw' = e /\ emitted' = emitted \o <<e>> /\ told' = told
        /\ (e = "LinkUp" => lw = "Connecting") /\ (e = "Online" => lw = "LinkUp")
  BY DEF OutsideIo, SetState
<1> DEFINE s == <<e>>
<1>2. s \in Seq(Events) /\ Len(s) = 1 /\ s[1] = e /\ e # "Disconnected"
  BY <1>1 DEF Events
<1>3. emitted' = emitted \o s
  BY <1>1
<1> HIDE DEF s
<1>4. /\ emitted' \in Seq(Events) /\ Len(emitted') = Len(emitted) + 1 /\ Len(emitted) \in Nat
      /\ \A i \in 1..Len(emitted') : (i \in 1..Len(emitted) /\ emitted'[i] = emitted[i]) \/ emitted'[i] = e
  <2>1. \A j \in 1..Len(s) : s[j] = e
    BY <1>2
  <2> QED
    BY <1>2, <1>3, <2>1, EventsFollow, ZenonT(40) DEF Core
<1>5. FewUnderWay'
  BY <1>1, <1>4 DEF Core, FewUnderWay
<1>6. ~("Disconnected" \in told') /\ \A i \in 1..Len(emitted') : emitted'[i] # "Disconnected"
  BY <1>1, <1>2, <1>4 DEF Core, EndIsTrue
<1>7. lw' \in {"Connecting", "LinkUp", "Online", "Disconnected"}
  BY <1>1
<1>8. EndIsTrue'
  BY <1>6 DEF EndIsTrue
<1> QED
  BY <1>4, <1>5, <1>7, <1>8 DEF Core, CoreTyped

LEMMA EndTearsDown ==
  ASSUME TaskInv, End, result' \in {"none", "ok", "err"}, caller' = caller
  PROVE  /\ TaskTyped' /\ task' = "ended" /\ \A w \in Workers \ {"keepalive"} : ~Runs(w)'
         /\ oneshot'.disconnected = "sent" <=> oneshot.disconnected = "sent"
<1>1. /\ task' = "ended" /\ worker' = [w \in Workers |-> IF Runs(w) /\ w # "keepalive" THEN "aborted" ELSE worker[w]]
      /\ oneshot' = Closed(oneshot)
  BY DEF End, Aborted
<1>2. worker \in [Workers -> {"running", "ended", "aborted"}] /\ oneshot \in [connected : Ends, disconnected : Ends, stop : Ends]
  BY DEF TaskInv, TaskTyped
<1>3. worker' \in [Workers -> {"running", "ended", "aborted"}]
  BY <1>1, <1>2
<1>4. \A w \in Workers \ {"keepalive"} : worker'[w] # "running"
  BY <1>1, <1>2 DEF Runs
<1>5. PICK c \in Ends, d \in Ends, e \in Ends : oneshot = [connected |-> c, disconnected |-> d, stop |-> e]
  BY <1>2
<1>6. oneshot' = [connected |-> IF c = "open" THEN "closed" ELSE c,
                  disconnected |-> IF d = "open" THEN "closed" ELSE d, stop |-> e]
  BY <1>1, <1>5 DEF Closed
<1>7. oneshot' \in [connected : Ends, disconnected : Ends, stop : Ends]
  BY <1>6 DEF Ends
<1>8. oneshot'.disconnected = "sent" <=> oneshot.disconnected = "sent"
  BY <1>5, <1>6
<1> QED
  BY <1>1, <1>3, <1>4, <1>7, <1>8 DEF TaskInv, TaskTyped, Runs

LEMMA FailKeeps ==
  ASSUME TaskInv, Fail, told' = told, caller' = caller
  PROVE  TaskInv'
<1>1. result' = "err" /\ disconnect /\ End
  BY DEF Fail
<1>2. Core' /\ ~Disconnectable'
  BY <1>1, DisconnectCore DEF TaskInv
<1>3. /\ TaskTyped' /\ task' = "ended" /\ \A w \in Workers \ {"keepalive"} : ~Runs(w)'
      /\ oneshot'.disconnected = "sent" <=> oneshot.disconnected = "sent"
  BY <1>1, EndTearsDown
<1>4. SignalIsTrue'
  BY <1>3 DEF TaskInv, SignalIsTrue
<1> QED
  BY <1>1, <1>2, <1>3, <1>4 DEF TaskInv, OkTold, TornDown

(* While the task of connect() is not over, only what the core and the     *)
(* workers do matters.                                                     *)
LEMMA StepBefore ==
  ASSUME TaskInv, Core', TaskTyped', task' # "ended", told' = told,
         oneshot'.disconnected = oneshot.disconnected, task # "ended"
  PROVE  TaskInv'
<1>1. SignalIsTrue'
  BY DEF TaskInv, SignalIsTrue
<1> QED
  BY <1>1 DEF TaskInv, OkTold, TornDown

(* A step that leaves the core alone, starts no worker and ends no task.   *)
LEMMA StepAside ==
  ASSUME TaskInv, TaskTyped', lw' = lw, emitted' = emitted, told' = told, task' = task, result' = result,
         oneshot'.disconnected = oneshot.disconnected, \A w \in Workers : Runs(w)' => Runs(w)
  PROVE  TaskInv'
<1>1. Core'
  BY DEF TaskInv, Core, CoreTyped, FewUnderWay, EndIsTrue
<1>2. SignalIsTrue' /\ OkTold'
  BY DEF TaskInv, SignalIsTrue, OkTold
<1>3. TornDown'
  BY DEF TaskInv, TornDown, Disconnectable
<1> QED
  BY <1>1, <1>2, <1>3 DEF TaskInv

LEMMA EventKeeps ==
  ASSUME TaskInv, handle_events
  PROVE  TaskInv'
<1>1. /\ Runs("events") /\ emitted # <<>> /\ emitted' = Tail(emitted) /\ told' = told \cup {Head(emitted)}
      /\ lw' = lw /\ worker' = worker /\ task' = task /\ result' = result /\ caller' = caller
  BY DEF handle_events
<1>2. emitted \in Seq(Events)
  BY DEF TaskInv, Core, CoreTyped
<1>3. /\ emitted' \in Seq(Events) /\ Len(emitted') = Len(emitted) - 1 /\ Len(emitted) \in Nat \ {0}
      /\ \A i \in 1..Len(emitted') : emitted'[i] = emitted[i + 1] /\ i + 1 \in 1..Len(emitted)
      /\ Head(emitted) = emitted[1] /\ 1 \in 1..Len(emitted)
  BY <1>1, <1>2
<1>4. Core'
  <2>1. CoreTyped' /\ FewUnderWay'
    BY <1>1, <1>3 DEF TaskInv, Core, CoreTyped, FewUnderWay
  <2>2. EndIsTrue'
    BY <1>1, <1>3 DEF TaskInv, Core, EndIsTrue
  <2> QED
    BY <2>1, <2>2 DEF Core
<1>5. PICK c \in Ends, d \in Ends, e \in Ends : oneshot = [connected |-> c, disconnected |-> d, stop |-> e]
  BY DEF TaskInv, TaskTyped
<1>6. \/ oneshot' = [connected |-> "sent", disconnected |-> d, stop |-> e]
      \/ Head(emitted) = "Disconnected" /\ oneshot' = [connected |-> c, disconnected |-> "sent", stop |-> e]
      \/ oneshot' = oneshot
  <2>1. CASE Head(emitted) = "Online"
    BY <1>5, <2>1 DEF handle_events
  <2>2. CASE Head(emitted) = "Disconnected"
    BY <1>5, <2>2 DEF handle_events
  <2>3. CASE Head(emitted) \notin {"Online", "Disconnected"}
    BY <2>3 DEF handle_events
  <2> QED
    BY <2>1, <2>2, <2>3
<1>7. oneshot' \in [connected : Ends, disconnected : Ends, stop : Ends]
  BY <1>5, <1>6 DEF Ends
<1>8. oneshot'.disconnected = oneshot.disconnected \/ (oneshot'.disconnected = "sent" /\ Head(emitted) = "Disconnected")
  BY <1>5, <1>6
<1>9. TaskTyped' /\ SignalIsTrue'
  BY <1>1, <1>7, <1>8 DEF TaskInv, TaskTyped, SignalIsTrue
<1>10. OkTold' /\ TornDown'
  BY <1>1 DEF TaskInv, OkTold, TornDown, Runs, Disconnectable
<1> QED
  BY <1>4, <1>9, <1>10 DEF TaskInv

LEMMA NetworkChangeKeeps ==
  ASSUME TaskInv, handle_network_change
  PROVE  TaskInv'
<1>1. /\ Runs("network") /\ told' = told /\ oneshot' = oneshot /\ task' = task /\ result' = result /\ caller' = caller
      /\ worker' = worker \/ worker' = [worker EXCEPT !["network"] = "ended"]
      /\ (lw' = lw /\ emitted' = emitted) \/ disconnect
  BY DEF handle_network_change
<1>2. worker \in [Workers -> {"running", "ended", "aborted"}] /\ "network" \in Workers \ {"keepalive"}
  BY DEF TaskInv, TaskTyped, Workers
<1>3. worker' \in [Workers -> {"running", "ended", "aborted"}] /\ \A w \in Workers : worker'[w] = "running" => worker[w] = "running"
  BY <1>1, <1>2
<1>4. TaskTyped'
  BY <1>1, <1>3 DEF TaskInv, TaskTyped
<1>5. task # "ended"
  BY <1>1, <1>2 DEF TaskInv, TornDown
<1>6. CASE lw' = lw /\ emitted' = emitted
  BY <1>1, <1>3, <1>4, <1>6, StepAside DEF Runs
<1>7. CASE disconnect
  <2>1. Core'
    BY <1>1, <1>7, DisconnectCore DEF TaskInv
  <2> QED
    BY <1>1, <1>4, <1>5, <2>1, StepBefore
<1> QED
  BY <1>1, <1>6, <1>7

LEMMA TaskStepKeeps ==
  ASSUME TaskInv, NEW w \in Workers,
         StopSignal \/ WorkerExit(w) \/ NetworkExit \/ DisconnectedSignal
  PROVE  TaskInv'
<1>1. told' = told /\ caller' = caller
  BY DEF StopSignal, WorkerExit, NetworkExit, DisconnectedSignal
<1>2. CASE Fail
  BY <1>1, <1>2, FailKeeps
<1>3. ASSUME task = "select", AwaitEnd, (lw' = lw /\ emitted' = emitted) \/ disconnect PROVE TaskInv'
  <2>1. result' = "ok" /\ task' = "await" /\ worker' = worker /\ oneshot' = oneshot
    BY <1>3 DEF AwaitEnd
  <2>2. TaskTyped'
    BY <1>1, <2>1 DEF TaskInv, TaskTyped
  <2>3. Core'
    <3>1. CASE disconnect
      BY <1>1, <3>1, DisconnectCore DEF TaskInv
    <3>2. CASE lw' = lw /\ emitted' = emitted
      BY <1>1, <3>2 DEF TaskInv, Core, CoreTyped, FewUnderWay, EndIsTrue
    <3> QED
      BY <1>3, <3>1, <3>2
  <2> QED
    BY <1>1, <1>3, <2>1, <2>2, <2>3, StepBefore
<1>4. CASE StopSignal \/ WorkerExit(w) \/ NetworkExit
  <2>1. Fail \/ (task = "select" /\ AwaitEnd /\ ((lw' = lw /\ emitted' = emitted) \/ disconnect))
    BY <1>4 DEF StopSignal, WorkerExit, NetworkExit
  <2> QED
    BY <1>2, <1>3, <2>1
<1>5. CASE DisconnectedSignal
  <2>1. task = "await" /\ oneshot.disconnected # "open" /\ End /\ lw' = lw /\ emitted' = emitted /\ result' = result
    BY <1>5 DEF DisconnectedSignal
  <2>2. oneshot.disconnected \in Ends /\ result \in {"none", "ok", "err"}
    BY DEF TaskInv, TaskTyped
  <2>3. "Disconnected" \in told /\ lw = "Disconnected"
    BY <2>1, <2>2 DEF TaskInv, SignalIsTrue, Core, EndIsTrue, Ends
  <2>4. /\ TaskTyped' /\ task' = "ended" /\ \A v \in Workers \ {"keepalive"} : ~Runs(v)'
    BY <1>1, <2>1, <2>2, EndTearsDown
  <2>5. Core'
    BY <1>1, <2>1 DEF TaskInv, Core, CoreTyped, FewUnderWay, EndIsTrue
  <2>6. SignalIsTrue' /\ OkTold' /\ TornDown'
    BY <1>1, <2>1, <2>3, <2>4 DEF SignalIsTrue, OkTold, TornDown, Disconnectable
  <2> QED
    BY <2>4, <2>5, <2>6 DEF TaskInv
<1> QED
  BY <1>4, <1>5

LEMMA CallerKeeps ==
  ASSUME TaskInv, NEW how \in {"lost", "stopped"}, NEW ok \in BOOLEAN,
         \/ Chosen \/ UserStop \/ TaskReturns \/ NotChosen(how)
         \/ SetUp("chosen", "routed", ok) \/ SetUp("routed", "running", ok)
  PROVE  TaskInv'
<1>1. lw' = lw /\ emitted' = emitted /\ told' = told /\ task' = task /\ result' = result /\ worker' = worker
  BY DEF Chosen, UserStop, TaskReturns, NotChosen, SetUp
<1>2. caller' \in Callers
  BY DEF Chosen, UserStop, TaskReturns, NotChosen, SetUp, TaskInv, TaskTyped, Callers
<1>3. PICK c \in Ends, d \in Ends, e \in Ends : oneshot = [connected |-> c, disconnected |-> d, stop |-> e]
  BY DEF TaskInv, TaskTyped
<1>4. \/ oneshot' = oneshot
      \/ oneshot' = [connected |-> c, disconnected |-> d, stop |-> "sent"]
      \/ oneshot' = [connected |-> c, disconnected |-> d, stop |-> IF e = "open" THEN "closed" ELSE e]
  BY <1>3 DEF Chosen, UserStop, TaskReturns, NotChosen, SetUp, Dropped
<1>5. oneshot' \in [connected : Ends, disconnected : Ends, stop : Ends] /\ oneshot'.disconnected = oneshot.disconnected
  BY <1>3, <1>4 DEF Ends
<1>6. TaskTyped'
  BY <1>1, <1>2, <1>5 DEF TaskInv, TaskTyped
<1> QED
  BY <1>1, <1>5, <1>6, StepAside DEF Runs

LEMMA TaskInvNext == TaskInv /\ [TaskNext]_taskVars => TaskInv'
<1> SUFFICES ASSUME TaskInv, [TaskNext]_taskVars PROVE TaskInv'
  OBVIOUS
<1>1. CASE OutsideIo
  <2>1. Core'
    BY <1>1, UpCore DEF TaskInv
  <2>2. /\ Runs("outside") /\ worker' = worker /\ told' = told /\ oneshot' = oneshot
        /\ task' = task /\ result' = result /\ caller' = caller
    BY <1>1 DEF OutsideIo
  <2>3. task # "ended"
    BY <2>2 DEF TaskInv, TornDown, Workers
  <2>4. TaskTyped'
    BY <2>2 DEF TaskInv, TaskTyped
  <2> QED
    BY <2>1, <2>2, <2>3, <2>4, StepBefore
<1>2. CASE handle_events
  BY <1>2, EventKeeps
<1>3. CASE network_event_coordinator \/ UNCHANGED taskVars
  <2>1. /\ lw' = lw /\ emitted' = emitted /\ told' = told /\ task' = task /\ result' = result
        /\ worker' = worker /\ oneshot' = oneshot /\ caller' = caller
    BY <1>3 DEF network_event_coordinator, taskVars
  <2>2. TaskTyped'
    BY <2>1 DEF TaskInv, TaskTyped
  <2> QED
    BY <2>1, <2>2, StepAside DEF Runs
<1>4. CASE handle_network_change
  BY <1>4, NetworkChangeKeeps
<1>5. ASSUME NEW w \in Workers, WorkerEnds(w) \/ (KeepaliveCancelled /\ w = "keepalive") PROVE TaskInv'
  <2>1. /\ lw' = lw /\ emitted' = emitted /\ told' = told /\ task' = task /\ result' = result
        /\ worker' = [worker EXCEPT ![w] = "ended"] /\ oneshot' = oneshot /\ caller' = caller
    BY <1>5 DEF WorkerEnds, KeepaliveCancelled
  <2>2. worker' \in [Workers -> {"running", "ended", "aborted"}] /\ \A v \in Workers : worker'[v] = "running" => worker[v] = "running"
    BY <2>1 DEF TaskInv, TaskTyped
  <2>3. TaskTyped'
    BY <2>1, <2>2 DEF TaskInv, TaskTyped
  <2> QED
    BY <2>1, <2>2, <2>3, StepAside DEF Runs
<1>6. "keepalive" \in Workers
  BY DEF Workers
<1>7. ASSUME NEW w \in Workers, StopSignal \/ WorkerExit(w) \/ NetworkExit \/ DisconnectedSignal PROVE TaskInv'
  BY <1>7, TaskStepKeeps
<1>8. ASSUME NEW how \in {"lost", "stopped"}, NEW ok \in BOOLEAN,
             \/ Chosen \/ UserStop \/ TaskReturns \/ NotChosen(how)
             \/ SetUp("chosen", "routed", ok) \/ SetUp("routed", "running", ok)
      PROVE  TaskInv'
  BY <1>8, CallerKeeps
<1> QED
  BY <1>1, <1>2, <1>3, <1>4, <1>5, <1>6, <1>7, <1>8 DEF TaskNext

(* Whichever task of a connection ends first, its end is complete: nothing *)
(* of it runs on or stays up, and an end in order has been told to the     *)
(* application (the select! of connect()).                                 *)
THEOREM TaskEndsClean == TaskSpec => []TaskSafe
<1>1. TaskInit => TaskInv
  <2> SUFFICES ASSUME TaskInit PROVE TaskInv
    OBVIOUS
  <2>1. TaskTyped
    BY DEF TaskInit, TaskTyped, Ends, Callers
  <2>2. Core
    BY DEF TaskInit, Core, CoreTyped, FewUnderWay, EndIsTrue
  <2> QED
    BY <2>1, <2>2 DEF TaskInit, TaskInv, SignalIsTrue, OkTold, TornDown
<1>2. TaskInv /\ [TaskNext]_taskVars => TaskInv'
  BY TaskInvNext
<1>3. TaskInv => TaskSafe
  BY DEF TaskInv, TaskTyped, Core, CoreTyped, FewUnderWay, TaskSafe, TaskTypeOK, Ends
<1> QED
  BY <1>1, <1>2, <1>3, PTL DEF TaskSpec

-----------------------------------------------------------------------------
(* The outside socket.  The callback's latch is set exactly when the       *)
(* callback was called.                                                    *)
UdpTyped ==
  /\ network \in 1..(MaxChanges + 1) /\ association \in 0..network /\ swallowed \in 0..MaxSwallowed
  /\ connected \in BOOLEAN /\ undissolved \in BOOLEAN /\ dead \in BOOLEAN
ToldTyped == outcome.told \in {"none", "sent", "blocked", "swallowed", "error"}
Latched == fired = (IF dead THEN 1 ELSE 0) /\ (dead => udp.callback)
Reported == outcome.err = "BrokenPipe" => dead \/ outcome.told = "error"

UdpInv == UdpTyped /\ ToldTyped /\ ModeAgrees /\ Latched /\ Reported

LEMMA DowngradeKeeps ==
  ASSUME UdpTyped, downgrade
  PROVE  connected' = FALSE /\ undissolved' \in BOOLEAN /\ association' \in 0..network /\ ModeAgrees'
<1>1. network \in Nat /\ association \in 0..network
  BY UdpBounds DEF UdpTyped
<1>2. connected' = FALSE
  BY DEF downgrade
<1>3. CASE association' = 0 /\ undissolved' = FALSE
  <2>1. 0 \in 0..network
    BY <1>1
  <2>2. ModeAgrees'
    BY <1>2, <1>3, Zenon DEF ModeAgrees
  <2> QED
    BY <1>2, <1>3, <2>1, <2>2
<1>4. CASE association # 0 /\ undissolved' = TRUE /\ association' = association
  BY <1>1, <1>2, <1>4 DEF ModeAgrees
<1> QED
  BY <1>3, <1>4 DEF downgrade

LEMMA ReconnectKeeps ==
  ASSUME UdpInv, NEW ok \in BOOLEAN, reconnect(ok)
  PROVE  UdpInv'
<1>1. udp' = udp /\ network' = network /\ dead' = dead /\ swallowed' = swallowed /\ outcome' = outcome /\ fired' = fired
  BY DEF reconnect
<1>2. network \in Nat \ {0}
  BY UdpBounds DEF UdpInv, UdpTyped
<1>3. connected' \in BOOLEAN /\ undissolved' \in BOOLEAN /\ association' \in 0..network /\ ModeAgrees'
  <2>1. CASE ~udp.requested
    BY <2>1 DEF reconnect, UdpInv, UdpTyped, ModeAgrees
  <2>2. CASE udp.requested /\ ok
    <3>1. association' = network /\ connected' = TRUE /\ undissolved' = FALSE
      BY <2>2 DEF reconnect
    <3>2. network \in 0..network /\ network # 0
      BY <1>2
    <3> QED
      BY <3>1, <3>2 DEF ModeAgrees
  <2>3. CASE udp.requested /\ ~ok
    BY <2>3, DowngradeKeeps DEF reconnect, UdpInv
  <2> QED
    BY <2>1, <2>2, <2>3
<1> QED
  BY <1>1, <1>3 DEF UdpInv, UdpTyped, ToldTyped, Latched, Reported

LEMMA SendKeeps ==
  ASSUME UdpInv, NEW err \in SendErrors, send(err)
  PROVE  UdpInv'
<1>1. udp' = udp /\ network' = network
  BY DEF send
<1>2. PICK t : /\ outcome' = [told |-> t, err |-> err] /\ t \in {"none", "sent", "blocked", "swallowed", "error"}
               /\ (err = "BrokenPipe" /\ ~Swallows(err) => t = "error")
  <2> DEFINE t == CASE err = "Ok" -> "sent" [] err = "WouldBlock" -> "blocked"
                    [] Swallows(err) -> "swallowed" [] OTHER -> "error"
  <2>1. outcome' = [told |-> t, err |-> err]
    BY DEF send
  <2>2. err \in {"Ok", "WouldBlock"} => ~Swallows(err)
    BY DEF Swallows
  <2>3. CASE err = "Ok"
    <3>1. t = "sent"
      BY <2>2, <2>3
    <3> QED
      BY <2>1, <2>3, <3>1
  <2>4. CASE err = "WouldBlock"
    <3>1. t = "blocked"
      BY <2>2, <2>4
    <3> QED
      BY <2>1, <2>4, <3>1
  <2>5. CASE Swallows(err)
    <3>1. t = "swallowed"
      BY <2>2, <2>5
    <3> QED
      BY <2>1, <2>5, <3>1
  <2>6. CASE err \notin {"Ok", "WouldBlock"} /\ ~Swallows(err)
    <3>1. t = "error"
      BY <2>6
    <3> QED
      BY <2>1, <2>6, <3>1
  <2> QED
    BY <2>3, <2>4, <2>5, <2>6
<1>3. outcome'.told = t /\ outcome'.err = err
  BY <1>2
<1>4. connected' \in BOOLEAN /\ undissolved' \in BOOLEAN /\ association' \in 0..network /\ ModeAgrees'
  <2>1. CASE FallsBack(err)
    BY <2>1, DowngradeKeeps DEF send, UdpInv
  <2>2. CASE ~FallsBack(err)
    BY <2>2 DEF send, UdpInv, UdpTyped, ModeAgrees
  <2> QED
    BY <2>1, <2>2
<1>5. swallowed' \in 0..MaxSwallowed
  BY UdpBounds DEF send, UdpInv, UdpTyped
<1>6. dead' \in BOOLEAN /\ Latched' /\ (err = "BrokenPipe" /\ Swallows(err) => dead')
  <2>1. CASE Fires(err)
    <3>1. dead = FALSE /\ dead' = TRUE /\ fired' = fired + 1 /\ udp.callback
      BY <2>1 DEF send, Fires, Swallows, UdpInv, UdpTyped
    <3>2. fired = 0
      BY <3>1 DEF UdpInv, Latched
    <3> QED
      BY <1>1, <3>1, <3>2 DEF Latched
  <2>2. CASE ~Fires(err)
    BY <1>1, <2>2 DEF send, Fires, UdpInv, UdpTyped, Latched
  <2> QED
    BY <2>1, <2>2
<1>7. Reported'
  BY <1>2, <1>3, <1>6 DEF Reported
<1>8. UdpTyped' /\ ToldTyped'
  BY <1>1, <1>2, <1>3, <1>4, <1>5, <1>6 DEF UdpInv, UdpTyped, ToldTyped
<1> QED
  BY <1>4, <1>6, <1>7, <1>8 DEF UdpInv

LEMMA NetworkChangesKeeps ==
  ASSUME UdpInv, NEW notified_ \in BOOLEAN, NEW kills \in BOOLEAN, NetworkChanges(notified_, kills)
  PROVE  UdpInv'
<1>1. network <= MaxChanges /\ network' = network + 1 /\ UNCHANGED <<udp, connected, association, undissolved, dead, swallowed, outcome, fired>>
  BY DEF NetworkChanges
<1>2. network' \in 1..(MaxChanges + 1) /\ association' \in 0..network'
  BY <1>1, UdpBounds DEF UdpInv, UdpTyped
<1> QED
  BY <1>1, <1>2 DEF UdpInv, UdpTyped, ToldTyped, ModeAgrees, Latched, Reported

(* The socket is never used in a mode it is not in, and its death is       *)
(* reported once, through any number of network changes and whatever the   *)
(* kernel answers (send, downgrade, reconnect of io/outside/udp.rs).       *)
THEOREM SocketIsSafe == UdpSpec => []SocketSafe
<1>1. UdpInit => UdpInv
  <2> SUFFICES ASSUME UdpInit PROVE UdpInv
    OBVIOUS
  <2>1. network = 1 /\ association \in {0, 1} /\ connected = (association # 0) /\ undissolved = FALSE
    BY DEF UdpInit
  <2>2. UdpTyped
    <3>1. 1 \in 1..(MaxChanges + 1) /\ {0, 1} \subseteq 0..1 /\ 0 \in 0..MaxSwallowed
      BY UdpBounds
    <3>2. connected \in BOOLEAN
      BY <2>1, Zenon
    <3> QED
      BY <2>1, <3>1, <3>2 DEF UdpInit, UdpTyped
  <2>3. ModeAgrees
    <3>1. CASE association = 0
      BY <2>1, <3>1 DEF ModeAgrees
    <3>2. CASE association # 0
      BY <2>1, <3>2 DEF ModeAgrees
    <3> QED
      BY <3>1, <3>2
  <2> QED
    BY <2>2, <2>3 DEF UdpInit, UdpInv, ToldTyped, Latched, Reported
<1>2. UdpInv /\ [UdpNext]_udpVars => UdpInv'
  <2> SUFFICES ASSUME UdpInv, [UdpNext]_udpVars PROVE UdpInv'
    OBVIOUS
  <2>1. CASE UNCHANGED udpVars
    BY <2>1 DEF udpVars, UdpInv, UdpTyped, ToldTyped, ModeAgrees, Latched, Reported
  <2> QED
    BY <2>1, ReconnectKeeps, SendKeeps, NetworkChangesKeeps DEF UdpNext
<1>3. UdpInv => SocketSafe
  BY DEF UdpInv, UdpTyped, ToldTyped, Latched, Reported, SocketSafe, UdpTypeOK, DeadReported
<1> QED
  BY <1>1, <1>2, <1>3, PTL DEF UdpSpec

-----------------------------------------------------------------------------
(* The choice among servers.  Until it is made, the best so far is the     *)
(* first in preference of those seen online.  When the timer ends its      *)
(* branch is armed, and runs with the best, unless a setup is taken first: *)
(* a selection that goes on has no best, or has missed the branch.         *)
SelectTyped == SelectTypeOK /\ stale \in BOOLEAN /\ armed \in BOOLEAN /\ channel_open \in BOOLEAN
Watched == \A s \in Servers : attempt[s] = "waiting" => s \in channel \cup connected_stream
Seen(s) == Online(s) /\ s \notin channel \cup connected_stream
BestSoFar ==
  /\ best # NoServer => Online(best)
  /\ choice = Undecided => \A s \in Servers : Seen(s) => best <= s
Armed == timer = "running" => armed
SetupOver == ~channel_open => SetupClosed
TimerHeard ==
  ~stale /\ choice = Undecided /\ timer = "finished" => armed \/ best = NoServer

SelectInv ==
  SelectTyped /\ Watched /\ BestSoFar /\ Armed /\ SetupOver /\ TimerHeard
  /\ PreferredChosen /\ FailsOnlyOffline

LEMMA ServerFacts ==
  /\ NoServer \in Nat \ {0} /\ Undecided \in Nat /\ Failed \in Nat /\ Undecided # Failed
  /\ \A s \in Servers : s \in Nat /\ 0 <= s /\ s < NoServer /\ s # Undecided /\ s # Failed
  /\ NoServer \notin Servers
<1>1. Cardinality(Servers) \in Nat
  BY ServersAssumption, FS_CardinalityType
<1>2. \A s \in Servers : s \in 0..Cardinality(Servers) - 1
  BY ServersAssumption
<1>3. Cardinality(Servers) # 0
  BY <1>1, <1>2, ServersAssumption
<1> QED
  BY <1>1, <1>2, <1>3 DEF NoServer, Undecided, Failed

LEMMA SelectInvInit == SelectInit => SelectInv
<1> SUFFICES ASSUME SelectInit PROVE SelectInv
  OBVIOUS
<1>1. attempt = [s \in Servers |-> "opening"] /\ choice = Undecided /\ best = NoServer
  BY DEF SelectInit
<1>2. \A s \in Servers : attempt[s] = "opening"
  BY <1>1
<1>3. SelectTyped
  BY <1>1, <1>2 DEF SelectInit, SelectTyped, SelectTypeOK, Attempts
<1>4. Watched /\ BestSoFar /\ Armed /\ SetupOver /\ TimerHeard
  BY <1>1, <1>2 DEF SelectInit, Watched, BestSoFar, Seen, Online, Armed, SetupOver, TimerHeard
<1>5. PreferredChosen /\ FailsOnlyOffline
  BY <1>1, ServerFacts DEF PreferredChosen, FailsOnlyOffline
<1> QED
  BY <1>3, <1>4, <1>5 DEF SelectInv

(* A step that leaves the choice open owes nothing about it.               *)
LEMMA OpenKeeps ==
  ASSUME SelectTyped', Watched', BestSoFar', Armed', SetupOver', TimerHeard', choice' = Undecided
  PROVE  SelectInv'
<1>1. PreferredChosen' /\ FailsOnlyOffline'
  BY ServerFacts DEF PreferredChosen, FailsOnlyOffline, NoServer, Undecided, Failed
<1> QED
  BY <1>1 DEF SelectInv

LEMMA ReturnsKeeps ==
  ASSUME SelectInv, NEW s \in Servers, NEW ok \in BOOLEAN, ConnectReturns(s, ok)
  PROVE  SelectInv'
<1> DEFINE new == IF ok THEN "waiting" ELSE "refused"
<1>1. /\ choice = Undecided /\ attempt[s] = "opening" /\ attempt' = [attempt EXCEPT ![s] = new]
      /\ channel' = IF ok THEN channel \cup {s} ELSE channel
      /\ choice' = IF \A t \in Servers : attempt'[t] = "refused" THEN Failed ELSE choice
      /\ stale' = stale /\ timer' = timer /\ channel_open' = channel_open /\ armed' = armed /\ best' = best
      /\ connected_stream' = connected_stream
  BY DEF ConnectReturns
<1>2. /\ attempt \in [Servers -> Attempts] /\ channel \subseteq Servers /\ connected_stream \subseteq Servers
      /\ \A t \in channel \cup connected_stream : attempt[t] \in {"waiting", "online", "gone"}
      /\ best \in Servers \cup {NoServer}
  BY DEF SelectInv, SelectTyped, SelectTypeOK
<1>3. attempt'[s] = new /\ \A t \in Servers : t # s => attempt'[t] = attempt[t]
  BY <1>1, <1>2
<1>4. new \in Attempts /\ new \in {"waiting", "refused"} /\ (new = "waiting" => ok)
  BY DEF Attempts
<1>5. s \notin channel \cup connected_stream
  BY <1>1, <1>2
<1> HIDE DEF new
<1>6. SelectTyped'
  <2>1. attempt' \in [Servers -> Attempts] /\ channel' \subseteq Servers
    BY <1>1, <1>2, <1>4
  <2>2. \A t \in channel' \cup connected_stream' : attempt'[t] \in {"waiting", "online", "gone"}
    BY <1>1, <1>2, <1>3, <1>5 DEF new
  <2>3. choice' \in Servers \cup {Undecided, Failed}
    BY <1>1
  <2>4. SelectTypeOK'
    BY <1>1, <2>1, <2>2, <2>3 DEF SelectInv, SelectTyped, SelectTypeOK, NoServer, Undecided, Failed
  <2> QED
    BY <1>1, <2>4 DEF SelectInv, SelectTyped
<1>7. Watched'
  BY <1>1, <1>3, <1>4 DEF SelectInv, Watched
<1>8. \A t \in Servers : Seen(t)' => Seen(t)
  BY <1>1, <1>3, <1>4 DEF Seen, Online
<1>9. best # NoServer => Online(best)'
  BY <1>1, <1>2, <1>3 DEF SelectInv, BestSoFar, Online
<1>10. BestSoFar'
  BY <1>1, <1>8, <1>9 DEF SelectInv, BestSoFar, NoServer
<1>11. Armed'
  BY <1>1 DEF SelectInv, Armed
<1>12. channel_open
  BY <1>1 DEF SelectInv, SetupOver, SetupClosed, Opening
<1>13. SetupOver'
  BY <1>1, <1>12 DEF SetupOver
<1>14. TimerHeard'
  BY <1>1 DEF SelectInv, TimerHeard, NoServer
<1>15. CASE choice' = Undecided
  BY <1>6, <1>7, <1>10, <1>11, <1>13, <1>14, <1>15, OpenKeeps
<1>16. CASE choice' # Undecided
  <2>1. choice' = Failed /\ \A t \in Servers : attempt'[t] = "refused"
    BY <1>1, <1>16
  <2>2. Failed' = Failed /\ Failed \notin Servers
    BY ServerFacts DEF Failed, NoServer
  <2>3. PreferredChosen' /\ FailsOnlyOffline'
    BY <2>1, <2>2 DEF PreferredChosen, FailsOnlyOffline
  <2> QED
    BY <1>6, <1>7, <1>10, <1>11, <1>13, <1>14, <2>3 DEF SelectInv
<1> QED
  BY <1>15, <1>16

LEMMA SignalKeeps ==
  ASSUME SelectInv, NEW s \in Servers, NEW online \in BOOLEAN, Signal(s, online)
  PROVE  SelectInv'
<1> DEFINE new == IF online THEN "online" ELSE "gone"
<1>1. /\ choice = Undecided /\ attempt[s] = "waiting" /\ attempt' = [attempt EXCEPT ![s] = new]
      /\ channel' = channel /\ choice' = choice /\ stale' = stale /\ timer' = timer
      /\ channel_open' = channel_open /\ armed' = armed /\ best' = best
      /\ connected_stream' = connected_stream
  BY DEF Signal
<1>2. /\ attempt \in [Servers -> Attempts] /\ best \in Servers \cup {NoServer}
      /\ channel \subseteq Servers /\ connected_stream \subseteq Servers
      /\ \A t \in channel \cup connected_stream : attempt[t] \in {"waiting", "online", "gone"}
  BY DEF SelectInv, SelectTyped, SelectTypeOK
<1>3. attempt'[s] = new /\ \A t \in Servers : t # s => attempt'[t] = attempt[t]
  BY <1>1, <1>2
<1>4. new \in Attempts /\ new \in {"online", "gone"}
  BY DEF Attempts
<1> HIDE DEF new
<1>5. SelectTyped'
  <2>1. attempt' \in [Servers -> Attempts]
    BY <1>1, <1>2, <1>4
  <2>2. \A t \in channel \cup connected_stream : attempt'[t] \in {"waiting", "online", "gone"}
    BY <1>2, <1>3, <1>4
  <2>3. SelectTypeOK'
    BY <1>1, <2>1, <2>2 DEF SelectInv, SelectTyped, SelectTypeOK, NoServer, Undecided, Failed
  <2> QED
    BY <1>1, <2>3 DEF SelectInv, SelectTyped
<1>6. s \in channel \cup connected_stream
  BY <1>1 DEF SelectInv, Watched
<1>7. Watched'
  BY <1>1, <1>3, <1>4 DEF SelectInv, Watched
<1>8. \A t \in Servers : Seen(t)' => Seen(t)
  BY <1>1, <1>3, <1>6 DEF Seen, Online
<1>9. best # NoServer => Online(best)'
  BY <1>1, <1>2, <1>3 DEF SelectInv, BestSoFar, Online
<1>10. BestSoFar'
  BY <1>1, <1>8, <1>9 DEF SelectInv, BestSoFar, NoServer
<1>11. Armed'
  BY <1>1 DEF SelectInv, Armed
<1>12. Opening' = Opening
  BY <1>1, <1>3, <1>4 DEF Opening
<1>13. SetupOver'
  BY <1>1, <1>12 DEF SelectInv, SetupOver, SetupClosed
<1>14. TimerHeard'
  BY <1>1 DEF SelectInv, TimerHeard, NoServer
<1> QED
  BY <1>1, <1>5, <1>7, <1>10, <1>11, <1>13, <1>14, OpenKeeps

LEMMA TimerKeeps ==
  ASSUME SelectInv, TimerFinishes
  PROVE  SelectInv'
<1>1. /\ choice = Undecided /\ timer' = "finished" /\ timer = "running"
      /\ UNCHANGED <<stale, attempt, channel, channel_open, connected_stream, armed, best, choice>>
  BY DEF TimerFinishes
<1>2. SelectTyped' /\ Watched' /\ SetupOver'
  BY <1>1 DEF SelectInv, SelectTyped, SelectTypeOK, Watched, SetupOver, SetupClosed, Opening, NoServer, Undecided, Failed
<1>3. BestSoFar' /\ Armed'
  BY <1>1 DEF SelectInv, BestSoFar, Seen, Online, NoServer, Undecided, Armed
<1>4. TimerHeard'
  <2>1. armed
    BY <1>1 DEF SelectInv, Armed
  <2> QED
    BY <1>1, <2>1 DEF TimerHeard
<1> QED
  BY <1>1, <1>2, <1>3, <1>4, OpenKeeps

(* The steps of the selection itself that only move signals on.            *)
LEMMA MoveKeeps ==
  ASSUME SelectInv, NEW s \in Servers, TakeSetup(s) \/ SetupEnds
  PROVE  SelectInv'
<1>1. /\ choice = Undecided /\ SetupReady /\ choice' = choice /\ armed' = (timer # "finished")
      /\ stale' = (stale \/ (TimerReady /\ best # NoServer))
      /\ attempt' = attempt /\ timer' = timer /\ best' = best
      /\ channel' \cup connected_stream' = channel \cup connected_stream
  BY DEF TakeSetup, SetupEnds, SetupReady, Rearm, Misses
<1>2. channel' \subseteq Servers /\ connected_stream' \subseteq Servers /\ channel_open' \in BOOLEAN
  BY DEF TakeSetup, SetupEnds, SelectInv, SelectTyped, SelectTypeOK
<1>3. SelectTyped'
  BY <1>1, <1>2 DEF SelectInv, SelectTyped, SelectTypeOK, NoServer, Undecided, Failed
<1>4. Watched' /\ BestSoFar'
  BY <1>1 DEF SelectInv, Watched, BestSoFar, Seen, Online, NoServer, Undecided
<1>5. Armed'
  BY <1>1 DEF Armed
<1>6. SetupOver'
  <2>1. CASE TakeSetup(s)
    BY <2>1 DEF TakeSetup, SetupOver
  <2>2. CASE SetupEnds
    BY <2>2 DEF SetupEnds, SetupOver, SetupClosed, Opening
  <2> QED
    BY <2>1, <2>2
<1>7. TimerHeard'
  <2>1. ~stale' /\ timer = "finished" => ~stale /\ (armed => best = NoServer)
    BY <1>1 DEF TimerReady
  <2>2. ~stale' /\ timer = "finished" => best = NoServer
    BY <1>1, <2>1 DEF SelectInv, TimerHeard
  <2> QED
    BY <1>1, <2>2 DEF TimerHeard, NoServer
<1> QED
  BY <1>1, <1>3, <1>4, <1>5, <1>6, <1>7, OpenKeeps

LEMMA WaitKeeps ==
  ASSUME SelectInv, WaitEnds
  PROVE  SelectInv'
<1>1. /\ choice = Undecided /\ timer = "finished" /\ armed /\ choice' = IF best # NoServer THEN best ELSE choice
      /\ armed' = (timer # "finished")
      /\ UNCHANGED <<stale, attempt, timer, channel, channel_open, connected_stream, best>>
  BY DEF WaitEnds, TimerReady, Rearm
<1>2. best \in Servers \cup {NoServer}
  BY DEF SelectInv, SelectTyped, SelectTypeOK
<1>3. SelectTyped' /\ Watched' /\ SetupOver' /\ Armed'
  BY <1>1, <1>2 DEF SelectInv, SelectTyped, SelectTypeOK, Watched, SetupOver, SetupClosed, Opening, Armed,
                    NoServer, Undecided, Failed
<1>4. BestSoFar'
  BY <1>1 DEF SelectInv, BestSoFar, Seen, Online, NoServer, Undecided
<1>5. TimerHeard'
  BY <1>1, <1>2, ServerFacts DEF TimerHeard, NoServer, Undecided
<1>6. CASE best = NoServer
  BY <1>1, <1>3, <1>4, <1>5, <1>6, OpenKeeps
<1>7. CASE best # NoServer
  <2>1. choice' = best /\ best \in Servers /\ Online(best) /\ attempt' = attempt
    BY <1>1, <1>2, <1>7 DEF SelectInv, BestSoFar
  <2>2. \A s \in Servers \ (channel \cup connected_stream) : Online(s) => best <= s
    BY <1>1 DEF SelectInv, BestSoFar, Seen
  <2>3. PreferredChosen'
    BY <1>1, <2>1, <2>2 DEF PreferredChosen, Online
  <2>4. FailsOnlyOffline'
    BY <2>1, ServerFacts DEF FailsOnlyOffline, Failed, NoServer
  <2> QED
    BY <1>3, <1>4, <1>5, <2>3, <2>4 DEF SelectInv
<1> QED
  BY <1>6, <1>7

LEMMA TakeSignalKeeps ==
  ASSUME SelectInv, NEW s \in Servers, TakeSignal(s)
  PROVE  SelectInv'
<1>1. /\ choice = Undecided /\ ~TimerReady /\ s \in Signalled /\ armed' = (timer # "finished")
      /\ connected_stream' = connected_stream \ {s}
      /\ UNCHANGED <<stale, attempt, timer, channel, channel_open>>
  BY DEF TakeSignal, Rearm
<1>2. best \in Servers \cup {NoServer} /\ attempt[s] \in {"online", "gone"} /\ s \in Nat /\ best \in Nat
  BY <1>1, ServerFacts DEF SelectInv, SelectTyped, SelectTypeOK, Signalled
<1>3. timer = "finished" /\ ~stale => best = NoServer
  BY <1>1 DEF SelectInv, TimerHeard, TimerReady
<1>4. \A t \in Servers : Seen(t)' => Seen(t) \/ (t = s /\ attempt[s] = "online")
  BY <1>1 DEF Seen, Online
<1>5. \A t \in Servers : Seen(t) => best <= t
  BY <1>1 DEF SelectInv, BestSoFar
<1>6. Watched' /\ SetupOver' /\ Armed'
  BY <1>1, <1>2 DEF SelectInv, Watched, SetupOver, SetupClosed, Opening, Armed
<1>7. ASSUME best' \in Servers \cup {NoServer}, choice' \in Servers \cup {Undecided, Failed} PROVE SelectTyped'
  BY <1>1, <1>7 DEF SelectInv, SelectTyped, SelectTypeOK, NoServer, Undecided, Failed
<1>8. ASSUME best' = best, choice' = choice, attempt[s] = "gone" PROVE SelectInv'
  <2>1. SelectTyped'
    BY <1>1, <1>2, <1>7, <1>8
  <2>2. BestSoFar'
    BY <1>1, <1>4, <1>8 DEF SelectInv, BestSoFar, Online, NoServer, Undecided
  <2>3. TimerHeard'
    BY <1>1, <1>3, <1>8 DEF TimerHeard, NoServer
  <2> QED
    BY <1>1, <1>6, <1>8, <2>1, <2>2, <2>3, OpenKeeps
<1>9. ASSUME best' = best, choice' = s, timer = "finished" \/ s = 0, attempt[s] = "online" PROVE SelectInv'
  <2>1. SelectTyped'
    BY <1>2, <1>7, <1>9
  <2>2. s # Undecided /\ s # Failed /\ Undecided' = Undecided /\ Failed' = Failed
    BY ServerFacts DEF Undecided, Failed, NoServer
  <2>3. BestSoFar' /\ TimerHeard'
    BY <1>1, <1>9, <2>2 DEF SelectInv, BestSoFar, TimerHeard, Online, NoServer
  <2>4. ASSUME ~stale, NEW t \in Servers, Seen(t)' PROVE s <= t
    <3>1. CASE t = s
      BY <1>2, <3>1
    <3>2. CASE s = 0
      BY <3>2, ServerFacts
    <3>3. CASE t # s /\ timer = "finished"
      BY <1>3, <1>4, <1>5, <2>4, <3>3, ServerFacts
    <3> QED
      BY <1>9, <3>1, <3>2, <3>3
  <2>5. PreferredChosen'
    BY <1>1, <1>9, <2>4 DEF PreferredChosen, Seen, Online
  <2>6. FailsOnlyOffline'
    BY <1>9, <2>2 DEF FailsOnlyOffline
  <2> QED
    BY <1>6, <2>1, <2>3, <2>5, <2>6 DEF SelectInv
<1>10. ASSUME best' = (IF s < best THEN s ELSE best), choice' = choice, timer # "finished", attempt[s] = "online"
       PROVE  SelectInv'
  <2>1. SelectTyped'
    BY <1>1, <1>2, <1>7, <1>10
  <2>2. best' # NoServer => attempt'[best'] = "online"
    BY <1>1, <1>10 DEF SelectInv, BestSoFar, Online
  <2>3. \A t \in Servers : Seen(t)' => best' <= t
    BY <1>2, <1>4, <1>5, <1>10, ServerFacts
  <2>4. BestSoFar'
    BY <2>2, <2>3 DEF BestSoFar, NoServer, Online
  <2>5. TimerHeard'
    BY <1>1, <1>10 DEF TimerHeard
  <2> QED
    BY <1>1, <1>6, <1>10, <2>1, <2>4, <2>5, OpenKeeps
<1> QED
  BY <1>2, <1>8, <1>9, <1>10 DEF TakeSignal

LEMMA GiveUpKeeps ==
  ASSUME SelectInv, AllDisconnected
  PROVE  SelectInv'
<1>1. /\ choice = Undecided /\ ~channel_open /\ ~armed /\ connected_stream = {} /\ choice' = Failed
      /\ UNCHANGED <<stale, attempt, timer, channel, channel_open, connected_stream, armed, best>>
  BY DEF AllDisconnected
<1>2. Failed' = Failed /\ Failed # Undecided /\ Failed \notin Servers /\ Undecided' = Undecided
  BY ServerFacts DEF Failed, Undecided, NoServer
<1>3. SelectTyped' /\ Watched' /\ SetupOver' /\ Armed'
  BY <1>1 DEF SelectInv, SelectTyped, SelectTypeOK, Watched, SetupOver, SetupClosed, Opening, Armed,
              NoServer, Undecided, Failed
<1>4. BestSoFar' /\ TimerHeard' /\ PreferredChosen'
  BY <1>1, <1>2 DEF SelectInv, BestSoFar, TimerHeard, PreferredChosen, Online, NoServer
<1>5. ASSUME ~stale, NEW s \in Servers PROVE attempt[s] \in {"refused", "gone"}
  <2>1. attempt[s] \in Attempts /\ timer \in {"running", "finished"}
    BY DEF SelectInv, SelectTyped, SelectTypeOK
  <2>2. Opening = {} /\ channel = {}
    BY <1>1 DEF SelectInv, SetupOver, SetupClosed
  <2>3. attempt[s] # "opening" /\ attempt[s] # "waiting"
    BY <1>1, <2>2 DEF SelectInv, Watched, Opening
  <2>4. best = NoServer
    BY <1>1, <1>5, <2>1 DEF SelectInv, Armed, TimerHeard
  <2>5. attempt[s] # "online"
    <3>1. Online(s) => best <= s
      BY <1>1, <2>2 DEF SelectInv, BestSoFar, Seen
    <3> QED
      BY <2>4, <3>1, ServerFacts DEF Online
  <2> QED
    BY <2>1, <2>3, <2>5 DEF Attempts
<1>6. FailsOnlyOffline'
  BY <1>1, <1>5 DEF FailsOnlyOffline
<1> QED
  BY <1>3, <1>4, <1>6 DEF SelectInv

LEMMA SelectInvNext == SelectInv /\ [SelectNext]_selectVars => SelectInv'
<1> SUFFICES ASSUME SelectInv, [SelectNext]_selectVars PROVE SelectInv'
  OBVIOUS
<1>1. ASSUME NEW s \in Servers, NEW b \in BOOLEAN, ConnectReturns(s, b) \/ Signal(s, b) PROVE SelectInv'
  BY <1>1, ReturnsKeeps, SignalKeeps
<1>2. ASSUME NEW s \in Servers, TakeSetup(s) \/ TakeSignal(s) \/ SetupEnds PROVE SelectInv'
  BY <1>2, MoveKeeps, TakeSignalKeeps
<1>3. CASE TimerFinishes \/ WaitEnds \/ AllDisconnected
  BY <1>3, TimerKeeps, WaitKeeps, GiveUpKeeps
<1>4. \E s \in Servers : TRUE
  BY ServersAssumption
<1>5. CASE UNCHANGED selectVars
  BY <1>5 DEF selectVars, SelectInv, SelectTyped, SelectTypeOK, Watched, BestSoFar, Seen, Online, Armed, SetupOver,
              SetupClosed, Opening, SetupReady, TimerHeard, PreferredChosen, 
              FailsOnlyOffline, NoServer, Undecided, Failed
<1> QED
  BY <1>1, <1>2, <1>3, <1>4, <1>5 DEF SelectNext

(* Among any number of servers the selection returns one that is online,   *)
(* and, unless the timer branch was missed with a best in hand, returns the*)
(* preferred one of those seen and fails only when none can come online    *)
(* (find_best_connection).                                                 *)
THEOREM SelectionIsSafe == SelectSpec => []SelectSafe
<1>1. SelectInit => SelectInv
  BY SelectInvInit
<1>2. SelectInv /\ [SelectNext]_selectVars => SelectInv'
  BY SelectInvNext
<1>3. SelectInv => SelectSafe
  BY DEF SelectInv, SelectTyped, SelectSafe
<1> QED
  BY <1>1, <1>2, <1>3, PTL DEF SelectSpec

-----------------------------------------------------------------------------
(* The host's resolver.  While the client is between two of its steps, the *)
(* file it is about to link is not its own, the backup it is about to rely *)
(* on is the user's, and the file it is about to replace is its own; an    *)
(* override that a reset would miss has its excuse.                        *)
DnsTyped ==
  /\ file \in Contents \cup {Missing, Ours} /\ backup \in Contents \cup {Missing}
  /\ user \in Contents \cup {Missing} /\ step \in Steps
  /\ over \subseteq Services \cup {"dns", "domain"} /\ service_id \in Services \cup {Missing}
  /\ backend \in Backends /\ setup \in BOOLEAN /\ primary \in Services \cup {Missing}
OwnSteps ==
  /\ backend = "direct" => over = {}
  /\ step = "domain" => backend = "resolvectl"
  /\ backend # "direct" => file = Missing /\ step \notin {"linking", "writing", "restoring"}
Linking == step = "linking" => file # Ours
Writing == step = "writing" /\ "raced" \notin trouble /\ user # Missing => backup = user
Restoring == step = "restoring" /\ "raced" \notin trouble => file = Ours
DirectUnset == backend = "direct" /\ step = "held" /\ ~setup /\ trouble = {} => file # Ours
CommandUnset == backend = "resolvconf" /\ step = "held" /\ ~setup /\ trouble = {} => over = {}
Primary ==
  backend = "macos" /\ trouble = {} =>
    over \subseteq {primary} /\ (step = "held" /\ over # {} => service_id = primary)

Resolver ==
  /\ DnsTyped /\ OwnSteps /\ Linking /\ Writing /\ Restoring /\ DirectUnset /\ CommandUnset /\ Primary
  /\ Recoverable /\ DnsReleased

LEMMA ResolverInit == DnsInit => Resolver
<1> SUFFICES ASSUME DnsInit PROVE Resolver
  OBVIOUS
<1>1. DnsTyped
  BY DnsBounds DEF DnsInit, DnsTyped, Steps
<1> QED
  BY <1>1 DEF DnsInit, Resolver, OwnSteps, Linking, Writing, Restoring, DirectUnset, CommandUnset, Primary, Recoverable, DnsReleased

LEMMA DirectKeeps ==
  ASSUME Resolver, NEW ok \in BOOLEAN, backend = "direct",
         DirectSet \/ HardLink(ok) \/ write_atomic(ok) \/ DirectReset \/ Restore(ok)
  PROVE  Resolver'
<1> USE DnsBounds DEF Resolver
<1>1. backend' = backend /\ user' = user /\ over' = over /\ over = {} /\ primary' = primary /\ service_id' = service_id
  BY DEF DirectSet, HardLink, write_atomic, DirectReset, Restore, OwnSteps
<1>2. /\ user \in Contents \cup {Missing} /\ file \in Contents \cup {Missing, Ours} /\ backup \in Contents \cup {Missing}
      /\ user # Ours /\ backup # Ours /\ Missing # Ours
  BY DEF DnsTyped, Missing, Ours
<1>3. ASSUME file' \in Contents \cup {Missing, Ours}, backup' \in Contents \cup {Missing}, setup' \in BOOLEAN,
             step' \in Steps
      PROVE  DnsTyped'
  BY <1>1, <1>3 DEF DnsTyped
<1>4. CASE DirectSet
  <2>1. file' = file /\ trouble' = trouble /\ setup' = setup /\ backup' \in {backup, Missing}
        /\ step' \in {"linking", "writing"}
    BY <1>4 DEF DirectSet
  <2>2. DnsTyped'
    BY <1>2, <1>3, <2>1 DEF DnsTyped, Steps
  <2>3. CASE BacksUp
    <3>1. backup' = Missing /\ step' = "linking" /\ file # Ours
      BY <1>4, <2>3 DEF DirectSet, BacksUp
    <3>2. Recoverable'
      BY <1>1, <2>1, <3>1 DEF Recoverable
    <3> QED
      BY <1>1, <2>1, <2>2, <3>1, <3>2
      DEF OwnSteps, Linking, Writing, Restoring, DirectUnset, CommandUnset, Primary, DnsReleased
  <2>4. CASE ~BacksUp
    <3>1. backup' = backup /\ step' = "writing" /\ file \in {Missing, Ours}
      BY <1>2, <1>4, <2>4 DEF DirectSet, BacksUp
    <3>2. Recoverable'
      BY <1>1, <2>1, <3>1 DEF Recoverable
    <3>3. Writing'
      BY <1>1, <1>2, <2>1, <3>1 DEF Recoverable, Writing
    <3> QED
      BY <1>1, <2>1, <2>2, <3>1, <3>2, <3>3
      DEF OwnSteps, Linking, Restoring, DirectUnset, CommandUnset, Primary, DnsReleased
  <2> QED
    BY <2>3, <2>4
<1>5. CASE HardLink(ok)
  <2>1. step = "linking" /\ file' = file /\ trouble' = trouble /\ setup' = setup /\ file # Ours
    BY <1>5 DEF HardLink, Linking
  <2>2. (backup' = file /\ step' = "writing") \/ (backup' = backup /\ step' = "held")
    BY <1>5 DEF HardLink
  <2>3. DnsTyped'
    BY <1>2, <1>3, <2>1, <2>2 DEF DnsTyped, Steps
  <2>4. Recoverable' /\ Writing'
    BY <1>1, <1>2, <2>1, <2>2 DEF Recoverable, Writing
  <2> QED
    BY <1>1, <2>1, <2>2, <2>3, <2>4
    DEF OwnSteps, Linking, Restoring, DirectUnset, CommandUnset, Primary, DnsReleased
<1>6. CASE write_atomic(ok)
  <2>1. step = "writing" /\ step' = "held" /\ backup' = backup
        /\ \/ file' = Ours /\ setup' = TRUE /\ trouble' = trouble
           \/ file' = file /\ setup' = setup /\ trouble' = trouble \cup {"refused"}
    BY <1>6 DEF write_atomic
  <2>2. DnsTyped'
    BY <1>2, <1>3, <2>1 DEF DnsTyped, Steps
  <2>3. Recoverable'
    BY <1>1, <1>2, <2>1 DEF Recoverable, Writing
  <2>4. DirectUnset'
    BY <2>1 DEF DirectUnset
  <2> QED
    BY <1>1, <2>1, <2>2, <2>3, <2>4 DEF OwnSteps, Linking, Writing, Restoring, CommandUnset, Primary, DnsReleased
<1>7. CASE DirectReset
  <2>1. step = "held" /\ file' = file /\ trouble' = trouble
        /\ \/ ~setup /\ step' = "ended" /\ backup' = backup /\ setup' = setup
           \/ file = Ours /\ step' = "restoring" /\ backup' = backup /\ setup' = setup
           \/ file # Ours /\ step' = "ended" /\ backup' = Missing /\ setup' = FALSE
    BY <1>7 DEF DirectReset, GeneratedByLightway
  <2>2. DnsTyped'
    BY <1>2, <1>3, <2>1 DEF DnsTyped, Steps
  <2>3. Recoverable' /\ Restoring'
    BY <1>1, <1>2, <2>1 DEF Recoverable, Restoring
  <2>4. DnsReleased'
    BY <1>1, <2>1 DEF DnsReleased, DirectUnset
  <2> QED
    BY <1>1, <2>1, <2>2, <2>3, <2>4 DEF OwnSteps, Linking, Writing, DirectUnset, CommandUnset, Primary
<1>8. CASE Restore(ok)
  <2>1. step = "restoring" /\ step' = "ended"
        /\ \/ backup # Missing /\ file' = backup /\ backup' = Missing /\ setup' = FALSE /\ trouble' = trouble
           \/ /\ file' = file /\ backup' = backup /\ setup' = setup
              /\ trouble' = IF backup # Missing THEN trouble \cup {"refused"} ELSE trouble
    BY <1>8 DEF Restore
  <2>2. DnsTyped'
    BY <1>2, <1>3, <2>1 DEF DnsTyped, Steps
  <2>3. Recoverable'
    BY <1>1, <1>2, <2>1 DEF Recoverable, Restoring
  <2>4. ASSUME trouble' = {}, file' = Ours PROVE user' = Missing
    <3>1. trouble = {} /\ backup = Missing /\ file = Ours
      BY <1>2, <2>1, <2>4
    <3> QED
      BY <1>1, <1>2, <3>1 DEF Recoverable
  <2>5. DnsReleased'
    BY <1>1, <2>4 DEF DnsReleased
  <2> QED
    BY <1>1, <2>1, <2>2, <2>3, <2>5 DEF OwnSteps, Linking, Writing, Restoring, DirectUnset, CommandUnset, Primary
<1> QED
  BY <1>4, <1>5, <1>6, <1>7, <1>8

LEMMA HostKeeps ==
  ASSUME Resolver, NEW ok \in BOOLEAN, NEW done \in BOOLEAN, backend # "direct",
         \/ CommandSet(ok, done) \/ MacSetDns(ok, done) \/ WindowsSetDns(ok, done)
         \/ DomainSet(ok) \/ CommandReset(ok)
  PROVE  Resolver'
<1> USE DnsBounds DEF Resolver
<1>1. backend' = backend /\ user' = user /\ file' = file /\ backup' = backup /\ primary' = primary /\ file = Missing
  BY DEF CommandSet, MacSetDns, WindowsSetDns, DomainSet, CommandReset, OwnSteps
<1>2. step' \in {"domain", "held", "ended"} /\ setup' \in BOOLEAN
  BY DEF CommandSet, MacSetDns, WindowsSetDns, DomainSet, CommandReset, DnsTyped
<1>3. Recoverable' /\ OwnSteps' /\ Linking' /\ Writing' /\ Restoring' /\ DirectUnset'
  <2>1. step' = "domain" => backend = "resolvectl"
    BY DEF CommandSet, MacSetDns, WindowsSetDns, DomainSet, CommandReset
  <2> QED
    BY <1>1, <1>2, <2>1 DEF Recoverable, OwnSteps, Linking, Writing, Restoring, DirectUnset
<1>4. Missing # Ours
  BY DEF Missing, Ours
<1>5. ASSUME over' \subseteq Services \cup {"dns", "domain"}, service_id' \in Services \cup {Missing} PROVE DnsTyped'
  BY <1>1, <1>2, <1>5 DEF DnsTyped, Steps
<1>6. over \subseteq Services \cup {"dns", "domain"} /\ service_id \in Services \cup {Missing}
      /\ primary \in Services \cup {Missing}
  BY DEF DnsTyped
<1>7. ASSUME DnsTyped', CommandUnset', Primary', step' = "ended" /\ trouble' = {} => over' = {} PROVE Resolver'
  BY <1>1, <1>3, <1>4, <1>7 DEF DnsReleased
<1>8. CASE CommandSet(ok, done)
  <2>1. /\ backend # "macos" /\ over' \in {{"dns"}, over} /\ service_id' = service_id /\ step' # "ended"
        /\ setup' = (ok /\ backend = "resolvconf") /\ trouble' = IF ~ok /\ over' # {} THEN trouble \cup {"refused"} ELSE trouble
    BY <1>8 DEF CommandSet
  <2>2. DnsTyped'
    BY <1>5, <1>6, <2>1
  <2>3. CommandUnset' /\ Primary'
    BY <1>1, <2>1 DEF CommandUnset, Primary
  <2> QED
    BY <1>7, <2>1, <2>2, <2>3
<1>9. CASE DomainSet(ok)
  <2>1. step = "domain" /\ step' = "held" /\ over' \in {over \cup {"domain"}, over} /\ service_id' = service_id
    BY <1>9 DEF DomainSet
  <2>2. DnsTyped'
    BY <1>5, <1>6, <2>1
  <2> QED
    BY <1>1, <1>7, <2>1, <2>2 DEF CommandUnset, Primary, OwnSteps
<1>10. CASE MacSetDns(ok, done)
  <2>1. /\ backend = "macos" /\ step' = "held" /\ trouble' = trouble
        /\ \/ primary = Missing /\ over' = over /\ service_id' = service_id
           \/ primary # Missing /\ over' \in {over, over \cup {primary}} /\ service_id' = primary
    BY <1>10 DEF MacSetDns, MacSet
  <2>2. DnsTyped'
    BY <1>5, <1>6, <2>1
  <2>3. Missing \notin Services \cup {"dns", "domain"}
    BY DEF Missing
  <2>4. primary = Missing /\ trouble = {} => over = {}
    BY <1>6, <2>1, <2>3 DEF Primary
  <2>5. Primary'
    BY <1>1, <2>1, <2>4 DEF Primary
  <2> QED
    BY <1>1, <1>7, <2>1, <2>2, <2>5 DEF CommandUnset
<1>11. CASE WindowsSetDns(ok, done)
  <2>1. backend = "windows" /\ step' = "held" /\ over' \in {over, {"dns"}, {}} /\ service_id' = service_id
    BY <1>11 DEF WindowsSetDns
  <2>2. DnsTyped'
    BY <1>5, <1>6, <2>1
  <2> QED
    BY <1>1, <1>7, <2>1, <2>2 DEF CommandUnset, Primary
<1>12. CASE CommandReset(ok)
  <2>1. /\ step = "held" /\ step' = "ended" /\ service_id' \in {Missing, service_id}
        /\ over' = IF backend = "resolvectl" THEN {} ELSE IF ok THEN Removes ELSE over
        /\ trouble' = IF ok \/ over = {} THEN trouble ELSE trouble \cup {"refused"}
    BY <1>12 DEF CommandReset
  <2>2. /\ backend = "macos" => Removes = over \ {service_id}
        /\ backend = "windows" => Removes = {}
        /\ backend = "resolvconf" => Removes = IF setup THEN {} ELSE over
    BY DEF Removes
  <2>3. backend \in {"resolvectl", "resolvconf", "macos", "windows"}
    BY DEF DnsTyped, Backends
  <2>4. over' \subseteq over
    BY <2>1, <2>2, <2>3
  <2>5. DnsTyped'
    BY <1>5, <1>6, <2>1, <2>4
  <2>6. ASSUME trouble' = {} PROVE over' = {}
    <3>1. trouble = {} /\ (ok \/ over = {})
      BY <2>1, <2>6
    <3>2. CASE over = {}
      BY <2>4, <3>2
    <3>3. CASE ok /\ over # {}
      <4>1. CASE backend = "macos"
        <5>1. over \subseteq {primary} /\ service_id = primary
          BY <2>1, <3>1, <3>3, <4>1 DEF Primary
        <5> QED
          BY <2>1, <2>2, <3>3, <4>1, <5>1
      <4>2. CASE backend = "resolvconf"
        BY <2>1, <2>2, <3>1, <3>3, <4>2 DEF CommandUnset
      <4>3. CASE backend \in {"resolvectl", "windows"}
        BY <2>1, <2>2, <3>3, <4>3
      <4> QED
        BY <2>3, <4>1, <4>2, <4>3
    <3> QED
      BY <3>1, <3>2, <3>3
  <2>7. CommandUnset' /\ Primary'
    BY <1>1, <2>1, <2>6 DEF CommandUnset, Primary
  <2> QED
    BY <1>7, <2>5, <2>6, <2>7
<1> QED
  BY <1>8, <1>9, <1>10, <1>11, <1>12

LEMMA RestartKeeps ==
  ASSUME Resolver, DnsNew \/ Crash
  PROVE  Resolver'
<1> USE DnsBounds DEF Resolver
<1>1. /\ UNCHANGED <<backend, file, backup, user, primary, trouble>> /\ over' \in {over, {}}
      /\ step' \in {"ready", "down"} /\ setup' = FALSE /\ service_id' = Missing
  BY DEF DnsNew, Crash
<1>2. DnsTyped'
  BY <1>1 DEF DnsTyped, Steps
<1>3. Primary' /\ Recoverable' /\ DnsReleased'
  BY <1>1 DEF Primary, Recoverable, DnsReleased
<1> QED
  BY <1>1, <1>2, <1>3 DEF OwnSteps, Linking, Writing, Restoring, DirectUnset, CommandUnset

LEMMA OthersKeep ==
  ASSUME Resolver, NEW c \in Contents \cup {Missing}, NEW inplace \in BOOLEAN, NEW s \in Services \cup {Missing},
         Rewrite(c, inplace) \/ PrimaryMoves(s)
  PROVE  Resolver'
<1> USE DnsBounds DEF Resolver
<1>1. UNCHANGED <<backend, over, service_id, setup, step>>
  BY DEF Rewrite, PrimaryMoves
<1>2. CASE Rewrite(c, inplace)
  <2>1. backend = "direct" /\ user' = c /\ file' = c /\ primary' = primary /\ c # Ours
    BY <1>2 DEF Rewrite, Missing, Ours
  <2>2. /\ backup' \in {c, backup} /\ (c = Missing => backup' = backup)
        /\ trouble \subseteq trouble' /\ (step = "writing" /\ backup' # c => "raced" \in trouble')
        /\ (step = "restoring" => "raced" \in trouble')
    BY <1>2 DEF Rewrite
  <2>3. DnsTyped'
    BY <1>1, <2>1, <2>2 DEF DnsTyped
  <2>4. Linking' /\ Writing' /\ Restoring' /\ DirectUnset' /\ Recoverable'
    BY <1>1, <2>1, <2>2 DEF Linking, Writing, Restoring, DirectUnset, Recoverable
  <2> QED
    BY <1>1, <2>1, <2>2, <2>3, <2>4 DEF OwnSteps, CommandUnset, Primary, DnsReleased
<1>3. CASE PrimaryMoves(s)
  <2>1. /\ backend = "macos" /\ primary' = s /\ file' = file /\ backup' = backup /\ user' = user
        /\ trouble' = IF over = {} THEN trouble ELSE trouble \cup {"moved"}
    BY <1>3 DEF PrimaryMoves
  <2>2. DnsTyped'
    BY <1>1, <2>1 DEF DnsTyped
  <2>3. Primary' /\ DnsReleased'
    BY <1>1, <2>1 DEF Primary, DnsReleased
  <2> QED
    BY <1>1, <2>1, <2>2, <2>3
    DEF OwnSteps, Linking, Writing, Restoring, DirectUnset, CommandUnset, Recoverable
<1> QED
  BY <1>2, <1>3

LEMMA ResolverNext == Resolver /\ [DnsNext]_dnsVars => Resolver'
<1> SUFFICES ASSUME Resolver, [DnsNext]_dnsVars PROVE Resolver'
  OBVIOUS
<1>1. ASSUME NEW ok \in BOOLEAN, DirectSet \/ HardLink(ok) \/ write_atomic(ok) \/ DirectReset \/ Restore(ok)
      PROVE  Resolver'
  <2>1. backend = "direct"
    BY <1>1 DEF DirectSet, HardLink, write_atomic, DirectReset, Restore, Resolver, OwnSteps
  <2> QED
    BY <1>1, <2>1, DirectKeeps
<1>2. ASSUME NEW ok \in BOOLEAN, NEW done \in BOOLEAN,
             \/ CommandSet(ok, done) \/ MacSetDns(ok, done) \/ WindowsSetDns(ok, done)
             \/ DomainSet(ok) \/ CommandReset(ok)
      PROVE  Resolver'
  <2>1. backend # "direct"
    BY <1>2 DEF CommandSet, MacSetDns, WindowsSetDns, DomainSet, CommandReset, Resolver, OwnSteps
  <2> QED
    BY <1>2, <2>1, HostKeeps
<1>3. CASE DnsNew \/ Crash
  BY <1>3, RestartKeeps
<1>4. ASSUME NEW c \in Contents \cup {Missing}, NEW inplace \in BOOLEAN, NEW s \in Services \cup {Missing},
             Rewrite(c, inplace) \/ PrimaryMoves(s)
      PROVE  Resolver'
  BY <1>4, OthersKeep
<1>5. CASE UNCHANGED dnsVars
  BY <1>5 DEF dnsVars, Resolver, DnsTyped, OwnSteps, Linking, Writing, Restoring, DirectUnset, CommandUnset,
              Primary, Recoverable, DnsReleased
<1>6. (\E b \in BOOLEAN : TRUE) /\ (\E m \in Services \cup {Missing} : TRUE) /\ (\E m \in Contents \cup {Missing} : TRUE)
  OBVIOUS
<1> QED
  BY <1>1, <1>2, <1>3, <1>4, <1>5, <1>6 DEF DnsNext

(* The user's own values on a Mac: only one of a service the client was    *)
(* pointed at is lost.                                                     *)
Manual ==
  manual \subseteq Services /\ spoilt \subseteq manual /\ spoilt \subseteq named /\ service_id \in named \cup {Missing}

LEMMA ManualNext == Manual /\ [DnsNext]_dnsVars => Manual'
<1> SUFFICES ASSUME Manual, [DnsNext]_dnsVars PROVE Manual'
  OBVIOUS
<1>1. Missing \notin manual
  BY DnsBounds DEF Manual
<1>2. ASSUME manual' = manual, spoilt' = spoilt, named' = named, service_id' \in {service_id, Missing} PROVE Manual'
  BY <1>2 DEF Manual
<1>3. CASE DnsNew \/ DirectSet \/ DirectReset \/ Crash
  BY <1>2, <1>3 DEF DnsNew, DirectSet, DirectReset, Crash, manualVars
<1>4. ASSUME NEW ok \in BOOLEAN, HardLink(ok) \/ write_atomic(ok) \/ Restore(ok) \/ DomainSet(ok) PROVE Manual'
  BY <1>2, <1>4 DEF HardLink, write_atomic, Restore, DomainSet, manualVars
<1>5. ASSUME NEW ok \in BOOLEAN, CommandReset(ok) PROVE Manual'
  <2>1. manual' = manual /\ named' = named /\ service_id' \in {service_id, Missing}
        /\ spoilt' \in {spoilt, spoilt \cup (manual \cap {service_id})}
    BY <1>5 DEF CommandReset
  <2> QED
    BY <1>1, <2>1 DEF Manual
<1>6. ASSUME NEW ok \in BOOLEAN, NEW done \in BOOLEAN, CommandSet(ok, done) \/ WindowsSetDns(ok, done) PROVE Manual'
  BY <1>2, <1>6 DEF CommandSet, WindowsSetDns, manualVars
<1>7. ASSUME NEW ok \in BOOLEAN, NEW done \in BOOLEAN, MacSetDns(ok, done) PROVE Manual'
  <2>1. CASE primary = Missing
    BY <1>2, <1>7, <2>1 DEF MacSetDns
  <2>2. CASE primary # Missing
    <3>1. manual' = manual /\ service_id' = primary /\ named' = named \cup {primary}
          /\ spoilt' \in {spoilt, spoilt \cup (manual \cap {primary})}
      BY <1>7, <2>2 DEF MacSetDns, MacSet
    <3> QED
      BY <3>1 DEF Manual
  <2> QED
    BY <2>1, <2>2
<1>8. ASSUME NEW k \in Contents \cup {Missing}, NEW inplace \in BOOLEAN, Rewrite(k, inplace) PROVE Manual'
  BY <1>2, <1>8 DEF Rewrite, manualVars
<1>9. ASSUME NEW s \in Services \cup {Missing}, PrimaryMoves(s) PROVE Manual'
  BY <1>2, <1>9 DEF PrimaryMoves, manualVars
<1>10. CASE UNCHANGED dnsVars
  BY <1>2, <1>10 DEF dnsVars
<1> QED
  BY <1>3, <1>4, <1>5, <1>6, <1>7, <1>8, <1>9, <1>10 DEF DnsNext

DnsInv == Resolver /\ Manual

LEMMA DnsInvInit == DnsInit => DnsInv
<1>1. DnsInit => Manual
  BY DEF DnsInit, Manual
<1> QED
  BY <1>1, ResolverInit DEF DnsInv

LEMMA DnsInvNext == DnsInv /\ [DnsNext]_dnsVars => DnsInv'
BY ResolverNext, ManualNext DEF DnsInv

LEMMA DnsInvSafe == DnsInv => DnsSafe
BY DEF DnsInv, Resolver, DnsTyped, Manual, DnsSafe, DnsTypeOK, OtherServicesKept

(* Whatever number of runs and crashes, and whatever other programs write, *)
(* the user's resolv.conf can be recovered unless one of them raced the    *)
(* client; a client that ended in order has left no override behind if the *)
(* host refused nothing, nobody raced it and the primary service stayed,   *)
(* but for its resolv.conf where there had been none; and a DNS value the  *)
(* user set on a Mac is lost only on a service the client was pointed at   *)
(* (dns_manager.rs).                                                       *)
THEOREM ResolverIsRestored == DnsSpec => []DnsSafe
<1>1. DnsInit => DnsInv
  BY DnsInvInit
<1>2. DnsInv /\ [DnsNext]_dnsVars => DnsInv'
  BY DnsInvNext
<1>3. DnsInv => DnsSafe
  BY DnsInvSafe
<1> QED
  BY <1>1, <1>2, <1>3, PTL DEF DnsSpec

-----------------------------------------------------------------------------
(* The host's routes.  What the kernel has is recorded, or is what the     *)
(* task is adding or deleting, or it refused to delete it; the server is   *)
(* planned first, so that by the time of the routes into the tunnel it is  *)
(* pinned, or something excuses it; and the route it has or will have is   *)
(* the best as of the last event seen.                                     *)
Items == [dst : {"server", "lan"}, via : Gateways] \cup [dst : {"halves", "dns"}, via : {Tun}]
ServerNext == todo # <<>> /\ Head(todo).dst = "server"
Routing == routing_mode # "noexec" /\ routes \in {"installing", "deleting", "replacing", "idle"}
RouteStates == {"off", "installing", "idle", "deleting", "replacing", "gone"}
ServerRecord == IF applied /\ ServerNext THEN Head(todo).via ELSE IF routes = "deleting" THEN taken ELSE server_route

RouteTyped ==
  /\ table \in [Destinations -> Vias] /\ server_route \in Gateways \cup {NoVia}
  /\ owned \subseteq Destinations \ {"server"} /\ Len(todo) <= 4 /\ excuse \subseteq Excuses
  /\ todo \in Seq(Items) /\ uplinks \in Seq(Gateways) /\ foreign \subseteq {"lan"}
  /\ applied \in BOOLEAN /\ routes \in RouteStates
  /\ stuck \subseteq Destinations /\ taken \in Gateways \cup {NoVia} /\ table["server"] # Tun
Shape ==
  /\ \A i \in 2..Len(todo) : todo[i].dst # "server"
  /\ routes \in {"off", "idle", "gone"} => todo = <<>>
  /\ routes \in {"off", "idle", "gone", "deleting"} => ~applied
  /\ routes = "installing" => todo # <<>>
  /\ routes \in {"deleting", "replacing"} => Len(todo) = 1 /\ ServerNext
  /\ routing_mode = "noexec" => routes \in {"off", "idle", "gone"} /\ owned = {} /\ server_route = NoVia
  /\ routes = "off" \/ (routes = "installing" /\ ServerNext) => owned = {}
  /\ routes = "off" => stuck = {}
  /\ routes = "off" \/ ServerNext => server_route = NoVia
Recorded ==
  routes # "gone" =>
    /\ \A d \in Destinations \ foreign :
         d # "server" /\ table[d] # NoVia => d \in owned \/ (applied /\ Head(todo).dst = d)
    /\ table["server"] # NoVia => table["server"] = ServerRecord \/ "server" \in stuck
Pinned ==
  Routing /\ (ServerNext => applied \/ routes = "deleting") => table["server"] \in Gateways \/ excuse \cap {"failed", "lost"} # {}
OnTarget ==
  Routing /\ "failed" \notin excuse =>
    /\ server_route # NoVia \/ ServerNext
    /\ ~changed /\ uplinks # <<>> => Head(uplinks) = IF ServerNext THEN Head(todo).via ELSE server_route

RouteInv == RouteTyped /\ Shape /\ Recorded /\ Pinned /\ OnTarget /\ NoRouteLeft

LEMMA OrderFacts == ASSUME NEW order \in Orders PROVE order \in Seq(Gateways)
<1>1. PICK s \in SUBSET Gateways : order \in SetToSeqs(s)
  BY DEF Orders
<1>2. Cardinality(s) \in Nat
  BY RouteBounds, FS_Subset, FS_CardinalityType
<1>3. order \in [1..Cardinality(s) -> s]
  BY <1>1 DEF SetToSeqs
<1>4. order \in [1..Cardinality(s) -> Gateways]
  BY <1>3
<1> QED
  BY <1>2, <1>4, SeqDef

LEMMA ViaFacts ==
  /\ Tun \notin Gateways /\ NoVia \notin Gateways /\ Tun # NoVia
  /\ "server" \in Destinations /\ "halves" \in Destinations
  /\ \A r \in Items : r.dst \in Destinations /\ r.via \in Vias \ {NoVia} /\ (r.dst = "server" => r.via \in Gateways)
<1>1. Tun \notin Gateways /\ NoVia \notin Gateways /\ Tun # NoVia
  BY RouteBounds DEF Tun, NoVia
<1>2. "server" \in Destinations /\ "halves" \in Destinations
  BY DEF Destinations
<1>3. ASSUME NEW r \in Items PROVE r.dst \in Destinations /\ r.via \in Vias \ {NoVia} /\ (r.dst = "server" => r.via \in Gateways)
  BY <1>1 DEF Items, Destinations, Vias
<1> QED
  BY <1>1, <1>2, <1>3

LEMMA HeadFacts ==
  ASSUME RouteInv, todo # <<>>
  PROVE  Head(todo) \in Items /\ Head(todo) = todo[1] /\ Len(todo) \in 1..4 /\ Tail(todo) \in Seq(Items)
         /\ Len(Tail(todo)) = Len(todo) - 1 /\ (Len(todo) = 1 => Tail(todo) = <<>>)
         /\ \A i \in 1..Len(Tail(todo)) : Tail(todo)[i] = todo[i + 1]
<1>1. todo \in Seq(Items) /\ Len(todo) <= 4 /\ Len(todo) \in Nat
  BY DEF RouteInv, RouteTyped
<1>2. ASSUME NEW q \in Seq(Items), q # <<>>
      PROVE  /\ Head(q) \in Items /\ Head(q) = q[1] /\ Tail(q) \in Seq(Items) /\ Len(q) \in Nat \ {0}
             /\ Len(Tail(q)) = Len(q) - 1 /\ (Tail(q) # <<>> => Len(Tail(q)) # 0)
             /\ \A i \in 1..Len(Tail(q)) : Tail(q)[i] = q[i + 1]
  <2>1. /\ Head(q) \in Items /\ Tail(q) \in Seq(Items) /\ Len(Tail(q)) = Len(q) - 1
        /\ \A i \in 1..Len(Tail(q)) : Tail(q)[i] = q[i + 1]
    BY <1>2, HeadTailProperties, Zenon
  <2>2. Head(q) = q[1]
    BY <1>2
  <2>3. Len(q) \in Nat \ {0}
    BY <1>2, EmptySeq
  <2>4. Tail(q) # <<>> => Len(Tail(q)) # 0
    BY <2>1, EmptySeq
  <2> QED
    BY <2>1, <2>2, <2>3, <2>4
<1> HIDE DEF Items
<1>3. /\ Head(todo) \in Items /\ Head(todo) = todo[1] /\ Tail(todo) \in Seq(Items) /\ Len(todo) \in Nat \ {0}
      /\ Len(Tail(todo)) = Len(todo) - 1 /\ (Tail(todo) # <<>> => Len(Tail(todo)) # 0)
      /\ \A i \in 1..Len(Tail(todo)) : Tail(todo)[i] = todo[i + 1]
  BY <1>1, <1>2, Zenon
<1>4. PICK n \in Nat : n = Len(todo)
  BY <1>1
<1> QED
  BY <1>1, <1>3, <1>4

LEMMA PlannedFacts ==
  ASSUME NEW via \in Gateways
  PROVE  /\ Planned(via) \in Seq(Items) /\ Len(Planned(via)) \in 3..4
         /\ Planned(via)[1] = [dst |-> "server", via |-> via]
         /\ \A i \in 2..Len(Planned(via)) : Planned(via)[i].dst # "server"
<1> DEFINE a == [dst |-> "server", via |-> via]
           b == [dst |-> "lan", via |-> via]
           c == [dst |-> "halves", via |-> Tun]
           d == [dst |-> "dns", via |-> Tun]
<1>1. a \in Items /\ b \in Items /\ c \in Items /\ d \in Items /\ b.dst # "server" /\ c.dst # "server" /\ d.dst # "server"
  BY DEF Items
<1> DEFINE x == <<a>> \o (IF routing_mode = "lan" THEN <<b>> ELSE <<>>)
           y == <<c, d>>
<1>2. Planned(via) = x \o y
  BY DEF Planned
<1> HIDE DEF a, b, c, d
<1>3. y \in Seq(Items) /\ Len(y) = 2 /\ y[1].dst # "server" /\ y[2].dst # "server"
  BY <1>1
<1>4. /\ x \in Seq(Items) /\ Len(x) \in {1, 2} /\ x[1] = a /\ (Len(x) = 2 => x[2].dst # "server")
  <2>1. <<a>> \in Seq(Items) /\ Len(<<a>>) = 1 /\ <<a>>[1] = a
    BY <1>1
  <2>2. CASE routing_mode = "lan"
    <3>1. <<b>> \in Seq(Items) /\ Len(<<b>>) = 1 /\ <<b>>[1] = b
      BY <1>1
    <3>2. x = <<a>> \o <<b>>
      BY <2>2
    <3>3. x \in Seq(Items) /\ Len(x) = 2 /\ x[1] = a /\ x[2] = b
      BY <2>1, <3>1, <3>2, ConcatProperties
    <3> QED
      BY <1>1, <3>3
  <2>3. CASE routing_mode # "lan"
    <3>1. x = <<a>> \o <<>>
      BY <2>3
    <3>2. x = <<a>>
      BY <2>1, <3>1, ConcatEmptySeq
    <3> QED
      BY <2>1, <3>2
  <2> QED
    BY <2>2, <2>3
<1> HIDE DEF x, y
<1>5. /\ x \o y \in Seq(Items) /\ Len(x \o y) = Len(x) + 2
      /\ \A i \in 1..(Len(x) + 2) : (x \o y)[i] = IF i <= Len(x) THEN x[i] ELSE y[i - Len(x)]
  <2>1. /\ x \o y \in Seq(Items) /\ Len(x \o y) = Len(x) + Len(y)
        /\ \A i \in 1..(Len(x) + Len(y)) : (x \o y)[i] = IF i <= Len(x) THEN x[i] ELSE y[i - Len(x)]
    BY <1>3, <1>4, ConcatProperties, Zenon
  <2> QED
    BY <1>3, <2>1
<1>6. (x \o y)[1] = a /\ \A i \in 2..(Len(x) + 2) : (x \o y)[i].dst # "server"
  <2>1. CASE Len(x) = 1
    BY <1>3, <1>4, <1>5, <2>1
  <2>2. CASE Len(x) = 2
    BY <1>3, <1>4, <1>5, <2>2
  <2> QED
    BY <1>4, <2>1, <2>2
<1> QED
  BY <1>2, <1>4, <1>5, <1>6 DEF a

LEMMA EmptyIsNoServer == ASSUME todo = <<>> PROVE ~ServerNext
BY DEF ServerNext

LEMMA RouteInvInit == RouteInit => RouteInv
<1> SUFFICES ASSUME RouteInit PROVE RouteInv
  OBVIOUS
<1>1. todo = <<>> /\ Len(todo) = 0 /\ todo \in Seq(Items) /\ ~ServerNext
  BY EmptySeq DEF RouteInit, ServerNext
<1>2. uplinks \in Seq(Gateways)
  BY OrderFacts DEF RouteInit
<1>3. (CHOOSE g \in Gateways : TRUE) \in Gateways
  BY RouteBounds
<1>4. table \in [Destinations -> Vias] /\ \A d \in Destinations \ foreign : table[d] = NoVia
  BY <1>3 DEF RouteInit, Vias
<1>5. table["server"] = NoVia
  BY <1>4 DEF RouteInit, Destinations
<1>6. RouteTyped
  <2>1. server_route \in Gateways \cup {NoVia} /\ owned \subseteq Destinations \ {"server"} /\ excuse \subseteq Excuses
    BY DEF RouteInit
  <2>2. foreign \subseteq {"lan"} /\ applied \in BOOLEAN /\ routes = "off"
    BY DEF RouteInit
  <2> QED
    BY <1>1, <1>2, <1>4, <1>5, <2>1, <2>2, ViaFacts DEF RouteTyped, RouteInit, RouteStates
<1>7. Shape
  BY <1>1 DEF Shape, RouteInit
<1>8. Recorded
  BY <1>4, <1>5 DEF Recorded, RouteInit
<1>9. Pinned /\ OnTarget /\ NoRouteLeft
  BY DEF Pinned, OnTarget, NoRouteLeft, Routing, RouteInit
<1> QED
  BY <1>6, <1>7, <1>8, <1>9 DEF RouteInv

LEMMA RouteStart == ASSUME RouteInv, Start PROVE RouteInv'
<1>1. routes = "off" /\ todo = <<>> /\ ~applied /\ owned = {} /\ server_route = NoVia /\ ~ServerNext /\ stuck = {}
  BY EmptyIsNoServer DEF RouteInv, Shape, Start
<1>2. table["server"] = NoVia
  BY <1>1 DEF RouteInv, Recorded, ServerRecord
<1>3. \A d \in Destinations \ foreign : table[d] = NoVia
  BY <1>1, <1>2 DEF RouteInv, Recorded
<1>4. UNCHANGED <<routing_mode, table, uplinks, applied, server_route, taken, owned, foreign, changed, updates, excuse, stuck>>
  BY DEF Start
<1>5. CASE UNCHANGED todo /\ ((routing_mode = "noexec" /\ routes' = "idle") \/ routes' = "gone")
  <2>1. RouteTyped'
    BY <1>4, <1>5 DEF RouteInv, RouteTyped, RouteStates
  <2>2. ~ServerNext'
    BY <1>1, <1>5 DEF ServerNext
  <2>3. Shape'
    BY <1>1, <1>4, <1>5, <2>2 DEF RouteInv, Shape
  <2>4. Recorded'
    BY <1>2, <1>3, <1>4, <1>5 DEF Recorded
  <2>5. Pinned' /\ OnTarget'
    BY <1>4, <1>5 DEF Pinned, OnTarget, Routing
  <2>6. NoRouteLeft'
    BY <1>3, <1>4 DEF NoRouteLeft
  <2> QED
    BY <2>1, <2>3, <2>4, <2>5, <2>6 DEF RouteInv
<1>6. CASE routing_mode # "noexec" /\ find_route # NoVia /\ routes' = "installing" /\ todo' = Planned(find_route)
  <2>1. uplinks # <<>> /\ find_route = Head(uplinks)
    BY <1>2, <1>6 DEF find_route
  <2>2. find_route \in Gateways
    BY <2>1, HeadTailProperties DEF RouteInv, RouteTyped
  <2> HIDE DEF find_route
  <2>3. /\ todo' \in Seq(Items) /\ Len(todo') \in 3..4 /\ todo'[1] = [dst |-> "server", via |-> find_route]
        /\ \A i \in 2..Len(todo') : todo'[i].dst # "server"
    BY <1>6, <2>2, PlannedFacts
  <2>4. todo' # <<>> /\ Head(todo') = todo'[1]
    BY <2>3
  <2>5. ServerNext' /\ Head(todo').via = find_route
    BY <2>3, <2>4 DEF ServerNext
  <2>6. RouteTyped'
    BY <1>4, <1>6, <2>3 DEF RouteInv, RouteTyped, RouteStates
  <2>7. Shape'
    BY <1>1, <1>4, <1>6, <2>3, <2>4 DEF Shape
  <2>8. Recorded'
    BY <1>2, <1>3, <1>4, <1>6 DEF Recorded
  <2>9. Pinned'
    BY <1>1, <1>4, <1>6, <2>5 DEF Pinned
  <2>10. OnTarget'
    BY <1>4, <2>1, <2>5 DEF OnTarget
  <2>11. NoRouteLeft'
    BY <1>6 DEF NoRouteLeft
  <2> QED
    BY <2>6, <2>7, <2>8, <2>9, <2>10, <2>11 DEF RouteInv
<1> QED
  BY <1>5, <1>6 DEF Start

LEMMA RouteKernelAdds == ASSUME RouteInv, KernelAdds PROVE RouteInv'
<1> DEFINE h == Head(todo)
<1>1. /\ todo # <<>> /\ ~applied /\ applied' = TRUE
      /\ UNCHANGED <<routing_mode, uplinks, todo, server_route, taken, owned, foreign, changed, updates, routes>>
  BY DEF KernelAdds
<1>2. h \in Items /\ h.dst \in Destinations /\ h.via \in Vias \ {NoVia} /\ (h.dst = "server" => h.via \in Gateways)
  BY <1>1, HeadFacts, ViaFacts
<1>3. /\ table' = [table EXCEPT ![h.dst] = IF @ = NoVia THEN h.via ELSE @]
      /\ excuse' = IF h.dst = "server" THEN excuse \ {"lost"} ELSE excuse
      /\ stuck' = IF table'[h.dst] = h.via THEN stuck \ {h.dst} ELSE stuck
  BY DEF KernelAdds
<1>4. routes \in {"installing", "replacing"} /\ (ServerNext <=> h.dst = "server") /\ (ServerNext' <=> ServerNext)
  BY <1>1 DEF RouteInv, RouteTyped, RouteStates, Shape, ServerNext, KernelAdds
<1> HIDE DEF h
<1>5. table \in [Destinations -> Vias]
  BY DEF RouteInv, RouteTyped
<1>6. /\ \A d \in Destinations : d # h.dst => table'[d] = table[d]
      /\ table'[h.dst] = IF table[h.dst] = NoVia THEN h.via ELSE table[h.dst]
      /\ table' \in [Destinations -> Vias]
  BY <1>2, <1>3, <1>5
<1>7. /\ table["server"] \in Gateways \cup {NoVia}
      /\ ServerNext => table["server"] = NoVia \/ "server" \in stuck
  <2>1. table["server"] \in Gateways \cup {NoVia}
    BY <1>5, ViaFacts DEF RouteInv, RouteTyped, Vias
  <2>2. ServerNext => server_route = NoVia /\ ServerRecord = server_route
    BY <1>1, <1>4 DEF RouteInv, Shape, ServerRecord
  <2> QED
    BY <1>4, <2>1, <2>2 DEF RouteInv, Recorded
<1>8. RouteTyped'
  <2>1. table'["server"] # Tun
    <3>1. CASE h.dst = "server"
      BY <1>2, <1>6, <3>1, ViaFacts DEF RouteInv, RouteTyped
    <3>2. CASE h.dst # "server"
      BY <1>6, <3>2, ViaFacts DEF RouteInv, RouteTyped
    <3> QED
      BY <3>1, <3>2
  <2>2. excuse' \subseteq Excuses /\ stuck' \subseteq Destinations
    BY <1>3 DEF RouteInv, RouteTyped
  <2> QED
    BY <1>1, <1>6, <2>1, <2>2 DEF RouteInv, RouteTyped
<1>9. Shape'
  BY <1>1, <1>4 DEF RouteInv, Shape
<1>10. Recorded'
  <2>1. ASSUME NEW d \in Destinations \ foreign, d # "server", table'[d] # NoVia
        PROVE  d \in owned \/ h.dst = d
    BY <1>1, <1>4, <1>6, <2>1 DEF RouteInv, Recorded
  <2>2. CASE ServerNext
    <3>1. table'["server"] = h.via \/ "server" \in stuck'
      BY <1>3, <1>4, <1>6, <1>7, <2>2
    <3>2. ServerRecord' = h.via
      BY <1>1, <1>4, <2>2 DEF ServerRecord, h
    <3> QED
      BY <1>1, <1>4, <2>1, <2>2, <3>1, <3>2 DEF Recorded, h
  <2>3. CASE ~ServerNext
    <3>1. table'["server"] = table["server"]
      BY <1>4, <1>6, <2>3, ViaFacts
    <3>2. ServerRecord' = ServerRecord
      BY <1>1, <1>4, <2>3 DEF ServerRecord
    <3>3. "server" \in stuck => "server" \in stuck'
      BY <1>3, <1>4, <2>3
    <3>4. table["server"] # NoVia => table["server"] = ServerRecord \/ "server" \in stuck
      BY <1>4 DEF RouteInv, Recorded
    <3> QED
      BY <1>1, <1>4, <2>1, <2>3, <3>1, <3>2, <3>3, <3>4 DEF Recorded, h
  <2> QED
    BY <2>2, <2>3
<1>11. Pinned'
  <2>1. CASE ServerNext
    <3>1. table'["server"] \in Gateways
      BY <1>2, <1>4, <1>6, <1>7, <2>1
    <3> QED
      BY <3>1 DEF Pinned
  <2>2. CASE ~ServerNext
    <3>1. table'["server"] = table["server"] /\ excuse' = excuse /\ (Routing' <=> Routing)
      BY <1>1, <1>3, <1>4, <1>6, <2>2, ViaFacts DEF Routing
    <3> QED
      BY <2>2, <3>1 DEF RouteInv, Pinned
  <2> QED
    BY <2>1, <2>2
<1>12. OnTarget'
  BY <1>1, <1>3, <1>4 DEF RouteInv, OnTarget, Routing
<1>13. NoRouteLeft'
  BY <1>1, <1>4 DEF NoRouteLeft
<1> QED
  BY <1>8, <1>9, <1>10, <1>11, <1>12, <1>13 DEF RouteInv

LEMMA RouteRouteAdded == ASSUME RouteInv, RouteAdded PROVE RouteInv'
<1> DEFINE h == Head(todo)
<1>1. /\ applied /\ applied' = FALSE /\ todo' = Tail(todo) /\ routes' = IF Len(todo) = 1 THEN "idle" ELSE routes
      /\ UNCHANGED <<routing_mode, table, uplinks, taken, foreign, changed, updates, excuse, stuck>>
  BY DEF RouteAdded
<1>2. routes \in {"installing", "replacing"} /\ todo # <<>> /\ routing_mode # "noexec"
  BY <1>1 DEF RouteInv, RouteTyped, RouteStates, Shape, ServerNext
<1>3. /\ h \in Items /\ h = todo[1] /\ Len(todo) \in 1..4 /\ todo' \in Seq(Items) /\ Len(todo') = Len(todo) - 1
      /\ Len(todo) = 1 => todo' = <<>>
      /\ \A i \in 1..Len(todo') : todo'[i] = todo[i + 1]
  BY <1>1, <1>2, HeadFacts
<1>4. h.dst \in Destinations /\ (h.dst = "server" => h.via \in Gateways)
  BY <1>3, ViaFacts
<1>5. IF h.dst = "server" THEN server_route' = h.via /\ owned' = owned ELSE owned' = owned \cup {h.dst} /\ server_route' = server_route
  BY DEF RouteAdded
<1>6. ServerNext <=> h.dst = "server"
  BY <1>2 DEF ServerNext
<1>7. \A i \in 1..Len(todo') : todo'[i].dst # "server"
  <2>1. PICK n \in 1..4 : n = Len(todo)
    BY <1>3
  <2>2. \A i \in 1..(n - 1) : i + 1 \in 2..n
    OBVIOUS
  <2>3. \A i \in 2..n : todo[i].dst # "server"
    BY <2>1 DEF RouteInv, Shape
  <2> QED
    BY <1>3, <2>1, <2>2, <2>3
<1>8. ~ServerNext' /\ (todo' # <<>> => Len(todo') > 0) /\ Len(todo') <= 3 /\ (todo' = <<>> => Len(todo') = 0)
  <2>1. Len(todo') \in Nat /\ Len(todo') <= 3 /\ (todo' # <<>> => Len(todo') \in Nat \ {0}) /\ (todo' = <<>> => Len(todo') = 0)
    <3>1. PICK n \in 1..4 : n = Len(todo)
      BY <1>3
    <3>2. Len(todo') = n - 1
      BY <1>3, <3>1
    <3>3. todo' # <<>> => Len(todo') \in Nat \ {0}
      BY <1>3, EmptySeq, Zenon
    <3>4. todo' = <<>> => Len(todo') = 0
      BY EmptySeq
    <3> QED
      BY <3>2, <3>3, <3>4
  <2>2. todo' # <<>> => Head(todo') = todo'[1]
    BY <1>3
  <2>3. todo' # <<>> => 1 \in 1..Len(todo')
    BY <2>1
  <2> QED
    BY <1>7, <2>1, <2>2, <2>3 DEF ServerNext
<1> HIDE DEF h
<1>9. RouteTyped'
  <2>1. server_route' \in Gateways \cup {NoVia} /\ owned' \subseteq Destinations \ {"server"}
    BY <1>4, <1>5 DEF RouteInv, RouteTyped
  <2>2. routes' \in RouteStates /\ applied' \in BOOLEAN
    BY <1>1, <1>2 DEF RouteStates
  <2>3. Len(todo') <= 4
    <3>1. PICK n \in 1..4 : n = Len(todo)
      BY <1>3
    <3> QED
      BY <1>3, <3>1
  <2> QED
    BY <1>1, <1>3, <2>1, <2>2, <2>3 DEF RouteInv, RouteTyped
<1>10. Shape'
  <2>1. \A i \in 2..Len(todo') : todo'[i].dst # "server"
    BY <1>3, <1>7
  <2>2. (routes' = "idle" /\ todo' = <<>>) \/ (routes' = "installing" /\ todo' # <<>>)
    <3>1. CASE Len(todo) = 1
      <4>1. routes' = "idle"
        BY <1>1, <3>1
      <4>2. todo' = <<>>
        BY <1>3, <3>1
      <4> QED
        BY <4>1, <4>2
    <3>2. CASE Len(todo) # 1
      <4>1. routes' = routes /\ routes = "installing"
        BY <1>1, <1>2, <3>2 DEF RouteInv, Shape
      <4>2. todo' # <<>>
        BY <1>3, <1>8, <3>2
      <4> QED
        BY <4>1, <4>2
    <3> QED
      BY <3>1, <3>2
  <2> QED
    BY <1>1, <1>2, <1>8, <2>1, <2>2 DEF Shape
<1>11. Recorded'
  <2>1. routes # "gone"
    BY <1>2
  <2>2. ASSUME NEW d \in Destinations \ foreign, d # "server", table[d] # NoVia PROVE d \in owned'
    <3>1. d \in owned \/ h.dst = d
      BY <2>1, <2>2 DEF RouteInv, Recorded, h
    <3> QED
      BY <1>5, <2>2, <3>1
  <2>3. ServerRecord' = ServerRecord
    <3>1. routes # "deleting" /\ routes' # "deleting"
      BY <1>1, <1>2
    <3> QED
      BY <1>1, <1>5, <1>6, <1>8, <3>1 DEF ServerRecord, h
  <2> QED
    BY <1>1, <1>8, <2>1, <2>2, <2>3 DEF RouteInv, Recorded
<1>12. Pinned'
  <2>1. Routing
    BY <1>2 DEF Routing
  <2> QED
    BY <1>1, <2>1 DEF RouteInv, Pinned
<1>13. OnTarget'
  <2>1. Routing
    BY <1>2 DEF Routing
  <2>2. server_route' # NoVia \/ "failed" \in excuse
    BY <1>4, <1>5, <1>6, <2>1, ViaFacts DEF RouteInv, OnTarget
  <2>3. ~changed /\ uplinks # <<>> /\ "failed" \notin excuse => Head(uplinks) = server_route'
    BY <1>5, <1>6, <2>1 DEF RouteInv, OnTarget, h
  <2> QED
    BY <1>1, <1>8, <2>2, <2>3 DEF OnTarget
<1>14. NoRouteLeft'
  BY <1>1, <1>2 DEF NoRouteLeft
<1> QED
  BY <1>9, <1>10, <1>11, <1>12, <1>13, <1>14 DEF RouteInv

(* Dropping the inner manager takes every route but those the kernel      *)
(* refuses to delete and the one of the server where nobody has recorded   *)
(* it.                                                                     *)
LEMMA DropTakesAll ==
  ASSUME RouteInv, NEW refused \in SUBSET Destinations, DropInner(refused), routes # "gone",
         UNCHANGED <<routing_mode, uplinks, foreign, changed>>, excuse' \subseteq Excuses,
         applied \/ routes = "deleting" => ServerNext /\ "cut" \in excuse'
  PROVE  RouteInv'
<1>1. /\ table' = Cleanup(refused) /\ stuck' = stuck \cup (Deletes \cap refused)
      /\ owned' = {} /\ server_route' = NoVia /\ taken' = NoVia
      /\ todo' = <<>> /\ applied' = FALSE /\ routes' = "gone"
  BY DEF DropInner
<1>2. \A d \in Destinations : table'[d] = IF d \in Deletes \ refused THEN NoVia ELSE table[d]
  BY <1>1 DEF Cleanup
<1>3. table' \in [Destinations -> Vias] /\ table'["server"] # Tun
  BY <1>1, ViaFacts DEF Cleanup, RouteInv, RouteTyped, Vias
<1>4. todo' \in Seq(Items) /\ Len(todo') = 0 /\ ~ServerNext'
  BY <1>1, EmptySeq DEF ServerNext
<1>5. RouteTyped'
  <2>1. server_route' \in Gateways \cup {NoVia} /\ owned' \subseteq Destinations \ {"server"} /\ taken' \in Gateways \cup {NoVia}
    BY <1>1
  <2>2. routes' \in RouteStates /\ applied' \in BOOLEAN
    BY <1>1 DEF RouteStates
  <2>3. Len(todo') <= 4
    BY <1>4
  <2>4. stuck' \subseteq Destinations
    BY <1>1 DEF RouteInv, RouteTyped
  <2> QED
    BY <1>3, <1>4, <2>1, <2>2, <2>3, <2>4 DEF RouteInv, RouteTyped
<1>6. Shape'
  BY <1>1, <1>4 DEF Shape
<1>7. Recorded' /\ Pinned' /\ OnTarget'
  BY <1>1 DEF Recorded, Pinned, OnTarget, Routing
<1>8. NoRouteLeft'
  <2>1. ASSUME NEW d \in Deletes PROVE table'[d] = NoVia \/ d \in stuck'
    BY <1>1, <1>2 DEF Deletes
  <2>2. ASSUME NEW d \in Destinations \ foreign, d # "server" PROVE table'[d] = NoVia \/ d \in stuck'
    <3>1. table[d] = NoVia \/ d \in owned
      BY <2>2 DEF RouteInv, Recorded, ServerNext
    <3>2. CASE table[d] = NoVia
      BY <1>2, <3>2
    <3>3. CASE d \in owned
      BY <2>1, <3>3 DEF Deletes
    <3> QED
      BY <3>1, <3>2, <3>3
  <2>3. table'["server"] = NoVia \/ "server" \in stuck' \/ "cut" \in excuse'
    <3>1. CASE applied \/ routes = "deleting"
      BY <3>1
    <3>2. CASE ~applied /\ routes # "deleting"
      <4>1. table["server"] = NoVia \/ table["server"] = server_route \/ "server" \in stuck
        BY <3>2 DEF RouteInv, Recorded, ServerRecord
      <4>2. CASE table["server"] = NoVia
        BY <1>2, <4>2, ViaFacts
      <4>3. CASE table["server"] = server_route
        BY <2>1, <4>3, ViaFacts DEF Deletes
      <4>4. CASE "server" \in stuck
        BY <1>1, <4>4
      <4> QED
        BY <4>1, <4>2, <4>3, <4>4
    <3> QED
      BY <3>1, <3>2
  <2> QED
    BY <1>1, <2>2, <2>3 DEF NoRouteLeft
<1> QED
  BY <1>5, <1>6, <1>7, <1>8 DEF RouteInv

LEMMA RouteAddFails == ASSUME RouteInv, NEW refused \in SUBSET Destinations, AddFails(refused) PROVE RouteInv'
<1>1. todo # <<>> /\ ~applied /\ UNCHANGED <<routing_mode, uplinks, foreign, changed, updates>>
  BY DEF AddFails
<1>2. CASE routes = "installing" /\ FailInstall(refused) /\ UNCHANGED excuse
  <2>1. excuse' \subseteq Excuses
    BY <1>2 DEF RouteInv, RouteTyped
  <2>2. DropInner(refused) /\ routes # "gone" /\ routes # "deleting"
    BY <1>2 DEF FailInstall
  <2> QED
    BY <1>1, <2>1, <2>2, DropTakesAll
<1>3. CASE /\ routes = "replacing"
           /\ routes' = "idle" /\ todo' = <<>> /\ excuse' = excuse \cup {"failed"}
           /\ UNCHANGED <<table, server_route, taken, owned, applied, stuck>>
  <2>1. routing_mode # "noexec" /\ ServerNext /\ server_route = NoVia
    BY <1>1, <1>3 DEF RouteInv, Shape
  <2>2. todo' \in Seq(Items) /\ Len(todo') = 0 /\ ~ServerNext'
    BY <1>3, EmptySeq DEF ServerNext
  <2>3. RouteTyped'
    <3>1. excuse' \subseteq Excuses
      BY <1>3 DEF RouteInv, RouteTyped, Excuses
    <3>2. Len(todo') <= 4 /\ routes' \in RouteStates
      BY <1>3, <2>2 DEF RouteStates
    <3> QED
      BY <1>1, <1>3, <2>2, <3>1, <3>2 DEF RouteInv, RouteTyped
  <2>4. Shape'
    BY <1>1, <1>3, <2>1, <2>2 DEF Shape
  <2>5. Recorded'
    <3>1. ServerRecord' = ServerRecord
      BY <1>1, <1>3 DEF ServerRecord
    <3>2. routes # "gone"
      BY <1>3
    <3>3. \A d \in Destinations \ foreign : d # "server" /\ table[d] # NoVia => d \in owned
      BY <1>1, <3>2 DEF RouteInv, Recorded
    <3>4. table["server"] # NoVia => table["server"] = ServerRecord \/ "server" \in stuck
      BY <3>2 DEF RouteInv, Recorded
    <3> QED
      BY <1>1, <1>3, <3>1, <3>3, <3>4 DEF Recorded
  <2>6. Pinned' /\ OnTarget'
    BY <1>3 DEF Pinned, OnTarget
  <2>7. NoRouteLeft'
    BY <1>3 DEF NoRouteLeft
  <2> QED
    BY <2>3, <2>4, <2>5, <2>6, <2>7 DEF RouteInv
<1> QED
  BY <1>2, <1>3 DEF AddFails

LEMMA RouteRouteEvent == ASSUME RouteInv, RouteEvent PROVE RouteInv'
<1>1. /\ routes = "idle" /\ changed' = FALSE
      /\ UNCHANGED <<routing_mode, table, uplinks, applied, owned, foreign, updates, excuse, stuck>>
  BY DEF RouteEvent
<1>2. todo = <<>> /\ ~applied /\ ~ServerNext
  BY <1>1 DEF RouteInv, Shape, ServerNext
<1>3. CASE ~Replaces
  <2>1. UNCHANGED <<routes, server_route, taken, todo>> /\ ~ServerNext'
    BY <1>2, <1>3 DEF RouteEvent, ServerNext
  <2>2. RouteTyped' /\ NoRouteLeft'
    BY <1>1, <2>1 DEF RouteInv, RouteTyped, NoRouteLeft
  <2>3. Shape'
    BY <1>1, <1>2, <2>1 DEF RouteInv, Shape
  <2>4. Recorded'
    BY <1>1, <1>2, <2>1 DEF RouteInv, Recorded, ServerRecord
  <2>5. Pinned'
    BY <1>1, <1>2, <2>1 DEF RouteInv, Pinned, Routing
  <2>6. OnTarget'
    BY <1>1, <1>2, <1>3, <2>1 DEF RouteInv, OnTarget, Routing, Replaces, find_best_default_route
  <2> QED
    BY <2>2, <2>3, <2>4, <2>5, <2>6 DEF RouteInv
<1>4. CASE Replaces
  <2> DEFINE r == [dst |-> "server", via |-> Head(uplinks)]
  <2>1. /\ routing_mode # "noexec" /\ routes' = "deleting" /\ taken' = server_route /\ server_route' = NoVia
        /\ todo' = <<r>>
    BY <1>4 DEF RouteEvent, Replaces, find_best_default_route
  <2>2. Head(uplinks) \in Gateways
    BY <1>4, HeadTailProperties DEF RouteInv, RouteTyped, Replaces
  <2>3. r \in Items /\ r.dst = "server" /\ r.via = Head(uplinks)
    BY <2>2 DEF Items
  <2> HIDE DEF r
  <2>4. todo' \in Seq(Items) /\ Len(todo') = 1 /\ todo' # <<>> /\ Head(todo') = r
    BY <2>1, <2>3
  <2>5. ServerNext' /\ Head(todo').via = Head(uplinks)
    BY <2>3, <2>4 DEF ServerNext
  <2>6. RouteTyped'
    <3>1. server_route' \in Gateways \cup {NoVia} /\ routes' \in RouteStates /\ taken' \in Gateways \cup {NoVia}
      BY <2>1 DEF RouteStates, RouteInv, RouteTyped
    <3>2. Len(todo') <= 4
      BY <2>4
    <3> QED
      BY <1>1, <2>4, <3>1, <3>2 DEF RouteInv, RouteTyped
  <2>7. Shape'
    <3>1. \A i \in 2..Len(todo') : todo'[i].dst # "server"
      BY <2>4
    <3> QED
      BY <1>1, <1>2, <2>1, <2>4, <2>5, <3>1 DEF Shape
  <2>8. Recorded'
    <3>1. ServerRecord' = ServerRecord
      BY <1>1, <1>2, <2>1 DEF ServerRecord
    <3> QED
      BY <1>1, <1>2, <3>1 DEF RouteInv, Recorded
  <2>9. Pinned'
    <3>1. Routing
      BY <1>1, <2>1 DEF Routing
    <3> QED
      BY <1>1, <1>2, <3>1 DEF RouteInv, Pinned
  <2>10. OnTarget'
    BY <1>1, <2>5 DEF OnTarget
  <2>11. NoRouteLeft'
    BY <2>1 DEF NoRouteLeft
  <2> QED
    BY <2>6, <2>7, <2>8, <2>9, <2>10, <2>11 DEF RouteInv
<1> QED
  BY <1>3, <1>4

LEMMA RouteOldDeleted == ASSUME RouteInv, NEW ok \in BOOLEAN, OldDeleted(ok) PROVE RouteInv'
<1> DEFINE there == table["server"] = taken /\ taken # NoVia
<1>1. /\ routes = "deleting" /\ routes' = "replacing" /\ taken' = NoVia
      /\ table' = IF ok /\ there THEN [table EXCEPT !["server"] = NoVia] ELSE table
      /\ stuck' = IF ~there THEN stuck ELSE IF ok THEN stuck \ {"server"} ELSE stuck \cup {"server"}
      /\ UNCHANGED <<routing_mode, uplinks, todo, applied, server_route, owned, foreign, changed, updates, excuse>>
  BY DEF OldDeleted
<1>2. ~applied /\ ServerNext /\ server_route = NoVia /\ Len(todo) = 1 /\ routing_mode # "noexec"
  BY <1>1 DEF RouteInv, Shape
<1>3. ServerNext' /\ ~applied'
  BY <1>1, <1>2 DEF ServerNext
<1>4. table \in [Destinations -> Vias] /\ table["server"] # Tun
  BY DEF RouteInv, RouteTyped
<1>5. /\ table' \in [Destinations -> Vias] /\ table'["server"] \in {table["server"], NoVia}
      /\ \A d \in Destinations : d # "server" => table'[d] = table[d]
      /\ ok /\ there => table'["server"] = NoVia
      /\ ~ok \/ ~there => table'["server"] = table["server"]
  BY <1>1, <1>4, ViaFacts DEF Vias
<1>6. table["server"] = NoVia \/ there \/ "server" \in stuck
  BY <1>1, <1>2 DEF RouteInv, Recorded, ServerRecord
<1> HIDE DEF there
<1>7. RouteTyped'
  <2>1. routes' \in RouteStates /\ taken' \in Gateways \cup {NoVia} /\ table'["server"] # Tun
    BY <1>1, <1>4, <1>5, ViaFacts DEF RouteStates
  <2>2. stuck' \subseteq Destinations
    BY <1>1, ViaFacts DEF RouteInv, RouteTyped
  <2> QED
    BY <1>1, <1>5, <2>1, <2>2 DEF RouteInv, RouteTyped
<1>8. Shape'
  BY <1>1, <1>2, <1>3 DEF RouteInv, Shape
<1>9. Recorded'
  <2>1. \A d \in Destinations \ foreign : d # "server" /\ table'[d] # NoVia => d \in owned
    BY <1>1, <1>2, <1>5 DEF RouteInv, Recorded
  <2>2. table'["server"] = NoVia \/ "server" \in stuck'
    BY <1>1, <1>5, <1>6
  <2> QED
    BY <1>1, <2>1, <2>2 DEF Recorded
<1>10. Pinned'
  BY <1>1, <1>3 DEF Pinned
<1>11. OnTarget'
  BY <1>1, <1>2, <1>3 DEF RouteInv, OnTarget, Routing
<1>12. NoRouteLeft'
  BY <1>1 DEF NoRouteLeft
<1> QED
  BY <1>7, <1>8, <1>9, <1>10, <1>11, <1>12 DEF RouteInv

LEMMA RouteAbort == ASSUME RouteInv, NEW refused \in SUBSET Destinations, Abort(refused) PROVE RouteInv'
<1>1. /\ routes \in {"idle", "deleting", "replacing"} /\ DropInner(refused)
      /\ UNCHANGED <<routing_mode, uplinks, foreign, changed, updates>>
  BY DEF Abort
<1>2. excuse' \subseteq Excuses /\ (applied \/ routes = "deleting" => "cut" \in excuse')
  BY DEF Abort, RouteInv, RouteTyped, Excuses
<1>3. applied \/ routes = "deleting" => ServerNext
  BY <1>1 DEF RouteInv, Shape
<1> QED
  BY <1>1, <1>2, <1>3, DropTakesAll

LEMMA RouteUplinksChange == ASSUME RouteInv, NEW order \in Orders, UplinksChange(order) PROVE RouteInv'
<1>1. /\ uplinks' = order /\ changed' = TRUE
      /\ UNCHANGED <<routing_mode, todo, applied, server_route, taken, owned, foreign, routes>>
      /\ table' = [d \in Destinations |-> IF table[d] \in Gateways \ ToSet(order) THEN NoVia ELSE table[d]]
      /\ excuse' = IF table'["server"] # table["server"] THEN excuse \cup {"lost"} ELSE excuse
      /\ stuck' = {d \in stuck : table'[d] # NoVia}
  BY DEF UplinksChange
<1>2. \A d \in Destinations : table'[d] = NoVia \/ table'[d] = table[d]
  BY <1>1
<1>3. table' \in [Destinations -> Vias]
  BY <1>1 DEF RouteInv, RouteTyped, Vias
<1>4. (ServerNext' <=> ServerNext) /\ ServerRecord' = ServerRecord
  BY <1>1 DEF ServerNext, ServerRecord
<1>5. RouteTyped'
  <2>1. uplinks' \in Seq(Gateways) /\ excuse' \subseteq Excuses
    BY <1>1, OrderFacts DEF RouteInv, RouteTyped, Excuses
  <2>2. stuck' \subseteq Destinations /\ table'["server"] # Tun
    BY <1>1, <1>2, ViaFacts DEF RouteInv, RouteTyped
  <2> QED
    BY <1>1, <1>3, <2>1, <2>2 DEF RouteInv, RouteTyped
<1>6. Shape'
  BY <1>1, <1>4 DEF RouteInv, Shape
<1>7. Recorded'
  <2>1. table'["server"] = NoVia \/ table'["server"] = table["server"]
    BY <1>2, ViaFacts
  <2> QED
    BY <1>1, <1>2, <1>4, <2>1 DEF RouteInv, Recorded
<1>8. Pinned'
  BY <1>1, <1>4 DEF RouteInv, Pinned, Routing
<1>9. OnTarget'
  BY <1>1, <1>4 DEF RouteInv, OnTarget, Routing
<1>10. NoRouteLeft'
  BY <1>1, <1>2 DEF RouteInv, NoRouteLeft
<1> QED
  BY <1>5, <1>6, <1>7, <1>8, <1>9, <1>10 DEF RouteInv

LEMMA RouteInvNext == ASSUME RouteInv, [RouteNext]_routeVars PROVE RouteInv'
<1>1. CASE UNCHANGED routeVars
  BY <1>1 DEF routeVars, RouteInv, RouteTyped, Shape, Recorded, Pinned, OnTarget, NoRouteLeft, Routing, ServerNext, ServerRecord
<1> QED
  BY <1>1, RouteStart, RouteKernelAdds, RouteRouteAdded, RouteAddFails, RouteRouteEvent, RouteOldDeleted, RouteAbort,
     RouteUplinksChange
  DEF RouteNext

LEMMA RouteInvSafe == RouteInv => RoutesSafe
<1> SUFFICES ASSUME RouteInv PROVE RoutesSafe
  OBVIOUS
<1>1. TunnelNotNested
  <2> SUFFICES ASSUME table["halves"] = Tun, routes # "replacing", excuse \cap {"failed", "lost"} = {},
                      "halves" \notin stuck
               PROVE  table["server"] \in Gateways
    BY DEF TunnelNotNested
  <2>1. "halves" \in Destinations \ foreign /\ table["halves"] # NoVia
    BY ViaFacts DEF RouteInv, RouteTyped
  <2>2. routes # "gone"
    BY <2>1 DEF RouteInv, NoRouteLeft
  <2>3. "halves" \in owned \/ (applied /\ Head(todo).dst = "halves")
    BY <2>1, <2>2 DEF RouteInv, Recorded
  <2>4. Routing /\ (ServerNext => routes = "deleting")
    <3>1. routes \in {"installing", "idle", "deleting"}
      BY <2>2, <2>3 DEF RouteInv, RouteTyped, RouteStates, Shape
    <3>2. routing_mode # "noexec"
      BY <2>3 DEF RouteInv, Shape
    <3>3. ServerNext => routes = "deleting"
      BY <2>3, <3>1, EmptyIsNoServer DEF RouteInv, Shape, ServerNext
    <3> QED
      BY <3>1, <3>2, <3>3 DEF Routing
  <2> QED
    BY <2>4 DEF RouteInv, Pinned
<1>2. ServerPinned
  <2> SUFFICES ASSUME routes = "idle", ~changed, routing_mode # "noexec", uplinks # <<>>, excuse = {},
                      "server" \notin stuck
               PROVE  table["server"] = Head(uplinks)
    BY DEF ServerPinned
  <2>1. Routing /\ ~ServerNext /\ ~applied
    BY EmptyIsNoServer DEF RouteInv, Shape, Routing
  <2>2. table["server"] \in Gateways
    BY <2>1 DEF RouteInv, Pinned
  <2>3. table["server"] = server_route
    BY <2>1, <2>2, ViaFacts DEF RouteInv, Recorded, ServerRecord
  <2> QED
    BY <2>1, <2>3 DEF RouteInv, OnTarget
<1>3. RouteTypeOK
  BY DEF RouteInv, RouteTyped, RouteTypeOK
<1> QED
  BY <1>1, <1>2, <1>3 DEF RoutesSafe, RouteInv

(* Whatever order the uplinks change in, whichever add or delete the kernel*)
(* refuses and at whichever await the task is aborted, the route manager   *)
(* leaves no route behind but those the kernel refused to delete and the   *)
(* server's where the abort found it unrecorded; it never sends the tunnel *)
(* into itself outside the excused moments, and ends each event with the   *)
(* server on the best uplink if no add failed and no older route stayed    *)
(* (install_routes, check_and_update_server_route and cleanup_sync of      *)
(* route_manager.rs).                                                      *)
THEOREM RoutesAreSafe == RouteSpec => []RoutesSafe
<1>1. RouteInit => RouteInv
  BY RouteInvInit
<1>2. RouteInv /\ [RouteNext]_routeVars => RouteInv'
  BY RouteInvNext
<1>3. RouteInv => RoutesSafe
  BY RouteInvSafe
<1> QED
  BY <1>1, <1>2, <1>3, PTL DEF RouteSpec

-----------------------------------------------------------------------------
(* The client as the runs compose it: every part starts in an initial      *)
(* state of its own, and a step of the whole is a step of one part.        *)
LEMMA PartsInit == Init => SelectInit /\ TaskInit /\ UdpInit /\ RouteInit /\ DnsInit /\ MonitorInit /\ MobileInit
BY DEF Init, SelectRest, TaskRest, UdpRest, RouteRest, DnsRest, MonitorRest, MobileRest

LEMMA PartsNext ==
  [Next]_vars => /\ [SelectNext]_selectVars /\ [TaskNext]_taskVars /\ [UdpNext]_udpVars
                 /\ [RouteNext]_routeVars /\ [DnsNext]_dnsVars
<1> SUFFICES ASSUME [Next]_vars
             PROVE  /\ [SelectNext]_selectVars /\ [TaskNext]_taskVars /\ [UdpNext]_udpVars
                    /\ [RouteNext]_routeVars /\ [DnsNext]_dnsVars
  OBVIOUS
<1>1. CASE UNCHANGED vars
  BY <1>1 DEF vars
<1>2. CASE Next
  <2>1. \/ SelectOnly /\ SelectNext
        \/ TaskOnly /\ TaskNext
        \/ UdpOnly /\ UdpNext
        \/ RouteOnly /\ RouteNext
        \/ DnsOnly /\ DnsNext
        \/ MonitorOnly
        \/ MobileOnly
    BY <1>2, Zenon DEF Next, SelectNext, TaskNext, UdpNext, RouteNext, DnsNext
  <2> QED
    BY <2>1, Zenon DEF SelectOnly, TaskOnly, UdpOnly, RouteOnly, DnsOnly, MonitorOnly, MobileOnly
<1> QED
  BY <1>1, <1>2

(* Routes and resolver together, in the client as a whole: what it changes *)
(* on its host it gives back, through failures, aborts at every await and  *)
(* crashes, but for deletes the kernel refused, the server's route where   *)
(* the abort found it unrecorded, and what the host refused or other       *)
(* programs raced (route_manager.rs, dns_manager.rs).                      *)
THEOREM HostIsRestored == Spec => []HostRestored
<1>1. Init => RouteInv /\ DnsInv
  BY PartsInit, RouteInvInit, DnsInvInit
<1>2. RouteInv /\ DnsInv /\ [Next]_vars => RouteInv' /\ DnsInv'
  BY PartsNext, RouteInvNext, DnsInvNext
<1>3. RouteInv /\ DnsInv => HostRestored
  BY RouteInvSafe, DnsInvSafe DEF HostRestored
<1> QED
  BY <1>1, <1>2, <1>3, PTL DEF Spec

-----------------------------------------------------------------------------
(* The mobile client.  Until an endpoint is chosen, what is dropped has    *)
(* failed and is counted; from then on, what is open besides the chosen    *)
(* one is in the cleanup's hands or was made behind its back.              *)
Opened == {"handshake", "online"}
Places == {"task", "pending", "deferred", "active", "cleanup", "dropped"}

MobileTyped ==
  /\ mtask \in [Endpoints -> {"running", "made", "failed", "taken", "aborted"}]
  /\ mconn \in [Endpoints -> {"none", "handshake", "online", "closed"} \cup Ended]
  /\ place \in [Endpoints -> Places] /\ signals \in Seq(Endpoints)
  /\ session \in {"selecting", "running", "returned", "error"}
  /\ failed_connections \in 0 .. NoEndpoint
Unmade ==
  \A s \in Endpoints :
    /\ mtask[s] \in {"running", "failed", "aborted"} => mconn[s] = "none"
    /\ place[s] = "task" <=> mtask[s] # "taken"
Counting ==
  /\ failed_connections = Cardinality(Held("dropped")) /\ session \in {"selecting", "returned", "error"}
  /\ session = "error" => failed_connections = NoEndpoint
  /\ \A s \in Endpoints : /\ place[s] \in {"task", "pending", "deferred", "dropped"} /\ mtask[s] # "aborted"
                          /\ place[s] = "dropped" => mconn[s] \in Ended \cup {"none"}
Counted == active = NoEndpoint => Counting
Swept ==
  active # NoEndpoint =>
    /\ active \in Endpoints /\ place[active] = "active" /\ session # "selecting"
    /\ abort_handles \in {{}, Endpoints \ {active}}
    /\ \A s \in Endpoints \ {active} :
         /\ mtask[s] = "running" /\ session = "running" => s \in abort_handles
         /\ mconn[s] \in Opened /\ session = "running" => place[s] = "cleanup" \/ s \in late

MobileInv == MobileTyped /\ Unmade /\ Counted /\ Swept

(* The least of a set of numbers, without induction: the intervals up to   *)
(* its members are finite sets, among which one has no proper subset.      *)
LEMMA MinIsLeast ==
  ASSUME NEW K \in SUBSET Nat, K # {}
  PROVE  Min(K) \in K /\ \A k \in K : Min(K) <= k
<1> DEFINE T == {0..k : k \in K}
<1>1. T \subseteq FiniteSubsetsOf(Nat)
  <2>1. \A k \in K : IsFiniteSet(0..k) /\ 0..k \subseteq Nat
    BY FS_Interval
  <2> QED
    BY <2>1 DEF FiniteSubsetsOf
<1>2. T # {}
  OBVIOUS
<1>3. PICK x \in T : \A y \in T : <<y, x>> \notin StrictSubsetOrdering(Nat)
  BY <1>1, <1>2, FS_StrictSubsetOrderingWellFounded, WFMin
<1>4. PICK m \in K : x = 0..m
  OBVIOUS
<1>5. ASSUME NEW k \in K PROVE m <= k
  <2> SUFFICES ASSUME k < m PROVE FALSE
    OBVIOUS
  <2>1. 0..k \in SUBSET Nat /\ 0..m \in SUBSET Nat /\ 0..k \subseteq 0..m /\ m \in 0..m /\ m \notin 0..k
    OBVIOUS
  <2>2. <<0..k, 0..m>> \in StrictSubsetOrdering(Nat)
    BY <2>1 DEF StrictSubsetOrdering
  <2> QED
    BY <1>3, <1>4, <2>2
<1> QED
  BY <1>5 DEF Min

LEMMA EndpointFacts ==
  /\ NoEndpoint \in Nat /\ NoEndpoint \notin Endpoints /\ Endpoints \subseteq Nat /\ NoEndpoint # 0
  /\ \A s \in Endpoints : s \in 0 .. NoEndpoint
  /\ \A p : IsFiniteSet(Held(p)) /\ Cardinality(Held(p)) \in Nat /\ Held(p) \in SUBSET Endpoints
<1>1. NoEndpoint \in Nat /\ NoEndpoint # 0
  BY EndpointsAssumption, FS_CardinalityType, FS_EmptySet DEF NoEndpoint
<1>2. \A p : IsFiniteSet(Held(p)) /\ Cardinality(Held(p)) \in Nat /\ Held(p) \in SUBSET Endpoints
  <2> SUFFICES ASSUME NEW p PROVE IsFiniteSet(Held(p)) /\ Cardinality(Held(p)) \in Nat /\ Held(p) \in SUBSET Endpoints
    OBVIOUS
  <2>1. Held(p) \in SUBSET Endpoints
    BY DEF Held
  <2>2. IsFiniteSet(Held(p))
    BY <2>1, EndpointsAssumption, FS_Subset
  <2> QED
    BY <2>1, <2>2, FS_CardinalityType
<1>3. Endpoints = 0 .. NoEndpoint - 1
  BY EndpointsAssumption DEF NoEndpoint
<1> QED
  BY <1>1, <1>2, <1>3

LEMMA MobileInvInit == MobileInit => MobileInv
<1> SUFFICES ASSUME MobileInit PROVE MobileInv
  OBVIOUS
<1>1. Held("dropped") = {} /\ Cardinality(Held("dropped")) = 0
  <2>1. Held("dropped") = {}
    BY DEF Held, MobileInit
  <2> QED
    BY <2>1, FS_EmptySet
<1>2. MobileTyped
  <2>1. signals \in Seq(Endpoints)
    BY EmptySeq DEF MobileInit
  <2>2. failed_connections \in 0 .. NoEndpoint
    BY EndpointFacts DEF MobileInit
  <2> QED
    BY <2>1, <2>2 DEF MobileTyped, MobileInit, Places
<1>3. Unmade /\ Swept
  BY DEF Unmade, Swept, MobileInit
<1>4. Counted
  BY <1>1 DEF Counted, Counting, MobileInit
<1> QED
  BY <1>2, <1>3, <1>4 DEF MobileInv

LEMMA MobileConnectKeeps ==
  ASSUME MobileInv, NEW s \in Endpoints, NEW ok \in BOOLEAN, lightway_client_connect(s, ok)
  PROVE  MobileInv'
<1>1. /\ mtask[s] = "running" /\ mtask' = [mtask EXCEPT ![s] = IF ok THEN "made" ELSE "failed"]
      /\ mconn' = [mconn EXCEPT ![s] = IF ok THEN "handshake" ELSE @]
      /\ late' = IF session = "running" /\ abort_handles # {} THEN late \cup {s} ELSE late
      /\ UNCHANGED <<place, signals, failed_connections, active, session, abort_handles>>
  BY DEF lightway_client_connect
<1>2. \A t \in Endpoints : t # s => mtask'[t] = mtask[t] /\ mconn'[t] = mconn[t]
  BY <1>1 DEF MobileInv, MobileTyped
<1>3. mtask'[s] \in {"made", "failed"} /\ (mtask'[s] = "failed" => mconn'[s] = mconn[s])
  BY <1>1 DEF MobileInv, MobileTyped
<1>4. MobileTyped'
  BY <1>1 DEF MobileInv, MobileTyped
<1>5. Unmade'
  BY <1>1, <1>2, <1>3 DEF MobileInv, Unmade
<1>6. place[s] = "task"
  BY <1>1 DEF MobileInv, Unmade
<1>7. Counted'
  <2>1. Held("dropped")' = Held("dropped")
    BY <1>1 DEF Held
  <2>2. ASSUME active = NoEndpoint PROVE Counting'
    <3>1. Counting
      BY <2>2 DEF MobileInv, Counted
    <3> QED
      BY <1>1, <1>2, <1>3, <1>6, <2>1, <3>1 DEF Counting
  <2> QED
    BY <1>1, <2>2 DEF Counted
<1>8. Swept'
  <2> SUFFICES ASSUME active # NoEndpoint PROVE Swept'
    BY <1>1 DEF Swept
  <2>1. /\ active \in Endpoints /\ place[active] = "active" /\ session # "selecting"
        /\ abort_handles \in {{}, Endpoints \ {active}}
    BY DEF MobileInv, Swept
  <2>2. ASSUME NEW t \in Endpoints \ {active}, session = "running"
        PROVE  /\ mtask'[t] = "running" => t \in abort_handles
               /\ mconn'[t] \in Opened => place[t] = "cleanup" \/ t \in late'
    <3>1. CASE t = s
      <4>1. t \in late'
        BY <1>1, <2>2, <3>1 DEF MobileInv, Swept
      <4> QED
        BY <1>3, <3>1, <4>1
    <3>2. CASE t # s
      BY <1>1, <1>2, <2>2, <3>2 DEF MobileInv, Swept
    <3> QED
      BY <3>1, <3>2
  <2> QED
    BY <1>1, <2>1, <2>2 DEF Swept
<1> QED
  BY <1>4, <1>5, <1>7, <1>8 DEF MobileInv

(* A connection comes online or ends; what was not open stays so.          *)
LEMMA ConnectionMoves ==
  ASSUME MobileInv, NEW s \in Endpoints, NEW v \in {"online"} \cup Ended, mconn[s] \in Opened,
         mconn' = [mconn EXCEPT ![s] = v], signals' \in Seq(Endpoints),
         UNCHANGED <<mtask, place, failed_connections, active, session, abort_handles, late>>
  PROVE  MobileInv'
<1>1. /\ mconn'[s] = v
      /\ \A t \in Endpoints : t # s => mconn'[t] = mconn[t]
  BY DEF MobileInv, MobileTyped
<1>2. mconn[s] \notin Ended \cup {"none"}
  BY DEF Opened, Ended
<1>3. MobileTyped'
  BY DEF MobileInv, MobileTyped
<1>4. Unmade'
  BY <1>1, <1>2 DEF MobileInv, Unmade
<1>5. Counted'
  <2>1. Held("dropped")' = Held("dropped")
    BY DEF Held
  <2>2. ASSUME active = NoEndpoint PROVE Counting'
    <3>1. Counting
      BY <2>2 DEF MobileInv, Counted
    <3> QED
      BY <1>1, <1>2, <2>1, <3>1 DEF Counting
  <2> QED
    BY <2>2 DEF Counted
<1>6. Swept'
  BY <1>1 DEF MobileInv, Swept
<1> QED
  BY <1>3, <1>4, <1>5, <1>6 DEF MobileInv

LEMMA MobileEvents ==
  ASSUME MobileInv, NEW s \in Endpoints, NEW why \in Ended, handle_online(s) \/ ConnectionEnds(s, why) \/ DeferTimeout
  PROVE  MobileInv'
<1>1. CASE handle_online(s)
  <2>1. signals' \in Seq(Endpoints)
    BY <1>1, AppendProperties DEF handle_online, MobileInv, MobileTyped
  <2> QED
    BY <1>1, <2>1, ConnectionMoves DEF handle_online, Opened
<1>2. CASE ConnectionEnds(s, why)
  <2>1. signals' \in Seq(Endpoints)
    BY <1>2 DEF ConnectionEnds, MobileInv, MobileTyped
  <2> QED
    BY <1>2, <2>1, ConnectionMoves DEF ConnectionEnds, Opened
<1>3. CASE DeferTimeout
  <2>1. UNCHANGED <<mtask, mconn, place, signals, failed_connections, active, session, abort_handles, late>>
    BY <1>3 DEF DeferTimeout
  <2> QED
    BY <2>1 DEF MobileInv, MobileTyped, Unmade, Counted, Counting, Swept, Held
<1> QED
  BY <1>1, <1>2, <1>3

LEMMA MobileAllFailed == ASSUME MobileInv, AllFailed PROVE MobileInv'
<1>1. /\ session = "selecting" /\ failed_connections = NoEndpoint /\ session' = "error"
      /\ UNCHANGED <<mtask, mconn, place, signals, failed_connections, active, abort_handles, late>>
  BY DEF AllFailed
<1>2. active = NoEndpoint /\ Counting
  BY <1>1 DEF MobileInv, Swept, Counted
<1>3. Held("dropped")' = Held("dropped")
  BY <1>1 DEF Held
<1>4. MobileTyped' /\ Unmade' /\ Swept'
  BY <1>1, <1>2 DEF MobileInv, MobileTyped, Unmade, Swept
<1>5. Counted'
  BY <1>1, <1>2, <1>3 DEF Counted, Counting
<1> QED
  BY <1>4, <1>5 DEF MobileInv

LEMMA MobileConnectCutShort == ASSUME MobileInv, ConnectCutShort PROVE MobileInv'
<1>1. /\ session = "selecting" /\ session' = "returned"
      /\ UNCHANGED <<mtask, mconn, place, signals, failed_connections, active, abort_handles, late>>
  BY DEF ConnectCutShort
<1>2. active = NoEndpoint /\ Counting
  BY <1>1 DEF MobileInv, Swept, Counted
<1>3. Held("dropped")' = Held("dropped")
  BY <1>1 DEF Held
<1>4. MobileTyped' /\ Unmade' /\ Swept'
  BY <1>1, <1>2 DEF MobileInv, MobileTyped, Unmade, Swept
<1>5. Counted'
  BY <1>1, <1>2, <1>3 DEF Counted, Counting
<1> QED
  BY <1>4, <1>5 DEF MobileInv

(* An endpoint that fails while the client selects is counted once.        *)
LEMMA OneMoreDropped ==
  ASSUME MobileInv, session = "selecting", NEW s \in Endpoints, place[s] # "dropped",
         place' = [place EXCEPT ![s] = "dropped"]
  PROVE  /\ Cardinality(Held("dropped")') = Cardinality(Held("dropped")) + 1
         /\ Cardinality(Held("dropped")) + 1 \in 0 .. NoEndpoint
<1>1. Held("dropped")' = Held("dropped") \cup {s} /\ s \notin Held("dropped")
  BY DEF Held, MobileInv, MobileTyped
<1>2. Cardinality(Held("dropped")') = Cardinality(Held("dropped")) + 1
  BY <1>1, EndpointFacts, FS_AddElement
<1>3. Held("dropped") \cup {s} \in SUBSET Endpoints
  BY EndpointFacts
<1>4. Cardinality(Held("dropped") \cup {s}) <= NoEndpoint
  BY <1>3, EndpointsAssumption, FS_Subset DEF NoEndpoint
<1>5. Cardinality(Held("dropped")) \in Nat /\ NoEndpoint \in Nat
  BY EndpointFacts
<1> QED
  BY <1>1, <1>2, <1>4, <1>5

LEMMA MobileTakeResult == ASSUME MobileInv, NEW s \in Endpoints, TakeResult(s) PROVE MobileInv'
<1>1. /\ session = "selecting" /\ mtask[s] \in {"made", "failed"} /\ mtask' = [mtask EXCEPT ![s] = "taken"]
      /\ place' = [place EXCEPT ![s] = IF mtask[s] = "made" THEN "pending" ELSE "dropped"]
      /\ failed_connections' = IF mtask[s] = "failed" THEN failed_connections + 1 ELSE failed_connections
      /\ UNCHANGED <<mconn, signals, active, session, abort_handles, late>>
  BY DEF TakeResult, Results, CountFailed
<1>2. active = NoEndpoint /\ Counting /\ place[s] = "task"
  BY <1>1 DEF MobileInv, Swept, Counted, Unmade
<1>3. /\ mtask'[s] = "taken" /\ place'[s] = IF mtask[s] = "made" THEN "pending" ELSE "dropped"
      /\ \A t \in Endpoints : t # s => mtask'[t] = mtask[t] /\ place'[t] = place[t]
  BY <1>1 DEF MobileInv, MobileTyped
<1>4. failed_connections' = Cardinality(Held("dropped")') /\ failed_connections' \in 0 .. NoEndpoint
  <2>1. CASE mtask[s] = "failed"
    <3>1. place' = [place EXCEPT ![s] = "dropped"] /\ place[s] # "dropped"
      BY <1>1, <1>2, <2>1
    <3> QED
      BY <1>1, <1>2, <2>1, <3>1, OneMoreDropped DEF Counting
  <2>2. CASE mtask[s] = "made"
    <3>1. Held("dropped")' = Held("dropped")
      BY <1>2, <1>3, <2>2 DEF Held
    <3> QED
      BY <1>1, <1>2, <2>2, <3>1 DEF Counting, MobileInv, MobileTyped
  <2> QED
    BY <1>1, <2>1, <2>2
<1>5. MobileTyped'
  BY <1>1, <1>4 DEF MobileInv, MobileTyped, Places
<1>6. Unmade'
  BY <1>1, <1>3 DEF MobileInv, Unmade
<1>7. Counted'
  <2>1. mtask[s] = "failed" => mconn[s] = "none"
    BY DEF MobileInv, Unmade
  <2> QED
    BY <1>1, <1>2, <1>3, <1>4, <2>1 DEF Counted, Counting
<1>8. Swept'
  BY <1>1, <1>2 DEF Swept
<1> QED
  BY <1>5, <1>6, <1>7, <1>8 DEF MobileInv

LEMMA MobileOutsideIoExit == ASSUME MobileInv, NEW s \in Endpoints, OutsideIoExit(s) PROVE MobileInv'
<1>1. /\ session = "selecting" /\ place[s] = "pending" /\ mconn[s] \in Ended
      /\ place' = [place EXCEPT ![s] = "dropped"] /\ failed_connections' = failed_connections + 1
      /\ UNCHANGED <<mtask, mconn, signals, active, session, abort_handles, late>>
  BY DEF OutsideIoExit, Exits, Held
<1>2. active = NoEndpoint /\ Counting
  BY <1>1 DEF MobileInv, Swept, Counted
<1>3. place'[s] = "dropped" /\ \A t \in Endpoints : t # s => place'[t] = place[t]
  BY <1>1 DEF MobileInv, MobileTyped
<1>4. failed_connections' = Cardinality(Held("dropped")') /\ failed_connections' \in 0 .. NoEndpoint
  BY <1>1, <1>2, OneMoreDropped DEF Counting
<1>5. MobileTyped'
  BY <1>1, <1>4 DEF MobileInv, MobileTyped, Places
<1>6. Unmade'
  BY <1>1, <1>3 DEF MobileInv, Unmade
<1>7. Counted'
  BY <1>1, <1>2, <1>3, <1>4 DEF Counted, Counting
<1>8. Swept'
  BY <1>1, <1>2 DEF Swept
<1> QED
  BY <1>5, <1>6, <1>7, <1>8 DEF MobileInv

(* The choice: with no result waiting, whatever is open is in the client's *)
(* hands and passes to the cleanup.                                        *)
LEMMA MobileUse ==
  ASSUME MobileInv, session = "selecting", Results = {}, NEW s \in Endpoints, Use(s), place[s] # "task"
  PROVE  MobileInv'
<1>1. /\ active' = s /\ session' = "running" /\ signals' = <<>> /\ abort_handles' = Endpoints \ {s}
      /\ place' = [t \in Endpoints |-> IF t = s THEN "active"
                                       ELSE IF place[t] \in {"pending", "deferred"} THEN "cleanup" ELSE place[t]]
      /\ UNCHANGED <<mtask, mconn, failed_connections, late>>
  BY DEF Use, OtherHandles
<1>2. active = NoEndpoint /\ Counting
  BY DEF MobileInv, Swept, Counted
<1>3. \A t \in Endpoints : mtask[t] \in {"running", "taken"}
  BY <1>2 DEF Counting, Results, MobileInv, MobileTyped
<1>4. MobileTyped'
  <2>1. signals' \in Seq(Endpoints)
    BY <1>1, EmptySeq
  <2>2. place' \in [Endpoints -> Places]
    BY <1>1 DEF MobileInv, MobileTyped, Places
  <2> QED
    BY <1>1, <2>1, <2>2 DEF MobileInv, MobileTyped
<1>5. Unmade'
  <2>1. \A t \in Endpoints : place'[t] = "task" <=> place[t] = "task"
    BY <1>1
  <2> QED
    BY <1>1, <2>1 DEF MobileInv, Unmade
<1>6. Counted'
  BY <1>1, EndpointFacts DEF Counted
<1>7. Swept'
  <2>1. ASSUME NEW t \in Endpoints \ {s}, mconn[t] \in Opened PROVE place'[t] = "cleanup"
    <3>1. mtask[t] = "taken" /\ place[t] # "task"
      BY <1>3, <2>1 DEF MobileInv, Unmade, Opened
    <3>2. place[t] \in {"pending", "deferred"}
      BY <1>2, <2>1, <3>1 DEF Counting, Opened, Ended
    <3> QED
      BY <1>1, <3>2
  <2>2. place'[s] = "active"
    BY <1>1
  <2> QED
    BY <1>1, <2>1, <2>2 DEF Swept
<1> QED
  BY <1>4, <1>5, <1>6, <1>7 DEF MobileInv

(* The select! goes round without a choice: an endpoint may be deferred.   *)
LEMMA MobileGoesRound ==
  ASSUME MobileInv, session = "selecting", signals' \in Seq(Endpoints),
         place' = place \/ \E s \in Endpoints : place[s] = "pending" /\ place' = [place EXCEPT ![s] = "deferred"],
         UNCHANGED <<mtask, mconn, failed_connections, active, session, abort_handles, late>>
  PROVE  MobileInv'
<1>1. active = NoEndpoint /\ Counting
  BY DEF MobileInv, Swept, Counted
<1>2. \A t \in Endpoints : place'[t] = place[t] \/ (place[t] = "pending" /\ place'[t] = "deferred")
  BY DEF MobileInv, MobileTyped
<1>3. Held("dropped")' = Held("dropped")
  BY <1>2 DEF Held
<1>4. MobileTyped'
  BY DEF MobileInv, MobileTyped, Places
<1>5. Unmade'
  BY <1>2 DEF MobileInv, Unmade
<1>6. Counted' /\ Swept'
  BY <1>1, <1>2, <1>3 DEF Counted, Counting, Swept
<1> QED
  BY <1>4, <1>5, <1>6 DEF MobileInv

LEMMA MobileDeferEnds == ASSUME MobileInv, DeferEnds PROVE MobileInv'
<1>1. session = "selecting" /\ Results = {}
  BY DEF DeferEnds
<1>2. CASE Held("deferred") # {}
  <2>1. BestDeferred \in Held("deferred")
    BY <1>2, EndpointFacts, MinIsLeast DEF BestDeferred
  <2>2. BestDeferred \in Endpoints /\ place[BestDeferred] # "task"
    BY <2>1 DEF Held
  <2> QED
    BY <1>1, <1>2, <2>2, MobileUse DEF DeferEnds
<1>3. CASE Held("deferred") = {}
  <2>1. UNCHANGED <<mtask, mconn, place, signals, failed_connections, active, session, abort_handles, late>>
    BY <1>3 DEF DeferEnds
  <2>2. signals' \in Seq(Endpoints)
    BY <2>1 DEF MobileInv, MobileTyped
  <2> QED
    BY <1>1, <2>1, <2>2, MobileGoesRound
<1> QED
  BY <1>2, <1>3

LEMMA MobileOnlineSignal == ASSUME MobileInv, OnlineSignal PROVE MobileInv'
<1> DEFINE s == Head(signals)
<1>1. session = "selecting" /\ Results = {} /\ signals # <<>>
  BY DEF OnlineSignal
<1>2. s \in Endpoints /\ Tail(signals) \in Seq(Endpoints)
  BY <1>1, HeadTailProperties DEF MobileInv, MobileTyped
<1>3. CASE place[s] = "pending" /\ (mtimer = "finished" \/ s = 0)
  <2>1. Use(s)
    BY <1>3 DEF OnlineSignal
  <2> QED
    BY <1>1, <1>2, <1>3, <2>1, MobileUse
<1>4. CASE ~(place[s] = "pending" /\ (mtimer = "finished" \/ s = 0))
  <2>1. /\ signals' = Tail(signals) /\ place' = [place EXCEPT ![s] = IF @ = "pending" THEN "deferred" ELSE @]
        /\ UNCHANGED <<mtask, mconn, failed_connections, active, session, abort_handles, late>>
    BY <1>4 DEF OnlineSignal
  <2> HIDE DEF s
  <2>2. place' = place \/ (place[s] = "pending" /\ place' = [place EXCEPT ![s] = "deferred"])
    BY <1>2, <2>1 DEF MobileInv, MobileTyped
  <2> QED
    BY <1>1, <1>2, <2>1, <2>2, MobileGoesRound
<1> QED
  BY <1>3, <1>4

LEMMA MobileCleanup ==
  ASSUME MobileInv, NEW s \in Endpoints, NEW ending \in {"returned", "error"},
         CleanupAborts \/ CleanupNext(s) \/ SessionEnds \/ SessionCutShort(ending)
  PROVE  MobileInv'
<1>1. session = "running" /\ active' = active /\ active # NoEndpoint
  BY DEF CleanupAborts, CleanupNext, SessionEnds, SessionCutShort, MobileInv, Counted, Counting
<1>2. active \in Endpoints /\ place[active] = "active" /\ abort_handles \in {{}, Endpoints \ {active}}
  BY <1>1 DEF MobileInv, Swept
<1>3. Counted'
  BY <1>1 DEF Counted
<1>4. CASE CleanupAborts
  <2>1. /\ mtask' = [t \in Endpoints |-> IF t \in abort_handles /\ mtask[t] = "running" THEN "aborted" ELSE mtask[t]]
        /\ abort_handles' = {}
        /\ UNCHANGED <<mconn, place, signals, failed_connections, session, late>>
    BY <1>4 DEF CleanupAborts
  <2>2. MobileTyped'
    BY <2>1 DEF MobileInv, MobileTyped
  <2>3. Unmade'
    BY <2>1 DEF MobileInv, Unmade
  <2>4. Swept'
    <3>1. ASSUME NEW t \in Endpoints \ {active} PROVE mtask'[t] # "running"
      BY <1>1, <2>1 DEF MobileInv, Swept
    <3> QED
      BY <1>1, <1>2, <2>1, <3>1 DEF MobileInv, Swept
  <2> QED
    BY <1>3, <2>2, <2>3, <2>4 DEF MobileInv
<1>5. CASE CleanupNext(s)
  <2>1. /\ place[s] = "cleanup" /\ place' = [place EXCEPT ![s] = "dropped"]
        /\ mconn' = [mconn EXCEPT ![s] = IF @ \in {"handshake", "online"} THEN "closed" ELSE @]
        /\ UNCHANGED <<mtask, signals, failed_connections, session, abort_handles, late>>
    BY <1>5 DEF CleanupNext
  <2>2. /\ place'[s] = "dropped" /\ mconn'[s] = IF mconn[s] \in {"handshake", "online"} THEN "closed" ELSE mconn[s]
        /\ \A t \in Endpoints : t # s => place'[t] = place[t] /\ mconn'[t] = mconn[t]
    BY <2>1 DEF MobileInv, MobileTyped
  <2>3. MobileTyped'
    BY <2>1 DEF MobileInv, MobileTyped, Places
  <2>4. Unmade'
    BY <2>1, <2>2 DEF MobileInv, Unmade
  <2>5. Swept'
    <3>1. s # active /\ mconn'[s] \notin Opened
      BY <1>2, <2>1, <2>2 DEF Opened
    <3> QED
      BY <1>1, <1>2, <2>1, <2>2, <3>1 DEF MobileInv, Swept
  <2> QED
    BY <1>3, <2>3, <2>4, <2>5 DEF MobileInv
<1>6. CASE SessionEnds \/ SessionCutShort(ending)
  <2>1. /\ session' \in {"returned", "error"}
        /\ UNCHANGED <<mtask, mconn, place, signals, failed_connections, abort_handles, late>>
    BY <1>6 DEF SessionEnds, SessionCutShort
  <2>2. MobileTyped' /\ Unmade'
    BY <2>1 DEF MobileInv, MobileTyped, Unmade
  <2>3. Swept'
    BY <1>1, <1>2, <2>1 DEF Swept
  <2> QED
    BY <1>3, <2>2, <2>3 DEF MobileInv
<1> QED
  BY <1>4, <1>5, <1>6

LEMMA MobileInvNext == MobileInv /\ [MobileNext]_mobileVars => MobileInv'
<1> SUFFICES ASSUME MobileInv, [MobileNext]_mobileVars PROVE MobileInv'
  OBVIOUS
<1>1. CASE UNCHANGED mobileVars
  BY <1>1 DEF mobileVars, MobileInv, MobileTyped, Unmade, Counted, Counting, Swept, Held
<1>2. CASE MobileNext
  <2>1. PICK t \in Endpoints : TRUE
    BY EndpointsAssumption
  <2>2. "io" \in Ended
    BY DEF Ended
  <2>3. CASE DeferTimeout \/ CleanupAborts \/ SessionEnds
    BY <2>1, <2>2, <2>3, MobileEvents, MobileCleanup
  <2>4. CASE \E s \in Endpoints : handle_online(s) \/ CleanupNext(s)
    BY <2>2, <2>4, MobileEvents, MobileCleanup
  <2>5. CASE \E ending \in {"returned", "error"} : SessionCutShort(ending)
    BY <2>1, <2>5, MobileCleanup
  <2> QED
    BY <1>2, <2>3, <2>4, <2>5, MobileConnectCutShort, MobileConnectKeeps, MobileEvents, MobileAllFailed, MobileTakeResult, MobileOutsideIoExit,
       MobileDeferEnds, MobileOnlineSignal, MobileCleanup DEF MobileNext
<1> QED
  BY <1>1, <1>2

LEMMA MobileInvSafe == MobileInv => MobileSafe
<1> SUFFICES ASSUME MobileInv PROVE MobileSafe
  OBVIOUS
<1>1. MobileTypeOK
  <2>1. active \in 0 .. NoEndpoint
    <3>1. active = NoEndpoint \/ active \in Endpoints
      BY DEF MobileInv, Swept
    <3>2. NoEndpoint \in 0 .. NoEndpoint
      BY EndpointFacts
    <3> QED
      BY <3>1, <3>2, EndpointFacts
  <2>2. session = "running" => place[active] = "active"
    BY DEF MobileInv, Swept, Counted, Counting
  <2>3. failed_connections \in 0 .. NoEndpoint
    BY DEF MobileInv, MobileTyped
  <2>4. /\ mtask \in [Endpoints -> {"running", "made", "failed", "taken", "aborted"}]
        /\ mconn \in [Endpoints -> {"none", "handshake", "online", "closed"} \cup Ended]
    BY DEF MobileInv, MobileTyped
  <2> QED
    BY <2>1, <2>2, <2>3, <2>4 DEF MobileTypeOK
<1>2. FailsOnlyAll
  <2> SUFFICES ASSUME session = "error", active = NoEndpoint, NEW s \in Endpoints
               PROVE  mtask[s] = "taken" /\ mconn[s] \in Ended \cup {"none"}
    BY DEF FailsOnlyAll
  <2>1. Counting /\ Cardinality(Held("dropped")) = Cardinality(Endpoints)
    BY DEF MobileInv, Counted, Counting, NoEndpoint
  <2>2. Held("dropped") = Endpoints
    BY <2>1, EndpointFacts, EndpointsAssumption, FS_Subset
  <2>3. place[s] = "dropped"
    BY <2>2 DEF Held
  <2> QED
    BY <2>1, <2>3 DEF Counting, MobileInv, Unmade
<1>3. OnlyOneOpen
  <2> SUFFICES ASSUME session = "running", Held("cleanup") = {}, NEW s \in Endpoints \ {active}, mconn[s] \in Opened
               PROVE  s \in late
    BY DEF OnlyOneOpen, Opened
  <2>1. active # NoEndpoint
    BY DEF MobileInv, Counted, Counting
  <2> QED
    BY <2>1 DEF MobileInv, Swept, Held
<1> QED
  BY <1>1, <1>2, <1>3 DEF MobileSafe

LEMMA MobileStep == [Next]_vars => [MobileNext]_mobileVars
<1>1. Next => (MobileOnly /\ MobileNext) \/ UNCHANGED mobileVars
  <2> SUFFICES ASSUME Next PROVE (MobileOnly /\ MobileNext) \/ UNCHANGED mobileVars
    OBVIOUS
  <2>1. \/ MobileOnly /\ MobileNext
        \/ SelectOnly \/ TaskOnly \/ UdpOnly \/ RouteOnly \/ DnsOnly \/ MonitorOnly
    BY Zenon DEF Next, MobileNext
  <2> QED
    BY <2>1 DEF SelectOnly, TaskOnly, UdpOnly, RouteOnly, DnsOnly, MonitorOnly
<1> QED
  BY <1>1 DEF vars

(* The choice, on desktop and mobile and for any number of servers: the    *)
(* chosen one was online; unless the timer branch was missed with a best in*)
(* hand, none preferred that was seen is passed over, and the selection    *)
(* fails only when none can come online; the mobile client fails only when *)
(* every endpoint has, and keeps one connection (find_best_connection,     *)
(* async_lightway_start).                                                  *)
THEOREM ChoiceIsSafe == Spec => []ChoiceSafe
<1>1. Init => SelectInv /\ MobileInv
  BY PartsInit, SelectInvInit, MobileInvInit
<1>2. SelectInv /\ MobileInv /\ [Next]_vars => SelectInv' /\ MobileInv'
  BY PartsNext, MobileStep, SelectInvNext, MobileInvNext
<1>3. SelectInv /\ MobileInv => ChoiceSafe
  BY MobileInvSafe DEF ChoiceSafe, SelectInv, SelectTyped, SelectSafe
<1> QED
  BY <1>1, <1>2, <1>3, PTL DEF Spec

-----------------------------------------------------------------------------
(* The network monitor.  An address event stands for a change of the host  *)
(* or for a misread, and a snapshot that is not the host's is owed one     *)
(* more; the detector remembers the last event of each kind since the last *)
(* transition.                                                             *)
Unwatched == {"none", "starting"}
Deaf == {"arming", "waiting", "sleeping", "backoff"}
Differs == listener \notin Unwatched /\ prev # relevant_addrs(addrs)
MonitorStates == {"none", "starting", "arming", "waiting", "reading", "sleeping", "backoff", "exited"}

ListenerTyped ==
  /\ platform \in {"linux", "macos", "windows"} /\ addrs \subseteq Addresses /\ prev \subseteq Addresses
  /\ listener \in MonitorStates /\ notified \in BOOLEAN /\ missed \in BOOLEAN
  /\ counted \in [changes : Nat, sent : Nat, misreads : Nat]
  /\ counted.changes <= MaxAddrChanges /\ counted.misreads <= MaxMisreads
  /\ addr_events \in Nat /\ addr_events <= counted.sent
Accounted == counted.sent + (IF Differs THEN 1 ELSE 0) <= counted.changes + 2 * counted.misreads
Current ==
  listener \in Deaf /\ ~notified /\ ~missed /\ counted.misreads = 0 => prev = relevant_addrs(addrs)

DetectorTyped ==
  /\ mclock \in Nat \ {0} /\ last_addr \in 0..mclock /\ last_route \in 0..mclock /\ last_emit \in 0..mclock
  /\ seen \in [addr : SUBSET (1..mclock), route : SUBSET (1..mclock), emit : SUBSET (1..mclock)]
Remembered ==
  /\ (\A e \in seen.emit : e <= last_emit) /\ (last_emit # 0 => last_emit \in seen.emit)
  /\ last_addr # 0 => last_addr \in seen.addr /\ last_addr >= last_emit
  /\ last_route # 0 => last_route \in seen.route /\ last_route >= last_emit
  /\ \A a \in seen.addr : a > last_emit => last_addr >= a
  /\ \A r \in seen.route : r > last_emit => last_route >= r

ListenerInv == ListenerTyped /\ Accounted /\ Current
DetectorInv == DetectorTyped /\ Remembered /\ TransitionsExact
MonitorInv == ListenerInv /\ DetectorInv /\ notices \subseteq {"routes", "transitions"}

LEMMA MonitorInvInit == MonitorInit => MonitorInv
<1> SUFFICES ASSUME MonitorInit PROVE MonitorInv
  OBVIOUS
<1>1. counted.changes = 0 /\ counted.sent = 0 /\ counted.misreads = 0 /\ listener \in Unwatched
  BY DEF MonitorInit, Unwatched
<1>2. ListenerTyped
  <2>1. counted \in [changes : Nat, sent : Nat, misreads : Nat]
    BY DEF MonitorInit
  <2>2. 0 <= MaxAddrChanges /\ 0 <= MaxMisreads
    BY MonitorBounds
  <2>3. notified \in BOOLEAN /\ missed \in BOOLEAN /\ prev \subseteq Addresses /\ addrs \subseteq Addresses
    BY DEF MonitorInit
  <2>4. addr_events = 0 /\ listener \in MonitorStates /\ platform \in {"linux", "macos", "windows"}
    BY DEF MonitorInit, MonitorStates
  <2> QED
    BY <1>1, <2>1, <2>2, <2>3, <2>4 DEF ListenerTyped
<1>3. Accounted
  BY <1>1 DEF Accounted, Differs
<1>4. Current
  BY <1>1 DEF Current, Deaf, Unwatched
<1>5. seen.addr = {} /\ seen.route = {} /\ seen.emit = {} /\ last_addr = 0 /\ last_route = 0 /\ last_emit = 0
  BY DEF MonitorInit
<1>6. DetectorTyped
  BY DEF MonitorInit, DetectorTyped
<1>7. Remembered
  BY <1>5 DEF Remembered
<1>8. TransitionsExact
  BY <1>5 DEF TransitionsExact
<1>9. notices \subseteq {"routes", "transitions"}
  BY DEF MonitorInit
<1> QED
  BY <1>2, <1>3, <1>4, <1>6, <1>7, <1>8, <1>9 DEF MonitorInv, ListenerInv, DetectorInv

LEMMA MonitorAddrsChange ==
  ASSUME ListenerInv, NEW s \in SUBSET Addresses, AddrsChange(s)
  PROVE  ListenerInv'
<1> DEFINE inc == IF RealAddrs(s) = RealAddrs(addrs) THEN 0 ELSE 1
<1>1. /\ platform # "linux" /\ counted.changes < MaxAddrChanges /\ addrs' = s
      /\ counted' = [counted EXCEPT !.changes = @ + inc]
      /\ notified' = (notified \/ platform = "macos" \/ listener = "waiting")
      /\ missed' = (missed \/ (platform = "windows" /\ listener \in {"sleeping", "arming", "backoff"}))
      /\ UNCHANGED <<platform, prev, listener, addr_events>>
  BY DEF AddrsChange
<1>2. inc \in {0, 1} /\ (inc = 0 => relevant_addrs(s) = relevant_addrs(addrs))
  BY DEF RealAddrs, relevant_addrs
<1> HIDE DEF inc
<1>3. counted \in [changes : Nat, sent : Nat, misreads : Nat]
  BY DEF ListenerInv, ListenerTyped
<1>4. /\ counted' \in [changes : Nat, sent : Nat, misreads : Nat]
      /\ counted'.changes = counted.changes + inc /\ counted'.sent = counted.sent /\ counted'.misreads = counted.misreads
  BY <1>1, <1>2, <1>3
<1>5. counted'.changes <= MaxAddrChanges
  BY <1>1, <1>2, <1>3, <1>4, MonitorBounds
<1>6. ListenerTyped'
  <2>1. notified' \in BOOLEAN /\ missed' \in BOOLEAN
    BY <1>1
  <2> QED
    BY <1>1, <1>4, <1>5, <2>1 DEF ListenerInv, ListenerTyped
<1>7. Accounted'
  <2>1. inc = 0 => (Differs' <=> Differs)
    BY <1>1, <1>2 DEF Differs
  <2> DEFINE d == IF Differs THEN 1 ELSE 0
             e == IF Differs' THEN 1 ELSE 0
  <2>2. d \in {0, 1} /\ e \in {0, 1} /\ (inc = 0 => e = d)
    BY <2>1
  <2>3. counted.sent + d <= counted.changes + 2 * counted.misreads
    BY DEF ListenerInv, Accounted
  <2>4. Accounted' <=> counted'.sent + e <= counted'.changes + 2 * counted'.misreads
    BY DEF Accounted
  <2> HIDE DEF d, e
  <2> QED
    BY <1>2, <1>3, <1>4, <2>2, <2>3, <2>4
<1>8. Current'
  <2> SUFFICES ASSUME listener \in Deaf, ~notified', ~missed' PROVE FALSE
    BY <1>1 DEF Current
  <2>1. platform = "windows" /\ listener # "waiting" /\ listener \notin {"sleeping", "arming", "backoff"}
    BY <1>1 DEF ListenerInv, ListenerTyped
  <2> QED
    BY <2>1 DEF Deaf
<1> QED
  BY <1>6, <1>7, <1>8 DEF ListenerInv

(* The listener moves without reading: it may settle or go deaf only with  *)
(* its snapshot as it was, or take the baseline.                           *)
LEMMA ListenerMoves ==
  ASSUME ListenerInv, listener' \in MonitorStates \ Unwatched, notified' \in BOOLEAN,
         UNCHANGED <<platform, addrs, missed, counted>>, addr_events' \in {0, addr_events},
         \/ prev' = relevant_addrs(addrs)
         \/ listener \notin Unwatched /\ prev' = prev /\ (listener' \in Deaf => listener \in Deaf /\ notified' = notified)
  PROVE  ListenerInv'
<1>1. ListenerTyped'
  <2>1. prev' \subseteq Addresses
    BY DEF ListenerInv, ListenerTyped, relevant_addrs
  <2>2. addr_events' \in Nat /\ addr_events' <= counted.sent
    BY DEF ListenerInv, ListenerTyped
  <2> QED
    BY <2>1, <2>2 DEF ListenerInv, ListenerTyped
<1>2. Differs' => Differs
  BY DEF Differs
<1>3. Accounted'
  <2>1. counted \in [changes : Nat, sent : Nat, misreads : Nat]
    BY DEF ListenerInv, ListenerTyped
  <2> QED
    BY <1>2, <2>1 DEF ListenerInv, Accounted
<1>4. Current'
  BY DEF ListenerInv, Current
<1> QED
  BY <1>1, <1>3, <1>4 DEF ListenerInv

LEMMA MonitorReadAddrs == ASSUME ListenerInv, NEW failed \in BOOLEAN, ReadAddrs(failed) PROVE ListenerInv'
<1> DEFINE now == IF failed THEN {} ELSE relevant_addrs(addrs)
           sent == IF now # prev /\ ~dropped THEN 1 ELSE 0
           bad == IF failed THEN 1 ELSE 0
<1>1. /\ listener = "reading" /\ (failed => counted.misreads < MaxMisreads) /\ prev' = now /\ missed' = FALSE
      /\ listener' \in {"waiting", "arming", "exited", "sleeping"}
      /\ UNCHANGED <<platform, addrs, notified>>
  BY DEF ReadAddrs, Remembers
<1>2. counted \in [changes : Nat, sent : Nat, misreads : Nat]
  BY DEF ListenerInv, ListenerTyped
<1>3. /\ addr_events' = IF now # prev /\ ~dropped THEN addr_events + 1 ELSE addr_events
      /\ counted' = [counted EXCEPT !.sent = IF now # prev /\ ~dropped THEN @ + 1 ELSE @,
                                    !.misreads = IF failed THEN @ + 1 ELSE @]
  BY DEF ReadAddrs
<1>4. /\ addr_events' = addr_events + sent /\ counted'.sent = counted.sent + sent
      /\ counted'.misreads = counted.misreads + bad /\ counted'.changes = counted.changes
  BY <1>2, <1>3 DEF ListenerInv, ListenerTyped
<1>5. counted' \in [changes : Nat, sent : Nat, misreads : Nat]
  <2>1. counted'.sent \in Nat /\ counted'.misreads \in Nat /\ counted'.changes \in Nat
    BY <1>2, <1>4
  <2>2. DOMAIN counted' = {"changes", "sent", "misreads"}
    BY <1>2, <1>3
  <2> QED
    BY <1>2, <1>3, <2>1, <2>2
<1>6. /\ sent \in {0, 1} /\ bad \in {0, 1} /\ (bad = 0 => prev' = relevant_addrs(addrs))
      /\ sent = 1 /\ bad = 0 => Differs
  BY <1>1 DEF Differs, Unwatched
<1>7. prev' \subseteq Addresses
  BY <1>1 DEF ListenerInv, ListenerTyped, relevant_addrs
<1>8. failed <=> bad = 1
  OBVIOUS
<1> HIDE DEF now, sent, bad
<1>9. ListenerTyped'
  <2>1. counted'.changes <= MaxAddrChanges /\ counted'.misreads <= MaxMisreads
    BY <1>1, <1>2, <1>4, <1>6, <1>8, MonitorBounds DEF ListenerInv, ListenerTyped
  <2>2. addr_events' \in Nat /\ addr_events' <= counted'.sent
    BY <1>2, <1>4, <1>6 DEF ListenerInv, ListenerTyped
  <2>3. listener' \in MonitorStates /\ missed' \in BOOLEAN /\ notified' \in BOOLEAN
    BY <1>1 DEF MonitorStates, ListenerInv, ListenerTyped
  <2> QED
    BY <1>1, <1>5, <1>7, <2>1, <2>2, <2>3 DEF ListenerInv, ListenerTyped
<1>10. Accounted'
  <2> DEFINE d == IF Differs THEN 1 ELSE 0
             e == IF Differs' THEN 1 ELSE 0
  <2>1. d \in {0, 1} /\ e \in {0, 1} /\ (bad = 0 => e = 0) /\ (sent = 1 /\ bad = 0 => d = 1)
    BY <1>1, <1>6 DEF Differs
  <2>2. counted.sent + d <= counted.changes + 2 * counted.misreads
    BY DEF ListenerInv, Accounted
  <2>3. Accounted' <=> counted'.sent + e <= counted'.changes + 2 * counted'.misreads
    BY DEF Accounted
  <2> HIDE DEF d, e
  <2>4. CASE bad = 0
    BY <1>2, <1>4, <1>6, <2>1, <2>2, <2>3, <2>4
  <2>5. CASE bad = 1
    BY <1>2, <1>4, <1>6, <2>1, <2>2, <2>3, <2>5
  <2> QED
    BY <1>6, <2>4, <2>5
<1>11. Current'
  <2> SUFFICES ASSUME counted'.misreads = 0 PROVE prev' = relevant_addrs(addrs)
    BY <1>1 DEF Current
  <2>1. bad = 0
    BY <1>2, <1>4, <1>6
  <2> QED
    BY <1>6, <2>1
<1> QED
  BY <1>9, <1>10, <1>11 DEF ListenerInv

LEMMA MonitorListens ==
  ASSUME ListenerInv, NEW ok \in BOOLEAN, Baseline \/ Arm(ok) \/ Wake \/ Pause \/ DropListener
  PROVE  ListenerInv'
<1>1. CASE Baseline
  BY <1>1, ListenerMoves DEF Baseline, MonitorStates, Unwatched
<1>2. CASE Arm(ok)
  BY <1>2, ListenerMoves DEF Arm, MonitorStates, Unwatched, Deaf, ListenerInv, ListenerTyped
<1>3. CASE Wake
  BY <1>3, ListenerMoves DEF Wake, MonitorStates, Unwatched, Deaf
<1>4. CASE Pause
  BY <1>4, ListenerMoves DEF Pause, Backoff, MonitorStates, Unwatched, Deaf, ListenerInv, ListenerTyped
<1>5. CASE DropListener
  <2>1. addr_events' = 0 /\ UNCHANGED <<platform, addrs, prev, notified, missed, listener, counted>>
    BY <1>5 DEF DropListener
  <2>2. ListenerTyped'
    <3>1. 0 <= counted.sent
      BY DEF ListenerInv, ListenerTyped
    <3> QED
      BY <2>1, <3>1 DEF ListenerInv, ListenerTyped
  <2>3. Accounted' /\ Current'
    BY <2>1 DEF ListenerInv, Accounted, Differs, Current
  <2> QED
    BY <2>2, <2>3 DEF ListenerInv
<1> QED
  BY <1>1, <1>2, <1>3, <1>4, <1>5

LEMMA ListenerRests ==
  ASSUME ListenerInv, UNCHANGED <<platform, listenerVars>>, addr_events' \in Nat, addr_events' <= addr_events
  PROVE  ListenerInv'
<1>1. UNCHANGED <<platform, addrs, prev, notified, missed, listener, counted>>
  BY DEF listenerVars
<1>2. ListenerTyped'
  <2>1. addr_events' <= counted.sent
    BY DEF ListenerInv, ListenerTyped
  <2> QED
    BY <1>1, <2>1 DEF ListenerInv, ListenerTyped
<1>3. Accounted' /\ Current'
  BY <1>1 DEF ListenerInv, Accounted, Differs, Current
<1> QED
  BY <1>2, <1>3 DEF ListenerInv

LEMMA MaxOfTwo == ASSUME NEW x \in Nat, NEW y \in Nat PROVE Max({x, y}) = IF x >= y THEN x ELSE y
<1>1. CASE x >= y
  <2>1. \A z \in {x, y} : (\A w \in {x, y} : z >= w) <=> z = x
    BY <1>1
  <2> QED
    BY <1>1, <2>1 DEF Max
<1>2. CASE y > x
  <2>1. \A z \in {x, y} : (\A w \in {x, y} : z >= w) <=> z = y
    BY <1>2
  <2> QED
    BY <1>2, <2>1 DEF Max
<1> QED
  BY <1>1, <1>2

(* The detector hears an event at mclock: of the pair (a, r) it judges, one *)
(* is of now and the other is the last one remembered.                     *)
LEMMA DetectorHears ==
  ASSUME DetectorInv, platform = "macos", NEW a, NEW r, (a = mclock /\ r = last_route) \/ (a = last_addr /\ r = mclock),
         Detect(a, r), UNCHANGED mclock
  PROVE  DetectorInv'
<1> DEFINE A == seen.addr
           R == seen.route
           E == seen.emit
           B == A \cup (IF a = last_addr THEN {} ELSE {mclock})
           S == R \cup (IF r = last_route THEN {} ELSE {mclock})
           F == IF Emits(a, r) THEN E \cup {mclock} ELSE E
<1>1. /\ mclock \in Nat \ {0} /\ last_addr \in 0..mclock /\ last_route \in 0..mclock /\ last_emit \in 0..mclock
      /\ A \subseteq 1..mclock /\ R \subseteq 1..mclock /\ E \subseteq 1..mclock
  BY DEF DetectorInv, DetectorTyped
<1>2. seen' = [addr |-> B, route |-> S, emit |-> F]
  <2>1. CASE Emits(a, r)
    BY <2>1 DEF Detect
  <2>2. CASE ~Emits(a, r)
    <3>1. seen' = [seen EXCEPT !.addr = @ \cup (IF a = last_addr THEN {} ELSE {mclock}),
                               !.route = @ \cup (IF r = last_route THEN {} ELSE {mclock})]
      BY <2>2 DEF Detect
    <3>2. seen \in [addr : SUBSET (1..mclock), route : SUBSET (1..mclock), emit : SUBSET (1..mclock)]
      BY DEF DetectorInv, DetectorTyped
    <3>3. seen' = [addr |-> seen'.addr, route |-> seen'.route, emit |-> seen'.emit]
      BY <3>1, <3>2
    <3>4. seen'.addr = B /\ seen'.route = S /\ seen'.emit = F
      BY <2>2, <3>1, <3>2
    <3> QED
      BY <3>3, <3>4
  <2> QED
    BY <2>1, <2>2
<1>3. seen'.addr = B /\ seen'.route = S /\ seen'.emit = F
  BY <1>2
<1>4. IF Emits(a, r) THEN last_addr' = 0 /\ last_route' = 0 /\ last_emit' = mclock
      ELSE last_addr' = a /\ last_route' = r /\ last_emit' = last_emit
  BY DEF Detect
<1>5. /\ \A e \in E : e <= last_emit
      /\ last_emit # 0 => last_emit \in E
      /\ last_addr # 0 => last_addr \in A /\ last_addr >= last_emit
      /\ last_route # 0 => last_route \in R /\ last_route >= last_emit
      /\ \A x \in A : x > last_emit => last_addr >= x
      /\ \A y \in R : y > last_emit => last_route >= y
  BY DEF DetectorInv, Remembered
<1>6. /\ a \in 0..mclock /\ r \in 0..mclock
      /\ a # 0 => a \in B /\ a >= last_emit
      /\ r # 0 => r \in S /\ r >= last_emit
      /\ \A x \in B : x > last_emit => a >= x
      /\ \A y \in S : y > last_emit => r >= y
      /\ A \subseteq B /\ R \subseteq S /\ E \subseteq F
      /\ B \subseteq A \cup {mclock} /\ S \subseteq R \cup {mclock} /\ F \subseteq E \cup {mclock}
  BY <1>1, <1>5
<1>7. Emits(a, r) <=> /\ a # 0 /\ r # 0 /\ mclock - a <= Window /\ mclock - r <= Window
                      /\ last_emit = 0 \/ mclock - last_emit >= Cooldown
  BY DEF Emits
<1>8. Emits(a, r) => mclock \in F
  OBVIOUS
<1>9. Window \in Nat /\ Cooldown \in Nat \ {0}
  BY MonitorBounds
<1> HIDE DEF A, R, E, B, S, F
<1>10. B \subseteq 1..mclock /\ S \subseteq 1..mclock /\ F \subseteq 1..mclock
  BY <1>1, <1>6
<1>11. DetectorTyped'
  BY <1>1, <1>2, <1>4, <1>6, <1>10 DEF DetectorTyped
<1>12. Remembered'
  <2>1. CASE Emits(a, r)
    <3>1. last_addr' = 0 /\ last_route' = 0 /\ last_emit' = mclock /\ mclock \in F
      BY <1>4, <1>8, <2>1
    <3>2. \A x \in 1..mclock : x <= mclock /\ ~(x > mclock)
      BY <1>1
    <3> QED
      BY <1>3, <1>10, <3>1, <3>2 DEF Remembered
  <2>2. CASE ~Emits(a, r)
    <3>1. F = E
      BY <2>2 DEF F
    <3> QED
      BY <1>3, <1>4, <1>5, <1>6, <2>2, <3>1 DEF Remembered
  <2> QED
    BY <2>1, <2>2
<1>13. ASSUME NEW t \in 1..mclock PROVE {e \in F : e < t} = {e \in E : e < t}
  <2>1. ~(mclock < t)
    BY <1>1, <1>13
  <2> QED
    BY <1>6, <2>1
<1>14. ASSUME NEW t \in F
       PROVE  /\ \A e \in {e \in F : e < t} : t - e >= Cooldown
              /\ \E x \in B, y \in S :
                   /\ x <= t /\ y <= t /\ t - x <= Window /\ t - y <= Window
                   /\ \A e \in {e \in F : e < t} : e <= x /\ e <= y
  <2>1. CASE t \in E
    <3>1. /\ \A e \in {e \in E : e < t} : t - e >= Cooldown
          /\ \E x \in A, y \in R :
               /\ x <= t /\ y <= t /\ t - x <= Window /\ t - y <= Window
               /\ \A e \in {e \in E : e < t} : e <= x /\ e <= y
      BY <2>1 DEF DetectorInv, TransitionsExact, Earlier, A, R, E
    <3>2. {e \in F : e < t} = {e \in E : e < t}
      BY <1>10, <1>13
    <3> QED
      BY <1>6, <3>1, <3>2
  <2>2. CASE t \notin E
    <3>1. t = mclock /\ Emits(a, r)
      BY <1>6, <2>2 DEF F
    <3>2. {e \in F : e < t} = {e \in E : e < t}
      BY <1>10, <1>13
    <3>3. a \in B /\ r \in S /\ a <= t /\ r <= t /\ t - a <= Window /\ t - r <= Window
      BY <1>6, <1>7, <3>1
    <3>4. ASSUME NEW e \in E, e < t PROVE t - e >= Cooldown /\ e <= a /\ e <= r
      <4>1. e \in 1..mclock /\ e <= last_emit
        BY <1>1, <1>5
      <4>2. last_emit # 0 /\ mclock - last_emit >= Cooldown /\ a >= last_emit /\ r >= last_emit
        BY <1>1, <1>6, <1>7, <3>1, <4>1
      <4> QED
        BY <1>1, <1>6, <1>9, <3>1, <4>1, <4>2
    <3> QED
      BY <3>2, <3>3, <3>4
  <2> QED
    BY <2>1, <2>2
<1>15. ASSUME NEW x \in B, NEW y \in S, NEW t, t = Max({x, y}), t - x <= Window, t - y <= Window,
              \A e \in {e \in F : e < t} : e < x /\ e < y /\ t - e >= Cooldown
       PROVE  t \in F
  <2>1. x \in 1..mclock /\ y \in 1..mclock
    BY <1>10
  <2>2. t = IF x >= y THEN x ELSE y
    BY <1>15, <2>1, MaxOfTwo
  <2>3. t \in 1..mclock
    BY <2>1, <2>2
  <2>4. {e \in F : e < t} = {e \in E : e < t}
    BY <1>13, <2>3
  <2>5. CASE x \in A /\ y \in R
    <3>1. t \in E
      BY <1>15, <2>4, <2>5 DEF DetectorInv, TransitionsExact, Earlier, A, R, E
    <3> QED
      BY <1>6, <3>1
  <2>6. CASE ~(x \in A /\ y \in R)
    <3>1. t = mclock
      BY <1>1, <1>6, <2>1, <2>2, <2>6
    <3>2. CASE mclock \in E
      BY <1>6, <3>1, <3>2
    <3>3. CASE mclock \notin E
      <4>1. last_emit = 0 \/ (last_emit \in E /\ last_emit < mclock)
        BY <1>1, <1>5, <3>3
      <4>2. last_emit < x /\ last_emit < y /\ (last_emit = 0 \/ mclock - last_emit >= Cooldown)
        <5>1. CASE last_emit = 0
          BY <2>1, <5>1
        <5>2. CASE last_emit # 0
          <6>1. last_emit \in {e \in E : e < t}
            BY <3>1, <4>1, <5>2
          <6> QED
            BY <1>15, <2>4, <3>1, <6>1
        <5> QED
          BY <5>1, <5>2
      <4>3. a >= x /\ r >= y
        BY <1>1, <1>6, <2>1, <4>2
      <4>4. a # 0 /\ r # 0 /\ mclock - a <= Window /\ mclock - r <= Window
        BY <1>1, <1>6, <1>9, <1>15, <2>1, <3>1, <4>3
      <4> QED
        BY <1>7, <1>8, <3>1, <4>2, <4>4
    <3> QED
      BY <3>2, <3>3
  <2> QED
    BY <2>5, <2>6
<1>16. TransitionsExact'
  <2>1. \A t : Earlier(t)' = {e \in F : e < t}
    BY <1>3 DEF Earlier
  <2> QED
    BY <1>3, <1>14, <1>15, <2>1 DEF TransitionsExact
<1> QED
  BY <1>11, <1>12, <1>16 DEF DetectorInv

LEMMA DetectorRests ==
  ASSUME DetectorInv, UNCHANGED detectorVars, mclock' \in {mclock, mclock + 1}
  PROVE  DetectorInv'
<1>1. UNCHANGED <<last_addr, last_route, last_emit, seen>>
  BY DEF detectorVars
<1>2. mclock' \in Nat \ {0} /\ 0..mclock \subseteq 0..mclock' /\ 1..mclock \subseteq 1..mclock'
  BY DEF DetectorInv, DetectorTyped
<1>3. DetectorTyped'
  <2>1. last_addr \in 0..mclock' /\ last_route \in 0..mclock' /\ last_emit \in 0..mclock'
    BY <1>2 DEF DetectorInv, DetectorTyped
  <2>2. seen \in [addr : SUBSET (1..mclock'), route : SUBSET (1..mclock'), emit : SUBSET (1..mclock')]
    BY <1>2 DEF DetectorInv, DetectorTyped
  <2> QED
    BY <1>1, <1>2, <2>1, <2>2 DEF DetectorTyped
<1>4. Remembered' /\ TransitionsExact'
  BY <1>1 DEF DetectorInv, Remembered, TransitionsExact, Earlier
<1> QED
  BY <1>3, <1>4 DEF DetectorInv

LEMMA MonitorInvNext == MonitorInv /\ [MonitorNext]_monitorVars => MonitorInv'
<1> SUFFICES ASSUME MonitorInv, [MonitorNext]_monitorVars PROVE MonitorInv'
  OBVIOUS
<1> USE DEF MonitorInv
<1>1. addr_events \in Nat
  BY DEF ListenerInv, ListenerTyped
<1>2. CASE UNCHANGED monitorVars
  <2>1. UNCHANGED <<platform, listenerVars>> /\ UNCHANGED detectorVars /\ UNCHANGED <<addr_events, mclock, notices>>
    BY <1>2 DEF monitorVars, listenerVars, detectorVars
  <2> QED
    BY <1>1, <2>1, ListenerRests, DetectorRests
<1>3. ASSUME NEW s \in SUBSET Addresses, AddrsChange(s) PROVE MonitorInv'
  <2>1. UNCHANGED detectorVars /\ UNCHANGED <<mclock, notices>>
    BY <1>3 DEF AddrsChange, detectorVars
  <2> QED
    BY <1>3, <2>1, MonitorAddrsChange, DetectorRests
<1>4. ASSUME NEW b \in BOOLEAN, Baseline \/ Arm(b) \/ Wake \/ Pause \/ DropListener \/ ReadAddrs(b) PROVE MonitorInv'
  <2>1. UNCHANGED detectorVars /\ UNCHANGED <<mclock, notices>>
    BY <1>4 DEF Baseline, Arm, Wake, Pause, DropListener, ReadAddrs
  <2> QED
    BY <1>4, <2>1, MonitorListens, MonitorReadAddrs, DetectorRests
<1>5. CASE OnAddr
  <2>1. UNCHANGED <<platform, mclock>> /\ UNCHANGED listenerVars /\ addr_events > 0 /\ addr_events' = addr_events - 1
    BY <1>5 DEF OnAddr
  <2>2. ListenerInv'
    BY <1>1, <2>1, ListenerRests
  <2>3. notices' \subseteq {"routes", "transitions"}
    BY <1>5 DEF OnAddr
  <2>4. CASE platform = "macos"
    BY <1>5, <2>1, <2>2, <2>3, <2>4, DetectorHears DEF OnAddr
  <2>5. CASE platform # "macos"
    BY <1>5, <2>1, <2>2, <2>3, <2>5, DetectorRests DEF OnAddr
  <2> QED
    BY <2>4, <2>5
<1>6. ASSUME NEW applicable \in BOOLEAN, NEW arrives \in BOOLEAN, OnRoute(applicable, arrives) PROVE MonitorInv'
  <2>1. UNCHANGED <<platform, mclock, addr_events>> /\ UNCHANGED listenerVars
    BY <1>6 DEF OnRoute
  <2>2. ListenerInv'
    BY <1>1, <2>1, ListenerRests
  <2>3. notices' \subseteq {"routes", "transitions"}
    BY <1>6 DEF OnRoute
  <2>4. CASE platform = "macos" /\ applicable /\ arrives
    BY <1>6, <2>1, <2>2, <2>3, <2>4, DetectorHears DEF OnRoute
  <2>5. CASE ~(platform = "macos" /\ applicable /\ arrives)
    BY <1>6, <2>1, <2>2, <2>3, <2>5, DetectorRests DEF OnRoute
  <2> QED
    BY <2>4, <2>5
<1>7. CASE Subscriber \/ MonitorTick
  <2>1. /\ UNCHANGED <<platform, addr_events>> /\ UNCHANGED listenerVars /\ UNCHANGED detectorVars
        /\ mclock' \in {mclock, mclock + 1} /\ notices' \subseteq {"routes", "transitions"}
    BY <1>7 DEF Subscriber, MonitorTick
  <2> QED
    BY <1>1, <2>1, ListenerRests, DetectorRests
<1>8. CASE Baseline \/ Wake \/ Pause \/ DropListener
  BY <1>4, <1>8
<1> QED
  BY <1>2, <1>3, <1>4, <1>5, <1>6, <1>7, <1>8 DEF MonitorNext

LEMMA MonitorInvSafe == MonitorInv => MonitorSafe
<1> SUFFICES ASSUME MonitorInv PROVE MonitorSafe
  OBVIOUS
<1> USE DEF MonitorInv
<1>1. counted \in [changes : Nat, sent : Nat, misreads : Nat] /\ addr_events \in Nat
  BY DEF ListenerInv, ListenerTyped
<1>2. counted.sent <= counted.changes + 2 * counted.misreads
  BY <1>1 DEF ListenerInv, Accounted
<1>3. TunnelIsQuiet
  BY <1>2 DEF TunnelIsQuiet
<1>4. MonitorTypeOK
  <2>1. addr_events \in 0 .. MaxAddrChanges + 2 * MaxMisreads
    BY <1>1, <1>2, MonitorBounds DEF ListenerInv, ListenerTyped
  <2>2. \A t \in {last_addr, last_route, last_emit} : t \in 0 .. mclock
    BY DEF DetectorInv, DetectorTyped
  <2> QED
    BY <2>1, <2>2 DEF MonitorTypeOK, ListenerInv, ListenerTyped, MonitorStates
<1>5. NewsTaken
  BY DEF NewsTaken, ListenerInv, Current, Deaf, RealAddrs, relevant_addrs
<1> QED
  BY <1>3, <1>4, <1>5 DEF MonitorSafe, DetectorInv

LEMMA MonitorStep == [Next]_vars => [MonitorNext]_monitorVars
<1>1. Next => (MonitorOnly /\ MonitorNext) \/ UNCHANGED monitorVars
  <2> SUFFICES ASSUME Next PROVE (MonitorOnly /\ MonitorNext) \/ UNCHANGED monitorVars
    OBVIOUS
  <2>1. \/ MonitorOnly /\ MonitorNext
        \/ SelectOnly \/ TaskOnly \/ UdpOnly \/ RouteOnly \/ DnsOnly \/ MobileOnly
    BY Zenon DEF Next, MonitorNext
  <2> QED
    BY <2>1 DEF SelectOnly, TaskOnly, UdpOnly, RouteOnly, DnsOnly, MobileOnly
<1> QED
  BY <1>1 DEF vars

(* A change of the host's network is noticed and counted once, the         *)
(* tunnel's own address is none, a transition answers an address change    *)
(* and a route arrival that belong together; and the outside socket is     *)
(* used in the mode it is in (network_change_monitor.rs,                   *)
(* io/outside/udp.rs).                                                     *)
THEOREM NetworkIsSafe == Spec => []NetworkSafe
<1>1. Init => UdpInit /\ MonitorInv
  BY PartsInit, MonitorInvInit
<1>2. MonitorInv /\ [Next]_vars => MonitorInv'
  BY MonitorStep, MonitorInvNext
<1>3. [Next]_vars => [UdpNext]_udpVars
  BY PartsNext
<1>4. UdpSpec => []SocketSafe
  BY SocketIsSafe
<1>5. MonitorInv /\ SocketSafe => NetworkSafe
  BY MonitorInvSafe DEF NetworkSafe
<1> QED
  BY <1>1, <1>2, <1>3, <1>4, <1>5, PTL DEF Spec, UdpSpec
=============================================================================
