----------------------------- MODULE ClientSelect -----------------------------
(***************************************************************************)
(* Choosing among several servers: client() starts a connect future for    *)
(* each, select_best_from_futures hands the signals of the connections made*)
(* to find_best_connection, which returns the first to be preferred.  Each *)
(* of the two is a loop around a biased select!; a step is one iteration.  *)
(* The guard of a branch (`if !wait_timer_task.is_finished()`) is evaluated*)
(* when the select! starts: `armed` keeps what it was.  The timer is a task*)
(* of its own, and the runtime runs all that is queued before it polls the *)
(* selection again: a connect result and the end of the timer can both be  *)
(* there.  The result is taken first, the guard is then found false, and   *)
(* the timer branch, where the best so far is returned, never runs:        *)
(* `stale` remembers that this has happened.                               *)
(***************************************************************************)
EXTENDS Naturals, FiniteSets

CONSTANT Servers    \* 0..n-1, in order of preference

ASSUME ServersAssumption == IsFiniteSet(Servers) /\ Servers = 0 .. Cardinality(Servers) - 1 /\ Servers # {}

VARIABLES
  attempt,      \* of each server: its connect future, and its connection
  timer,        \* wait_timer_task: "running" or "finished"
  channel,      \* connection_setup_rx: signals not yet read
  channel_open, \* channel_open of find_best_connection
  connected_stream, \* signals being watched
  armed,        \* the timer branch was enabled when the select! started
  best,         \* best_connection_index, or NoServer
  choice,       \* the index returned, Undecided, or Failed
  stale         \* history: the timer branch was disabled while there was a best

selectVars == <<attempt, timer, channel, channel_open, connected_stream, armed, best, choice, stale>>

NoServer == Cardinality(Servers)
Undecided == NoServer + 1
Failed == NoServer + 2
Attempts == {"opening",   \* connect() runs: resolving, opening a socket
             "refused",   \* it returned an error
             "waiting",   \* a connection, not online yet
             "online",    \* connected_signal was sent
             "gone"}      \* it ended without ever being online

SelectInit ==
  /\ attempt = [s \in Servers |-> "opening"]
  /\ timer = "running" /\ armed = TRUE
  /\ channel = {} /\ channel_open = TRUE /\ connected_stream = {}
  /\ best = NoServer /\ choice = Undecided /\ stale = FALSE

Opening == {s \in Servers : attempt[s] = "opening"}
SetupClosed == Opening = {} /\ channel = {}      \* connection_setup_tx is dropped
Signalled == {s \in connected_stream : attempt[s] \in {"online", "gone"}}

SetupReady == channel_open /\ (channel # {} \/ SetupClosed)
TimerReady == armed /\ timer = "finished"
(* A connect future completes.  select_best_from_futures sends its signal  *)
(* on; when none of the futures made a connection the selection is over.   *)
ConnectReturns(s, ok) ==
  /\ choice = Undecided /\ attempt[s] = "opening"
  /\ attempt' = [attempt EXCEPT ![s] = IF ok THEN "waiting" ELSE "refused"]
  /\ channel' = IF ok THEN channel \cup {s} ELSE channel
  /\ choice' = IF \A t \in Servers : attempt'[t] = "refused" THEN Failed ELSE choice
  /\ UNCHANGED <<timer, channel_open, connected_stream, armed, best, stale>>

(* handle_events sends connected_signal, or is dropped with it.            *)
Signal(s, online) ==
  /\ choice = Undecided /\ attempt[s] = "waiting"
  /\ attempt' = [attempt EXCEPT ![s] = IF online THEN "online" ELSE "gone"]
  /\ UNCHANGED <<timer, channel, channel_open, connected_stream, armed, best, choice, stale>>

TimerFinishes ==
  /\ choice = Undecided /\ timer = "running"
  /\ timer' = "finished"
  /\ UNCHANGED <<attempt, channel, channel_open, connected_stream, armed, best, choice, stale>>

-----------------------------------------------------------------------------
(* find_best_connection, the branches in the order of their priority.  The *)
(* next select! starts at once: Rearm.                                     *)
Rearm == armed' = (timer # "finished")
Misses == stale' = (stale \/ (TimerReady /\ best # NoServer))

TakeSetup(s) ==
  /\ choice = Undecided /\ channel_open /\ s \in channel
  /\ channel' = channel \ {s} /\ connected_stream' = connected_stream \cup {s}
  /\ Rearm /\ Misses
  /\ UNCHANGED <<attempt, timer, channel_open, best, choice>>

SetupEnds ==
  /\ choice = Undecided /\ channel_open /\ SetupClosed
  /\ channel_open' = FALSE
  /\ Rearm /\ Misses
  /\ UNCHANGED <<attempt, timer, channel, connected_stream, best, choice>>

(* Without a best so far, the next to come online is returned at once.     *)
WaitEnds ==
  /\ choice = Undecided /\ ~SetupReady /\ TimerReady
  /\ choice' = IF best # NoServer THEN best ELSE choice
  /\ Rearm
  /\ UNCHANGED <<attempt, timer, channel, channel_open, connected_stream, best, stale>>

(* The last to come online replaces the best so far.                       *)
LatestIsBest(s) ==
  /\ choice = Undecided /\ ~SetupReady /\ ~TimerReady /\ s \in Signalled
  /\ connected_stream' = connected_stream \ {s}
  /\ IF attempt[s] = "gone" THEN UNCHANGED <<best, choice>>
     ELSE IF timer = "finished" \/ s = 0 THEN choice' = s /\ UNCHANGED best
     ELSE best' = s /\ UNCHANGED choice
  /\ Rearm
  /\ UNCHANGED <<attempt, timer, channel, channel_open, stale>>

TakeSignal(s) ==
  /\ choice = Undecided /\ ~SetupReady /\ ~TimerReady /\ s \in Signalled
  /\ connected_stream' = connected_stream \ {s}
  /\ IF attempt[s] = "gone" THEN UNCHANGED <<best, choice>>
     ELSE IF timer = "finished" \/ s = 0 THEN choice' = s /\ UNCHANGED best
     ELSE best' = (IF s < best THEN s ELSE best) /\ UNCHANGED choice
  /\ Rearm
  /\ UNCHANGED <<attempt, timer, channel, channel_open, stale>>

(* else: every branch is disabled.                                         *)
AllDisconnected ==
  /\ choice = Undecided /\ ~channel_open /\ ~armed /\ connected_stream = {}
  /\ choice' = Failed
  /\ UNCHANGED <<attempt, timer, channel, channel_open, connected_stream, armed, best, stale>>

SelectNext ==
  \/ \E s \in Servers, b \in BOOLEAN : ConnectReturns(s, b) \/ Signal(s, b)
  \/ \E s \in Servers : TakeSetup(s) \/ TakeSignal(s)
  \/ TimerFinishes \/ SetupEnds \/ WaitEnds \/ AllDisconnected

SelectSpec == SelectInit /\ [][SelectNext]_selectVars

-----------------------------------------------------------------------------
SelectTypeOK ==
  /\ attempt \in [Servers -> Attempts] /\ timer \in {"running", "finished"}
  /\ channel \subseteq Servers /\ connected_stream \subseteq Servers
  /\ best \in Servers \cup {NoServer} /\ choice \in Servers \cup {Undecided, Failed}
  /\ \A s \in channel \cup connected_stream : attempt[s] \in {"waiting", "online", "gone"}

Online(s) == attempt[s] = "online"

(* The connection chosen has been online, and no preferred one that was    *)
(* seen to come online during the wait is passed over, unless the timer    *)
(* branch was missed.                                                      *)
PreferredChosen ==
  choice \in Servers =>
    /\ Online(choice)
    /\ stale \/ \A s \in Servers \ (channel \cup connected_stream) : Online(s) => choice <= s

(* Selection fails only when no server is, or could still come, online,    *)
(* unless the timer branch was missed: the best so far is then lost when   *)
(* the others fail afterwards, and that is the only way to lose it.        *)
FailsOnlyOffline ==
  choice = Failed => stale \/ \A s \in Servers : attempt[s] \in {"refused", "gone"}

(* Once a server is online and the wait is over the selection ends, or has *)
(* missed the end of the wait.                                             *)
SelectionEnds ==
  (timer = "finished" /\ (\E s \in Servers : Online(s))) ~> (choice # Undecided \/ stale)

(* The choice among servers respects preference and does not fail while    *)
(* one is online; a best that has waited is lost in one way only, by the   *)
(* stale guard of the timer branch (find_best_connection).                 *)
SelectSafe ==
  /\ SelectTypeOK
  /\ PreferredChosen
  /\ FailsOnlyOffline
=============================================================================
