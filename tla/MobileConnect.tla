---------------------------- MODULE MobileConnect ----------------------------
(***************************************************************************)
(* The mobile client's async_lightway_start: a task per endpoint makes a   *)
(* connection, a loop around a biased select! collects the connections,    *)
(* their online signals and their ends until it has one to use; the others *)
(* are cleaned up by a task of its own while the chosen one runs.  marmed  *)
(* is the guard of the timer branch, evaluated when the select! starts; as *)
(* in ClientSelect a result and the end of the timer can both be there, and*)
(* mstale remembers that the timer branch was then disabled with a         *)
(* connection deferred: the loop has nothing left to wake it for that one. *)
(***************************************************************************)
EXTENDS Naturals, Sequences, FiniteSets, FiniteSetsExt, SequencesExt

CONSTANT Endpoints    \* 0..n-1, in order of preference

ASSUME EndpointsAssumption ==
  Endpoints = 0 .. Cardinality(Endpoints) - 1 /\ Endpoints # {} /\ IsFiniteSet(Endpoints)

VARIABLES
  mtask,      \* of each endpoint: its task in in_progress_connections
  mconn,      \* of each endpoint: its connection
  place,      \* of each endpoint: who holds its LightwayConnection
  signals,    \* online_signal: ids not yet received
  mtimer, marmed,
  failed_connections,
  connection_error_to_return,
  active,     \* active_connection and connected_index, or NoEndpoint
  session,    \* "selecting", "running", "returned", "error"
  abort_handles,  \* handles cleanup_connections has still to abort
  late,       \* endpoints whose task finished between the choice and the cleanup
  mstale      \* history: the timer branch was disabled while a connection was deferred

mobileVars == <<mtask, mconn, place, signals, mtimer, marmed, failed_connections,
                connection_error_to_return, active, session, abort_handles, late, mstale>>

NoEndpoint == Cardinality(Endpoints)

MobileInit ==
  /\ mtask = [s \in Endpoints |-> "running"] /\ mconn = [s \in Endpoints |-> "none"]
  /\ place = [s \in Endpoints |-> "task"] /\ signals = <<>>
  /\ mtimer = "running" /\ marmed = TRUE
  /\ failed_connections = 0 /\ connection_error_to_return = "none"
  /\ active = NoEndpoint /\ session = "selecting" /\ abort_handles = {} /\ late = {}
  /\ mstale = FALSE

Held(p) == {s \in Endpoints : place[s] = p}
Ended == {"goodbye", "unauthorized", "io"}

Results == {s \in Endpoints : mtask[s] \in {"made", "failed"}}
TimerDue == marmed /\ mtimer = "finished"
Exits == {s \in Held("pending") : mconn[s] \in Ended}

-----------------------------------------------------------------------------
(* lightway_client_connect: no socket, no route, a bad certificate; or a   *)
(* connection whose tasks run from now on.                                 *)
lightway_client_connect(s, ok) ==
  /\ mtask[s] = "running"
  /\ mtask' = [mtask EXCEPT ![s] = IF ok THEN "made" ELSE "failed"]
  /\ mconn' = [mconn EXCEPT ![s] = IF ok THEN "handshake" ELSE @]
  /\ late' = IF session = "running" /\ abort_handles # {} THEN late \cup {s} ELSE late
  /\ UNCHANGED <<place, signals, mtimer, marmed, failed_connections, connection_error_to_return,
                 active, session, abort_handles, mstale>>

(* handle_events sends the online signal; nobody receives it once the      *)
(* receiver is dropped, and the connection is online all the same.         *)
handle_online(s) ==
  /\ mconn[s] = "handshake"
  /\ mconn' = [mconn EXCEPT ![s] = "online"]
  /\ signals' = IF session = "selecting" THEN Append(signals, s) ELSE signals
  /\ UNCHANGED <<mtask, place, mtimer, marmed, failed_connections, connection_error_to_return,
                 active, session, abort_handles, late, mstale>>

(* The outside task of a connection ends.  A server's goodbye differs from *)
(* an I/O error for the connection in use only.                            *)
ConnectionEnds(s, why) ==
  /\ \/ mconn[s] = "handshake" /\ why \in {"unauthorized", "io"}
     \/ mconn[s] = "online" /\ (why = "io" \/ (why = "goodbye" /\ s = active))
  /\ mconn' = [mconn EXCEPT ![s] = why]
  /\ UNCHANGED <<mtask, place, signals, mtimer, marmed, failed_connections,
                 connection_error_to_return, active, session, abort_handles, late, mstale>>

DeferTimeout ==
  /\ session = "selecting" /\ mtimer = "running"
  /\ mtimer' = "finished"
  /\ UNCHANGED <<mtask, mconn, place, signals, marmed, failed_connections,
                 connection_error_to_return, active, session, abort_handles, late, mstale>>

-----------------------------------------------------------------------------
(* The select!, its branches in the order of their priority.               *)
Restart == marmed' = (mtimer # "finished")

AllFailed ==
  /\ session = "selecting" /\ failed_connections = NoEndpoint
  /\ session' = "error"
  /\ UNCHANGED <<mtask, mconn, place, signals, mtimer, marmed, failed_connections,
                 connection_error_to_return, active, abort_handles, late, mstale>>

CountFailed(s) == IF mtask[s] = "failed" THEN failed_connections + 1 ELSE failed_connections
TakeResult(s) ==
  /\ session = "selecting" /\ failed_connections # NoEndpoint /\ s \in Results
  /\ mtask' = [mtask EXCEPT ![s] = "taken"]
  /\ place' = [place EXCEPT ![s] = IF mtask[s] = "made" THEN "pending" ELSE "dropped"]
  /\ failed_connections' = CountFailed(s)
  /\ Restart
  /\ mstale' = (mstale \/ (TimerDue /\ Held("deferred") # {}))
  /\ UNCHANGED <<mconn, signals, mtimer, connection_error_to_return, active, session, abort_handles, late>>

(* break: the receiver is dropped and all but the chosen connection are    *)
(* handed to cleanup_connections.                                          *)
AbortsByOrder(s) == Endpoints \ {0}
OtherHandles(s) == Endpoints \ {s}
Use(s) ==
  /\ active' = s /\ session' = "running" /\ signals' = <<>>
  /\ place' = [t \in Endpoints |-> IF t = s THEN "active"
                                   ELSE IF place[t] \in {"pending", "deferred"} THEN "cleanup" ELSE place[t]]
  /\ abort_handles' = OtherHandles(s)
  /\ UNCHANGED <<mtask, mconn, mtimer, failed_connections, connection_error_to_return, late, mstale>>

BestDeferred == Min(Held("deferred"))
DeferSpins ==
  /\ session = "selecting" /\ failed_connections # NoEndpoint /\ Results = {} /\ TimerDue
  /\ UNCHANGED mobileVars
DeferEnds ==
  /\ session = "selecting" /\ failed_connections # NoEndpoint /\ Results = {} /\ TimerDue
  /\ Restart
  /\ IF Held("deferred") # {} THEN Use(BestDeferred)
     ELSE UNCHANGED <<mtask, mconn, place, signals, mtimer, failed_connections,
                      connection_error_to_return, active, session, abort_handles, late, mstale>>

OnlineSignal ==
  /\ session = "selecting" /\ failed_connections # NoEndpoint /\ Results = {} /\ ~TimerDue /\ signals # <<>>
  /\ Restart
  /\ LET s == Head(signals)
     IN IF place[s] = "pending" /\ (mtimer = "finished" \/ s = 0) THEN Use(s)
        ELSE /\ signals' = Tail(signals)
             /\ place' = [place EXCEPT ![s] = IF @ = "pending" THEN "deferred" ELSE @]
             /\ UNCHANGED <<mtask, mconn, mtimer, failed_connections, connection_error_to_return,
                            active, session, abort_handles, late, mstale>>

(* first_outside_io_exit: of the connections not online yet only.          *)
OutsideIoExit(s) ==
  /\ session = "selecting" /\ failed_connections # NoEndpoint
  /\ Results = {} /\ ~TimerDue /\ signals = <<>> /\ s \in Exits
  /\ place' = [place EXCEPT ![s] = "dropped"]
  /\ failed_connections' = failed_connections + 1
  /\ connection_error_to_return' = IF mconn[s] = "unauthorized" THEN "unauthorized" ELSE connection_error_to_return
  /\ Restart
  /\ UNCHANGED <<mtask, mconn, signals, mtimer, active, session, abort_handles, late, mstale>>

-----------------------------------------------------------------------------
(* cleanup_connections: a task that is finished is not aborted; then the   *)
(* connections are disconnected one after another.                         *)
CleanupAborts ==
  /\ session = "running" /\ abort_handles # {}
  /\ mtask' = [s \in Endpoints |-> IF s \in abort_handles /\ mtask[s] = "running" THEN "aborted" ELSE mtask[s]]
  /\ abort_handles' = {}
  /\ UNCHANGED <<mconn, place, signals, mtimer, marmed, failed_connections,
                 connection_error_to_return, active, session, late, mstale>>

CleanupNext(s) ==
  /\ session = "running" /\ abort_handles = {} /\ place[s] = "cleanup"
  /\ place' = [place EXCEPT ![s] = "dropped"]
  /\ mconn' = [mconn EXCEPT ![s] = IF @ \in {"handshake", "online"} THEN "closed" ELSE @]
  /\ UNCHANGED <<mtask, signals, mtimer, marmed, failed_connections,
                 connection_error_to_return, active, session, abort_handles, late, mstale>>

(* The network changes while only TCP connections are being made.          *)
ConnectCutShort ==
  /\ session = "selecting" /\ failed_connections # NoEndpoint
  /\ session' = "returned"
  /\ UNCHANGED <<mtask, mconn, place, signals, mtimer, marmed, failed_connections,
                 connection_error_to_return, active, abort_handles, late, mstale>>

(* The last select!: the network change task returns, the keepalive times  *)
(* out or the inside loop ends;                                            *)
SessionCutShort(ending) ==
  /\ session = "running" /\ session' = ending
  /\ UNCHANGED <<mtask, mconn, place, signals, mtimer, marmed, failed_connections,
                 connection_error_to_return, active, abort_handles, late, mstale>>

(* or the outside task of the connection in use ends.                      *)
SessionEnds ==
  /\ session = "running" /\ mconn[active] \in Ended
  /\ session' = IF mconn[active] = "goodbye" THEN "returned" ELSE "error"
  /\ UNCHANGED <<mtask, mconn, place, signals, mtimer, marmed, failed_connections,
                 connection_error_to_return, active, abort_handles, late, mstale>>

MobileNext ==
  \/ \E s \in Endpoints, ok \in BOOLEAN : lightway_client_connect(s, ok)
  \/ \E s \in Endpoints : handle_online(s) \/ TakeResult(s) \/ OutsideIoExit(s) \/ CleanupNext(s)
  \/ \E s \in Endpoints, why \in Ended : ConnectionEnds(s, why)
  \/ DeferTimeout \/ AllFailed \/ DeferEnds \/ OnlineSignal \/ CleanupAborts \/ SessionEnds \/ ConnectCutShort
  \/ \E ending \in {"returned", "error"} : SessionCutShort(ending)

MobileSpec == MobileInit /\ [][MobileNext]_mobileVars

-----------------------------------------------------------------------------
MobileTypeOK ==
  /\ mtask \in [Endpoints -> {"running", "made", "failed", "taken", "aborted"}]
  /\ mconn \in [Endpoints -> {"none", "handshake", "online", "closed"} \cup Ended]
  /\ failed_connections \in 0 .. NoEndpoint /\ active \in 0 .. NoEndpoint
  /\ session = "running" => place[active] = "active"

(* No endpoint that came online during the wait, and was deferred, is      *)
(* passed over for one that the user prefers less, unless the timer branch *)
(* was missed.  Nothing watches a deferred connection: the one chosen may  *)
(* have ended since.                                                       *)
MobilePrefers ==
  [][session = "selecting" /\ session' = "running" =>
       mstale \/ \A s \in Held("deferred") : active' <= s]_mobileVars

(* The attempt is reported as failed only when every endpoint has failed.  *)
FailsOnlyAll ==
  session = "error" /\ active = NoEndpoint =>
    \A s \in Endpoints : mtask[s] = "taken" /\ mconn[s] \in Ended \cup {"none"}

(* Cleaned up, the client is connected to the endpoint it uses and to no   *)
(* other, but for a connection made between the choice and the cleanup.    *)
OnlyOneOpen ==
  session = "running" /\ abort_handles = {} /\ Held("cleanup") = {} =>
    \A s \in Endpoints \ {active} : mconn[s] \in {"handshake", "online"} => s \in late

(* A deferred connection is not waited with beyond the end of the wait: one*)
(* is used then, or the timer branch was missed.                           *)
DeferredUsed ==
  (mtimer = "finished" /\ Held("deferred") # {}) ~> (session # "selecting" \/ mstale)

(* The mobile client fails only when all endpoints do and keeps one        *)
(* connection (async_lightway_start).                                      *)
MobileSafe ==
  /\ MobileTypeOK
  /\ FailsOnlyAll
  /\ OnlyOneOpen
=============================================================================
