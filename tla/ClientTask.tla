------------------------------ MODULE ClientTask ------------------------------
(***************************************************************************)
(* One connection of the client, from connect() to its end: the tasks that *)
(* connect() spawns, the task that selects over their ends and tears the   *)
(* connection down, and client(), which chooses the connection, sets up    *)
(* routes and DNS and waits for the task.  The runtime is the single       *)
(* threaded one both programs build: a step is a stretch of one task       *)
(* between two awaits, and events reach handle_events in order.            *)
(***************************************************************************)
EXTENDS Naturals, Sequences

VARIABLES
  options,   \* [stream, codec]: TCP; an inside packet codec is used
  lw,        \* State of the core connection
  worker,    \* the tasks connect() spawns: "running", "ended" or "aborted"
  emitted,   \* StateChanged events under way to handle_events
  told,      \* the states the application's event handler was told
  oneshot,   \* connected, disconnected, stop: "open", "sent" or "closed"
  changes,   \* network_change_signal: whether a nudge is queued, and open
  task,      \* the task of connect(): "select", "await" or "ended"
  result,    \* its result: "none", "ok" or "err"
  caller     \* client(), for this connection

taskVars == <<options, lw, worker, emitted, told, oneshot, changes, task, result, caller>>

Workers == {"events", "outside", "inside", "encoded", "decoded", "ticker", "network", "keepalive"}
CodecWorkers == {"encoded", "decoded"}
Callers == {"selecting", "chosen", "routed", "running", "returned",
            "lost",      \* another connection was chosen: this one is stopped
            "stopped",   \* client() returned before it chose: this one is dropped
            "failed"}    \* it chose this one and failed afterwards: dropped, too

TaskInit ==
  /\ options \in [stream : BOOLEAN, codec : BOOLEAN]
  /\ lw = "Connecting" /\ emitted = <<>> /\ told = {}
  /\ worker = [w \in Workers |-> IF w \in CodecWorkers /\ ~options.codec THEN "ended" ELSE "running"]
  /\ oneshot = [connected |-> "open", disconnected |-> "open", stop |-> "open"]
  /\ changes = [nudge |-> FALSE, open |-> TRUE]
  /\ task = "select" /\ result = "none" /\ caller = "selecting"

Runs(w) == worker[w] = "running"
SetState(states) == lw' = states[Len(states)] /\ emitted' = emitted \o states

(* Connection::disconnect, refused before the link is up and after the end.*)
Disconnectable == lw \in {"LinkUp", "Online"}
disconnect == IF Disconnectable THEN SetState(<<"Disconnecting", "Disconnected">>)
              ELSE UNCHANGED <<lw, emitted>>

-----------------------------------------------------------------------------
(* The workers.                                                            *)

(* outside_io_task feeds the core connection, which comes up.              *)
OutsideIo ==
  /\ Runs("outside")
  /\ \/ lw = "Connecting" /\ SetState(<<"LinkUp">>)
     \/ lw = "LinkUp" /\ SetState(<<"Online">>)
  /\ UNCHANGED <<options, worker, told, oneshot, changes, task, result, caller>>

(* Each ends by itself: an I/O error or a fatal packet, a plugin's or a    *)
(* codec's error, a DTLS timeout in the tick, a keepalive without a reply. *)
WorkerEnds(w) ==
  /\ Runs(w) /\ w \in Workers \ {"events", "network"}
  /\ w = "keepalive" => "Online" \in told
  /\ worker' = [worker EXCEPT ![w] = "ended"]
  /\ UNCHANGED <<options, lw, emitted, told, oneshot, changes, task, result, caller>>

(* Tells that a connection is online and forgets that it is not.           *)
SignalsOnlineOnly ==
  /\ Runs("events") /\ emitted # <<>>
  /\ emitted' = Tail(emitted) /\ told' = told \cup {Head(emitted)}
  /\ oneshot' = IF Head(emitted) = "Online" THEN [oneshot EXCEPT !.connected = "sent"] ELSE oneshot
  /\ UNCHANGED <<options, lw, worker, changes, task, result, caller>>

handle_events ==
  /\ Runs("events") /\ emitted # <<>>
  /\ emitted' = Tail(emitted) /\ told' = told \cup {Head(emitted)}
  /\ oneshot' = CASE Head(emitted) = "Online" -> [oneshot EXCEPT !.connected = "sent"]
                  [] Head(emitted) = "Disconnected" -> [oneshot EXCEPT !.disconnected = "sent"]
                  [] OTHER -> oneshot
  /\ UNCHANGED <<options, lw, worker, changes, task, result, caller>>

(* The coordinator of initialize_routes, after its route and its socket.   *)
network_event_coordinator ==
  /\ caller \in {"routed", "running"} /\ changes.open /\ ~changes.nudge
  /\ changes' = [changes EXCEPT !.nudge = TRUE]
  /\ UNCHANGED <<options, lw, worker, emitted, told, oneshot, task, result, caller>>

(* A nudge makes a datagram connection probe, and ends a stream one; the   *)
(* end of the channel ends the task.  The stop signal of the same drop has *)
(* woken the task of connect() first.                                      *)
handle_network_change ==
  /\ Runs("network")
  /\ \/ /\ changes.nudge
        /\ changes' = [changes EXCEPT !.nudge = FALSE]
        /\ IF options.stream THEN disconnect /\ worker' = [worker EXCEPT !["network"] = "ended"]
           ELSE UNCHANGED <<lw, emitted, worker>>
     \/ /\ ~changes.nudge /\ ~changes.open
        /\ task = "select" => oneshot.stop # "closed"
        /\ worker' = [worker EXCEPT !["network"] = "ended"]
        /\ UNCHANGED <<lw, emitted, changes>>
  /\ UNCHANGED <<options, told, oneshot, task, result, caller>>

-----------------------------------------------------------------------------
(* The task of connect().                                                  *)

(* Its end: the other tasks are aborted, the join set with handle_events   *)
(* and the oneshots it holds is dropped.                                   *)
Aborted == [w \in Workers |-> IF Runs(w) /\ w # "keepalive" THEN "aborted" ELSE worker[w]]
Closed(o) == [o EXCEPT !.connected = IF @ = "open" THEN "closed" ELSE @,
                       !.disconnected = IF @ = "open" THEN "closed" ELSE @]
End == task' = "ended" /\ worker' = Aborted /\ oneshot' = Closed(oneshot)

(* The branch of an error: tear down and end, without an await between.    *)
FailWithoutDisconnect == result' = "err" /\ End /\ UNCHANGED <<lw, emitted>>
Fail == result' = "err" /\ disconnect /\ End

AwaitEnd == result' = "ok" /\ task' = "await" /\ UNCHANGED <<worker, oneshot>>

StopSignal ==
  /\ task = "select" /\ oneshot.stop # "open"
  /\ IF Disconnectable THEN disconnect /\ AwaitEnd ELSE Fail
  /\ UNCHANGED <<options, told, changes, caller>>

WorkerExit(w) ==
  /\ task = "select" /\ worker[w] = "ended" /\ w # "network"
  /\ w \in CodecWorkers => options.codec
  /\ Fail
  /\ UNCHANGED <<options, told, changes, caller>>

NetworkExit ==
  /\ task = "select" /\ worker["network"] = "ended"
  /\ AwaitEnd
  /\ UNCHANGED <<options, lw, emitted, told, changes, caller>>

DisconnectedSignal ==
  /\ task = "await" /\ oneshot.disconnected # "open"
  /\ End
  /\ UNCHANGED <<options, lw, emitted, told, changes, result, caller>>

(* The keepalive task ends once no one holds its handle.                   *)
KeepaliveCancelled ==
  /\ Runs("keepalive") /\ \A w \in {"events", "outside", "inside", "network"} : ~Runs(w)
  /\ worker' = [worker EXCEPT !["keepalive"] = "ended"]
  /\ UNCHANGED <<options, lw, emitted, told, oneshot, changes, task, result, caller>>

-----------------------------------------------------------------------------
(* client().  Dropping the ClientConnection closes what it still holds.    *)
Dropped(o) == [o EXCEPT !.stop = IF @ = "open" THEN "closed" ELSE @]

Chosen ==
  /\ caller = "selecting" /\ oneshot.connected = "sent"
  /\ caller' = "chosen"
  /\ UNCHANGED <<options, lw, worker, emitted, told, oneshot, changes, task, result>>

(* The user stops, every connection has failed, or another was preferred.  *)
NotChosen(how) ==
  /\ caller = "selecting"
  /\ caller' = how
  /\ oneshot' = IF how = "lost" THEN [oneshot EXCEPT !.stop = "sent"] ELSE Dropped(oneshot)
  /\ changes' = IF how = "lost" THEN changes ELSE [changes EXCEPT !.open = FALSE]
  /\ UNCHANGED <<options, lw, worker, emitted, told, task, result>>

(* initialize_routes and set_dns.  The stop signal has moved to a task of  *)
(* its own by now: a failure drops the rest of the connection.             *)
SetUp(from, to, ok) ==
  /\ caller = from
  /\ caller' = IF ok THEN to ELSE "failed"
  /\ changes' = IF ok THEN changes ELSE [changes EXCEPT !.open = FALSE]
  /\ UNCHANGED <<options, lw, worker, emitted, told, oneshot, task, result>>

UserStop ==
  /\ caller \in {"chosen", "routed", "running", "failed"} /\ oneshot.stop = "open"
  /\ oneshot' = [oneshot EXCEPT !.stop = "sent"]
  /\ UNCHANGED <<options, lw, worker, emitted, told, changes, task, result, caller>>

TaskReturns ==
  /\ caller = "running" /\ task = "ended"
  /\ caller' = "returned" /\ changes' = [changes EXCEPT !.open = FALSE]
  /\ UNCHANGED <<options, lw, worker, emitted, told, oneshot, task, result>>

TaskNext ==
  \/ OutsideIo \/ handle_events \/ network_event_coordinator \/ handle_network_change
  \/ \E w \in Workers : WorkerEnds(w) \/ WorkerExit(w)
  \/ StopSignal \/ NetworkExit \/ DisconnectedSignal \/ KeepaliveCancelled
  \/ Chosen \/ UserStop \/ TaskReturns
  \/ \E how \in {"lost", "stopped"} : NotChosen(how)
  \/ \E ok \in BOOLEAN : SetUp("chosen", "routed", ok) \/ SetUp("routed", "running", ok)

TaskSpec == TaskInit /\ [][TaskNext]_taskVars

-----------------------------------------------------------------------------
TaskTypeOK ==
  /\ lw \in {"Connecting", "LinkUp", "Online", "Disconnected"}
  /\ worker \in [Workers -> {"running", "ended", "aborted"}] /\ Len(emitted) <= 4
  /\ \A o \in DOMAIN oneshot : oneshot[o] \in {"open", "sent", "closed"}
  /\ task \in {"select", "await", "ended"} /\ result \in {"none", "ok", "err"} /\ caller \in Callers

(* A task that ends in order has let the application hear of it.           *)
OkTold == task = "ended" /\ result = "ok" => "Disconnected" \in told

(* Nor does any end leave the core connection up, or a task at its sockets.*)
TornDown ==
  task = "ended" => ~Disconnectable /\ \A w \in Workers \ {"keepalive"} : ~Runs(w)

(* A stop ends the connection, whatever it is doing, unless client() itself*)
(* has failed after the choice.                                            *)
StopEnds == oneshot.stop # "open" ~> (task = "ended" \/ caller = "failed")

(* Whichever of its tasks ends first, the connection's end is complete:    *)
(* nothing of it runs on, and an end in order is told (the select! of      *)
(* connect()).                                                             *)
TaskSafe ==
  /\ TaskTypeOK
  /\ OkTold
  /\ TornDown
=============================================================================
