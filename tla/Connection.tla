------------------------------ MODULE Connection ------------------------------
(***************************************************************************)
(* The life of one tunnel, seen from its two ends: the state machine of    *)
(* lightway_core::Connection (Connecting, LinkUp, Authenticating, Online,  *)
(* Disconnected) on a client and on a server, the tick chain that makes    *)
(* DTLS and the authentication request retransmit, the TLS key update of   *)
(* the server, and the task that feeds each end and tears it down.         *)
(*                                                                         *)
(* The TLS library, the network and the runtime are external: a handshake  *)
(* is Hello, Flight, Finished; a datagram may be lost or overtake another, *)
(* a stream keeps its order and tells its end (EOF).                       *)
(***************************************************************************)
EXTENDS Naturals, FiniteSets, Sequences, SequencesExt

CONSTANT Environments    \* the surroundings a tunnel may run in

Environment ==
    [datagram : BOOLEAN,          \* ConnectionType: DTLS over UDP, or TLS over TCP
     grants : SUBSET BOOLEAN,     \* the answers ServerAuth::authorize may give
     stops : BOOLEAN,             \* may the user stop the client, and the server evict it
     timely : BOOLEAN,            \* is the library's retransmission timer longer than a round trip
     lost : Nat,                  \* datagrams the network loses
     faults : Nat,                \* writes the socket refuses with an error
     resends : Nat,               \* retransmissions of one flight before the library gives up
     updates : Nat,               \* TLS key updates that fall due
     pings : Nat,                 \* keepalives and data frames the two ends send of their own accord
     copies : Nat]                \* copies of one datagram under way to one end (more are dropped)

ASSUME ConnectionAssumption ==
    \A v \in Environments : v \in Environment /\ v.grants # {}

Ends == {"client", "server"}
Peer(e) == IF e = "client" THEN "server" ELSE "client"

\* Disconnecting is entered and left inside disconnect(), under one lock.
State == {"Connecting", "LinkUp", "Authenticating", "Online", "Disconnected"}
KeyState == {"Initializing", "Waiting", "Pending"}
LibraryMessage == {"Hello", "Flight", "Finished", "KeyUpdate", "KeyAck"}
Frame == {"AuthRequest", "AuthSuccess", "AuthFailure", "Ping", "Pong", "Data", "Goodbye"}
Traffic == {"Ping", "Pong", "Data"}    \* the frames of an Online end
Message == LibraryMessage \cup Frame \cup {"EOF"}
Error == {"None", "InvalidState", "InvalidMode", "TimedOut", "Unauthorized",
          "AccessDenied", "Goodbye", "Disconnected", "Write", "EndOfStream"}

VARIABLES
    env,       \* the surroundings of this tunnel, which stay what they are
    conn,      \* each end's Connection
    task,      \* the task that reads for each end; a closing one still reads, what it has at hand
    ticker,    \* is each end's ConnectionTickerTask alive
    err,       \* the last error each end's Connection returned to its task
    net,       \* what is under way to each end
    granted,   \* has the auth callback granted this client
    spent      \* how much of each bound is used up

vars == <<env, conn, task, ticker, err, net, granted, spent>>

Datagram == env.datagram
Timely == env.timely
Stops == env.stops
Grants == env.grants
MaxResends == env.resends
MaxCopies == env.copies

(* The fields of Connection that decide its life. `timer` is               *)
(* is_tick_timer_running, which is also: a tick is under way to it;        *)
(* `interval` is tls_tick_interval being Some. `updating` and `resends`    *)
(* belong to the library: is_update_keys_pending and its retransmissions.  *)
New == [state |-> "Connecting", interval |-> Datagram, timer |-> Datagram,
        key |-> "Initializing", updating |-> FALSE, resends |-> 0]

\* The client has just been created and has sent its first flight; the server
\* creates its end when a Hello comes in.
Init ==
    /\ env \in Environments
    /\ conn = [e \in Ends |-> New]
    /\ task = [e \in Ends |-> IF e = "client" THEN "running" ELSE "absent"]
    /\ ticker = [e \in Ends |-> Datagram]
    /\ err = [e \in Ends |-> "None"]
    /\ net = [e \in Ends |-> IF e = "server" THEN <<"Hello">> ELSE <<>>]
    /\ granted = FALSE
    /\ spent = [lost |-> 0, faults |-> 0, updates |-> 0, pings |-> 0]

(***************************************************************************)
(* What a call on a Connection does: the connection after it, the messages *)
(* it wrote, the error it returned. `fail` numbers the write of the call   *)
(* that the socket refuses (0: none).                                      *)
(***************************************************************************)
Result(c, ms, x) == [c |-> c, out |-> ms, err |-> x]

\* A plausible slip: the Online state alone stops the ticks.
UpdateTickIfOffline(c) ==
    CASE ~Datagram -> c
      [] Datagram /\ c.state = "Online" -> [c EXCEPT !.interval = FALSE]
      [] OTHER -> [c EXCEPT !.interval = TRUE, !.timer = TRUE]

\* A plausible slip: the interval is renewed, the callback is not called again.
UpdateTickUnscheduled(c) ==
    IF Datagram THEN [c EXCEPT !.interval = (c.state # "Online")] ELSE c

\* update_tick_interval
UpdateTickInterval(c) ==
    CASE ~Datagram -> c
      [] Datagram /\ c.state = "Online" /\ c.key # "Pending" ->
            [c EXCEPT !.interval = FALSE]
      [] OTHER -> [c EXCEPT !.interval = TRUE, !.timer = TRUE]

\* authenticate: the state moves first, then the request is written.
Authenticate(c, ms, fail) ==
    LET up == [c EXCEPT !.state = "Authenticating"]
    IN  IF fail THEN Result(up, ms, "Write") ELSE Result(up, Append(ms, "AuthRequest"), "None")

\* disconnect: refused while Connecting and once Disconnected; the write of
\* the farewell may fail unnoticed, which is its loss.
MayDisconnect(c) == c.state \in {"LinkUp", "Authenticating", "Online"}
Disconnect(c) ==
    IF MayDisconnect(c) THEN Result([c EXCEPT !.state = "Disconnected"], <<"Goodbye">>, "None")
                        ELSE Result(c, <<>>, "InvalidState")

(* process_new_outside_data while Connecting: the library negotiates. Its  *)
(* last step leaves the end LinkUp, and a client goes on to authenticate.  *)
Negotiate(e, c, m, fail) ==
    CASE m \in {"Hello", "Flight"} /\ fail = 1 -> Result(c, <<>>, "Write")
      [] e = "server" /\ m = "Hello" /\ fail # 1 -> Result(UpdateTickInterval(c), <<"Flight">>, "None")
      [] e = "client" /\ m = "Flight" /\ fail # 1 ->
            Authenticate([c EXCEPT !.resends = 0], <<"Finished">>, fail = 2)
      [] e = "server" /\ m = "Finished" ->
            Result([c EXCEPT !.state = "LinkUp", !.resends = 0], <<>>, "None")
      [] OTHER -> Result(UpdateTickInterval(c), <<>>, "None")

\* A plausible slip: the reply goes out, the change of state is forgotten.
GrantWithoutOnline(c, fail) == Result([c EXCEPT !.key = "Waiting"], <<"AuthSuccess">>, "None")

\* handle_auth_request, Granted: key updates are set going, the reply is
\* written, and only then the server is Online.
Grant(c, fail) ==
    LET on == [c EXCEPT !.key = IF @ = "Initializing" THEN "Waiting" ELSE @]
    IN  IF fail THEN Result(on, <<>>, "Write")
                ELSE Result([on EXCEPT !.state = "Online"], <<"AuthSuccess">>, "None")

\* A plausible slip: the reply is written before the callback's answer is looked at.
DenyAfterReply(c) ==
    Result([c EXCEPT !.state = "Disconnected"], <<"AuthSuccess", "AuthFailure", "Goodbye">>,
           "AccessDenied")

\* send_auth_failure
Deny(c) ==
    LET off == Disconnect(c) IN Result(off.c, <<"AuthFailure">> \o off.out, "AccessDenied")

\* A plausible slip: a request repeated to an Online server is out of state.
AuthenticatesOnce(c) == c.state = "LinkUp"

\* A client repeats its request until it is answered, so an Online server
\* answers again.
Authenticates(c) == c.state \in {"LinkUp", "Online"}

HandleAuthRequest(c, grant, fail) ==
    CASE ~Authenticates(c) -> Result(c, <<>>, "InvalidState")
      [] Authenticates(c) /\ grant -> Grant(c, fail)
      [] OTHER -> Deny(c)

\* handle_auth_response: an Online client ignores a repeated reply, and no
\* other state is looked at.
HandleAuthResponse(c) ==
    Result(IF c.state = "Online" THEN c ELSE [c EXCEPT !.state = "Online"], <<>>, "None")

\* handle_ping, handle_pong and the frames of inside data, which only an Online
\* end takes: a ping is answered, data goes to the inside.
HandleTraffic(c, m, fail) ==
    CASE c.state # "Online" -> Result(c, <<>>, "InvalidState")
      [] c.state = "Online" /\ m = "Ping" /\ fail -> Result(c, <<>>, "Write")
      [] c.state = "Online" /\ m = "Ping" /\ ~fail -> Result(c, <<"Pong">>, "None")
      [] OTHER -> Result(c, <<>>, "None")

(* One frame of handle_messages, or what the library does with a record of *)
(* its own inside try_read: a repeated Flight has it repeat its Finished.  *)
HandleMessage(e, c, m, grant, fail) ==
    CASE m = "AuthRequest" /\ e = "client" -> Result(c, <<>>, "InvalidMode")
      [] m = "AuthRequest" /\ e = "server" -> HandleAuthRequest(c, grant, fail)
      [] m = "AuthSuccess" /\ e = "server" -> Result(c, <<>>, "InvalidMode")
      [] m = "AuthSuccess" /\ e = "client" -> HandleAuthResponse(c)
      [] m = "AuthFailure" -> Result(c, <<>>, "Unauthorized")
      [] m = "Goodbye" -> Result(c, <<>>, "Goodbye")
      [] m \in Traffic -> HandleTraffic(c, m, fail)
      [] m = "Flight" -> Result(c, <<"Finished">>, "None")
      [] m = "KeyUpdate" -> Result(c, <<"KeyAck">>, "None")
      [] m = "KeyAck" -> Result([c EXCEPT !.updating = FALSE, !.resends = 0], <<>>, "None")
      [] OTHER -> Result(c, <<>>, "None")

(* The end of handle_messages on a server: maybe_update_tls_keys, when an  *)
(* update is due, then the note that one has completed.                    *)
UpdateDue(e, c, due) == e = "server" /\ c.key = "Waiting" /\ due
Completed(c) == ~c.updating /\ c.key = "Pending"
AfterMessages(e, r, due, fail) ==
    LET begun == [r.c EXCEPT !.key = "Pending", !.updating = TRUE, !.resends = 0]
        done == [r.c EXCEPT !.key = "Waiting"]
    IN  CASE UpdateDue(e, r.c, due) /\ fail ->
                Result([r.c EXCEPT !.key = "Pending"], r.out, "Write")
          [] UpdateDue(e, r.c, due) /\ ~fail ->
                Result(UpdateTickInterval(begun), Append(r.out, "KeyUpdate"), "None")
          [] ~UpdateDue(e, r.c, due) /\ e = "server" /\ Completed(r.c) ->
                Result(UpdateTickInterval(done), r.out, "None")
          [] OTHER -> r

\* A plausible slip: the end of the stream is taken for an empty read.
NeverEnds(m) == FALSE
EndsStream(m) == m = "EOF"

\* A plausible slip: a connection that was closed goes on reading.
AlwaysReads(c) == TRUE
Reads(c) == c.state # "Disconnected"

\* outside_data_received, which refuses a closed connection, and then
\* process_new_outside_data by the state it finds
Process(e, c, m, grant, due, fail) ==
    CASE EndsStream(m) -> Result(c, <<>>, "EndOfStream")
      [] ~EndsStream(m) /\ ~Reads(c) -> Result(c, <<>>, "Disconnected")
      [] ~EndsStream(m) /\ Reads(c) /\ c.state = "Connecting" -> Negotiate(e, c, m, fail)
      [] OTHER ->
            LET r == HandleMessage(e, c, m, grant, fail = 1)
            IN  IF r.err = "None" THEN AfterMessages(e, r, due, fail = 2) ELSE r

\* ConnectionError::is_fatal
IsFatal(x) ==
    /\ x # "None"
    /\ Datagram => x \notin {"InvalidState", "Write"}

(***************************************************************************)
(* The steps.                                                              *)
(***************************************************************************)
Copies(q, m) == Cardinality({i \in DOMAIN q : q[i] = m})

\* A call writes at most three messages.
Sent(q, ms, i) ==
    IF i \in DOMAIN ms /\ (Datagram => Copies(q, ms[i]) < MaxCopies) THEN <<ms[i]>> ELSE <<>>
Put(n, e, ms) == [n EXCEPT ![e] = @ \o Sent(@, ms, 1) \o Sent(@, ms, 2) \o Sent(@, ms, 3)]

Faults == IF spent.faults < env.faults THEN {0, 1, 2} ELSE {0}
Count(p) == IF p THEN 1 ELSE 0

\* Where a datagram that arrives next may stand; a stream keeps its order.
Arrivals(e) == IF Datagram THEN DOMAIN net[e] ELSE {1} \cap DOMAIN net[e]

\* The read loop of an end hands message m to its Connection; the first Hello
\* creates the server's. A fatal error ends the loop.
Receive(e, m) ==
    /\ task[e] \in {"running", "closing"} \/ (task[e] = "absent" /\ m = "Hello")
    /\ \E i \in {k \in Arrivals(e) : net[e][k] = m}, grant \in Grants, fail \in Faults,
          due \in IF spent.updates < env.updates THEN BOOLEAN ELSE {FALSE} :
        LET r == Process(e, conn[e], m, grant, due, fail)
            asked == Authenticates(conn[e]) /\ m = "AuthRequest"
        IN  /\ conn' = [conn EXCEPT ![e] = r.c]
            /\ err' = [err EXCEPT ![e] = r.err]
            /\ net' = Put([net EXCEPT ![e] = RemoveAt(@, i)], Peer(e), r.out)
            /\ task' = [task EXCEPT ![e] = IF IsFatal(r.err) THEN "failed"
                                            ELSE IF @ = "absent" THEN "running" ELSE @]
            /\ granted' = (granted \/ (asked /\ grant))
            /\ spent' = [spent EXCEPT !.faults = @ + Count(fail # 0),
                            !.updates = @ + Count(conn[e].key # "Pending" /\ r.c.key = "Pending")]
    /\ UNCHANGED <<env, ticker>>

\* What the library would send again when its timer runs out.
Outstanding(e, c) ==
    CASE c.state = "Connecting" -> IF e = "client" THEN <<"Hello">> ELSE <<"Flight">>
      [] c.state # "Connecting" /\ c.updating -> <<"KeyUpdate">>
      [] OTHER -> <<>>

\* dtls_has_timed_out: has the timer run out, and have all repeats been used
Expiry(e) ==
    IF Outstanding(e, conn[e]) = <<>> THEN {FALSE}
    ELSE IF Timely THEN {\A d \in Ends, m \in LibraryMessage : Copies(net[d], m) = 0} ELSE BOOLEAN

GivesUp(c) == c.resends = MaxResends

\* connection_tick
ConnectionTick(e, c, expired, fail) ==
    LET again == [c EXCEPT !.timer = FALSE, !.resends = IF expired THEN @ + 1 ELSE @]
        off == Disconnect([c EXCEPT !.timer = FALSE])
        r == Authenticate([c EXCEPT !.timer = FALSE], <<>>, fail)
    IN  CASE c.state = "Authenticating" ->
                IF r.err = "None" THEN Result(UpdateTickInterval(r.c), r.out, "None") ELSE r
          [] c.state = "Disconnected" -> Result([c EXCEPT !.timer = FALSE], <<>>, "Disconnected")
          [] c.state \in {"Connecting", "LinkUp", "Online"} /\ expired /\ GivesUp(c) ->
                Result(off.c, off.out, "TimedOut")
          [] OTHER -> Result(UpdateTickInterval(again),
                             IF expired THEN Outstanding(e, c) ELSE <<>>, "None")

(* ConnectionTickerTask delivers the tick under way. It stops on TimedOut, *)
(* which ends a client's task; every other error it only logs.             *)
Tick(e) ==
    /\ ticker[e] /\ conn[e].timer /\ task[e] \in {"running", "closing", "failed"}
    /\ \E expired \in Expiry(e), fail \in Faults \ {2} :
        LET r == ConnectionTick(e, conn[e], expired, fail = 1)
            timedOut == r.err = "TimedOut"
        IN  /\ conn' = [conn EXCEPT ![e] = r.c]
            /\ net' = Put(net, Peer(e), r.out)
            /\ err' = [err EXCEPT ![e] = r.err]
            /\ ticker' = [ticker EXCEPT ![e] = ~timedOut]
            /\ task' = [task EXCEPT ![e] = IF timedOut /\ e = "client" THEN "failed" ELSE @]
            /\ spent' = [spent EXCEPT !.faults = @ + fail]
    /\ UNCHANGED <<env, granted>>

\* An Online end writes a frame nobody asked for: the client's keepalive, the
\* server's when it rotates the session id, or inside data of either.
SendTraffic(e, m) ==
    /\ m \in {"Ping", "Data"}
    /\ spent.pings < env.pings /\ task[e] = "running"
    /\ conn[e].state = "Online"
    /\ net' = Put(net, Peer(e), <<m>>)
    /\ spent' = [spent EXCEPT !.pings = @ + 1]
    /\ UNCHANGED <<env, conn, task, ticker, err, granted>>

\* What a peer sees of a task that ends: a stream is closed behind the farewell.
Farewell(r) == IF Datagram THEN r.out ELSE Append(r.out, "EOF")

\* A task that failed or was told to close disconnects its Connection and ends.
Teardown(e) ==
    /\ task[e] \in {"failed", "closing"}
    /\ LET r == Disconnect(conn[e])
       IN  /\ conn' = [conn EXCEPT ![e] = r.c]
           /\ net' = Put(net, Peer(e), Farewell(r))
    /\ task' = [task EXCEPT ![e] = "ended"]
    /\ UNCHANGED <<env, ticker, err, granted, spent>>

\* The user stops the client. Its loop goes on reading until the Disconnected
\* event has come round; a refused disconnect is an error, and ends it at once.
Stop ==
    /\ Stops /\ task["client"] = "running"
    /\ LET r == Disconnect(conn["client"])
       IN  /\ conn' = [conn EXCEPT !["client"] = r.c]
           /\ net' = Put(net, "server", r.out)
           /\ task' = [task EXCEPT !["client"] = IF r.err = "None" THEN "closing" ELSE "failed"]
    /\ UNCHANGED <<env, ticker, err, granted, spent>>

\* The server evicts the connection (idle, expired, stale) from its maps and
\* disconnects it: only a datagram that already found it still comes through,
\* while a stream's task reads on.
Evict ==
    /\ Stops /\ task["server"] = "running"
    /\ LET r == Disconnect(conn["server"])
       IN  /\ conn' = [conn EXCEPT !["server"] = r.c]
           /\ net' = Put(net, "client", r.out)
    /\ task' = [task EXCEPT !["server"] = IF Datagram THEN "closing" ELSE @]
    /\ UNCHANGED <<env, ticker, err, granted, spent>>

\* A stream's task that has read nothing for a while leaves unless Online.
AgeCheck ==
    /\ Stops /\ ~Datagram /\ task["server"] = "running"
    /\ conn["server"].state # "Online"
    /\ task' = [task EXCEPT !["server"] = "failed"]
    /\ UNCHANGED <<env, conn, ticker, err, net, granted, spent>>

\* The network loses a datagram.
Lose(e) ==
    /\ Datagram /\ spent.lost < env.lost
    /\ \E i \in DOMAIN net[e] : net' = [net EXCEPT ![e] = RemoveAt(@, i)]
    /\ spent' = [spent EXCEPT !.lost = @ + 1]
    /\ UNCHANGED <<env, conn, task, ticker, err, granted>>

Next ==
    \/ \E e \in Ends, m \in Message : Receive(e, m)
    \/ \E e \in Ends : Tick(e) \/ Teardown(e) \/ Lose(e)
    \/ \E e \in Ends, m \in Traffic : SendTraffic(e, m)
    \/ Stop \/ Evict \/ AgeCheck

Spec == Init /\ [][Next]_vars

(* The runtime runs every task that can run; the network delivers every    *)
(* message it does not lose, however many others overtake it.              *)
Fairness ==
    /\ \A e \in Ends, m \in Message : WF_vars(Receive(e, m))
    /\ \A e \in Ends : WF_vars(Tick(e)) /\ WF_vars(Teardown(e))
LiveSpec == Spec /\ Fairness

(***************************************************************************)
(* Properties.                                                             *)
(***************************************************************************)
(* Both ends, the tasks around them and what is under way have their types *)
(* (connection.rs).                                                        *)
TypeOK ==
    /\ conn \in [Ends -> [state : State, interval : BOOLEAN, timer : BOOLEAN, key : KeyState,
                          updating : BOOLEAN, resends : 0..MaxResends]]
    /\ task \in [Ends -> {"absent", "running", "closing", "failed", "ended"}]
    /\ ticker \in [Ends -> BOOLEAN]
    /\ err \in [Ends -> Error]
    /\ net \in [Ends -> Seq(Message)]
    /\ granted \in BOOLEAN
    /\ spent \in [lost : Nat, faults : Nat, updates : Nat, pings : Nat]

\* A client is Online only if the auth callback granted it and the server went
\* Online with it; the server may have left since (handle_auth_request writes
\* the reply and changes state in one call).
OnlineAgreed ==
    conn["client"].state = "Online" =>
        granted /\ conn["server"].state \in {"Online", "Disconnected"}

\* Disconnected is final: no message, tick or call late by any number of steps
\* revives a connection (handle_auth_response looks at no state but Online).
DisconnectedFinal ==
    [][\A e \in Ends : conn[e].state = "Disconnected" => conn'[e].state = "Disconnected"]_vars

\* As long as a connection advertises a tick interval one tick is under way to
\* it: the chain that retransmits handshakes, requests and key updates does not
\* break (update_tick_interval at the end of connection_tick).  Only a client
\* can lose it, to a write of its request that fails.
TickArmed ==
    \A e \in Ends :
        conn[e].interval /\ ticker[e] /\ conn[e].state # "Disconnected" =>
            conn[e].timer \/ (e = "client" /\ spent.faults > 0)

\* No frame goes the wrong way, and none meets a state that refuses it on a
\* stream, where that would be fatal. On datagrams one case is left: a frame of
\* the server's that overtook the AuthSuccess written before it finds the
\* granted client not yet Online and is refused with InvalidState, which the
\* client survives (handle_messages, ConnectionError::is_fatal). The server and
\* an end that is Online refuse nothing.
NoProtocolError ==
    \A e \in Ends :
        /\ err[e] # "InvalidMode"
        /\ err[e] = "InvalidState" =>
              Datagram /\ e = "client" /\ granted /\ conn["client"].state # "Online"

\* A tunnel nobody stops and no one refuses, whose network loses fewer
\* datagrams than the library repeats a flight.
Calm == /\ Datagram /\ Timely /\ ~Stops /\ Grants = {TRUE}
        /\ env.faults = 0 /\ env.lost < MaxResends

\* Such a tunnel gets both its ends Online: the ticks repeat the handshake and
\* the authentication request until each is through.
ComesUp == Calm => <>(\A e \in Ends : conn[e].state = "Online")

\* A key update completes although its messages are lost: the ticks resume
\* while it is Pending (update_tick_interval, key_update::State).
KeyUpdateCompletes ==
    (Calm /\ conn["server"].key = "Pending") ~> conn["server"].key = "Waiting"

\* When one end of a stream has ended, the other does too.
BothEnd ==
    \A e \in Ends : (~Datagram /\ task[e] = "ended") ~> task[Peer(e)] \in {"ended", "absent"}

(* Through losses, reordering, refusals and timers the two ends agree on   *)
(* being Online and neither waits without a tick (connection_tick,         *)
(* handle_auth_response).                                                  *)
TunnelSafe ==
  /\ TypeOK
  /\ OnlineAgreed
  /\ TickArmed
=============================================================================
