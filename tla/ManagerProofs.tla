----------------------------- MODULE ManagerProofs -----------------------------
(***************************************************************************)
(* Proofs about the server's connection bookkeeping, for any number of     *)
(* connections, addresses, inside IPs, receivers and disconnecting tasks,  *)
(* and for the datagram and the stream server.                             *)
(***************************************************************************)
EXTENDS ConnectionManager, FiniteSetTheorems, SequenceTheorems, TLAPS

Born(c) == conn[c].state # "Unborn"
Busy(t) == task[t].pc # "idle"

\* Session ids are drawn in order, each for a connection that was accepted.
Drawn(s, c) == s \in SessionIds /\ s <= sessions /\ owner[s] = c
OwnersBorn == \A s \in SessionIds : owner[s] # NoConn => s <= sessions /\ Born(owner[s])

\* A connection that was accepted has an address and the ids drawn for it, the
\* pending one being the younger; one that was not has nothing.
ConnsBorn ==
  \A c \in Conns :
    /\ Born(c) => /\ conn[c].addr \in Addrs /\ Drawn(conn[c].session_id, c)
                  /\ conn[c].pending_session_id # EMPTY =>
                       /\ Drawn(conn[c].pending_session_id, c)
                       /\ conn[c].session_id < conn[c].pending_session_id
    /\ ~Born(c) => ~conn[c].stale_timer /\ events[c] = <<>> /\ event_task[c] = "idle"

\* Nothing leads to a connection that was not accepted.
MappedBorn ==
  /\ \A a \in Addrs : by_socket_addr[a] # NoConn => Born(by_socket_addr[a])
  /\ \A ip \in IPs : ip_to_conn_map[ip] # NoConn => Born(ip_to_conn_map[ip])
  /\ \A c \in removed : Born(c)

\* What a task may work with between two lock regions.
Fits(x) ==
  /\ x.pc # "idle" => x.conn \in Conns /\ Born(x.conn)
  /\ x.pc \in {"process", "float", "remap"} => x.addr \in Addrs
  /\ x.pc = "insert" => Drawn(x.session, x.conn)
  /\ x.pc = "disconnect" => x.conn \in removed
TasksBorn == \A t \in Tasks : Fits(task[t])

\* The UDP loop is one task; a stream's task never floats or rotates; a
\* disconnecter only disconnects.
Turns ==
  /\ datagram => \A q, r \in Receivers : Busy(q) /\ Busy(r) => q = r
  /\ ~datagram => \A t \in Tasks : /\ task[t].pc \in {"idle", "process", "remove", "disconnect"}
                                   /\ task[t].session = EMPTY /\ ~task[t].floated
  /\ \A w \in Workers : task[w].pc \in {"idle", "remove", "disconnect"}

\* The events of a connection: an acknowledgement names ids of the connection,
\* and an event task between two halves has the event it works on.
EventsDrawn ==
  \A c \in Conns :
    /\ \A i \in 1..Len(events[c]) : events[c][i].kind = "Ack" =>
         /\ Drawn(events[c][i].old, c) /\ Drawn(events[c][i].new, c)
         /\ events[c][i].old < events[c][i].new /\ events[c][i].new <= conn[c].session_id
    /\ event_task[c] = "insert" =>
         events[c] # <<>> /\ events[c][1].kind = "KeyUpdate" /\ Drawn(events[c][1].new, c)
    /\ event_task[c] = "finalize" => events[c] # <<>> /\ events[c][1].kind = "Ack"

BookInv ==
  /\ TypeOK /\ OwnersBorn /\ ConnsBorn /\ MappedBorn /\ TasksBorn /\ Turns /\ EventsDrawn /\ NoCrossTalk
  /\ closed \subseteq removed

-----------------------------------------------------------------------------
\* What no step takes back.
Grows ==
  /\ \A c \in Conns : Born(c) => conn'[c].state # "Unborn"
  /\ sessions' \in Nat /\ sessions <= sessions'
  /\ \A s \in SessionIds : owner[s] # NoConn => owner'[s] = owner[s]
  /\ removed \subseteq removed' /\ datagram' = datagram

\* The place a task may go to next, given the other tasks.
MayGo(t, x) ==
  /\ datagram => x.pc = "idle" \/ t \in Workers \/ \A r \in Receivers \ {t} : ~Busy(r)
  /\ ~datagram => x.pc \in {"idle", "process", "remove", "disconnect"} /\ x.session = EMPTY /\ ~x.floated
  /\ t \in Workers => x.pc \in {"idle", "remove", "disconnect"}

LEMMA IdleFits == Idle \in TaskState /\ Idle.pc = "idle" /\ Idle.session = EMPTY /\ ~Idle.floated
BY DEF Idle, TaskState

\* Tasks stay as the invariant wants them when one moves to a fitting place.
LEMMA TaskStep ==
    ASSUME BookInv, Grows, NEW t \in Tasks, NEW x \in TaskState,
           task' = [task EXCEPT ![t] = x],
           x.pc # "idle" => x.conn \in Conns /\ conn'[x.conn].state # "Unborn",
           x.pc \in {"process", "float", "remap"} => x.addr \in Addrs,
           x.pc = "insert" => x.session \in SessionIds /\ x.session <= sessions' /\ owner'[x.session] = x.conn,
           x.pc = "disconnect" => x.conn \in removed',
           MayGo(t, x)
    PROVE  task' \in [Tasks -> TaskState] /\ TasksBorn' /\ Turns'
<1>1. /\ task' \in [Tasks -> TaskState] /\ task'[t] = x
      /\ \A u \in Tasks \ {t} : task'[u] = task[u]
    BY DEF BookInv, TypeOK
<1>2. TasksBorn'
    <2>1. ASSUME NEW u \in Tasks \ {t} PROVE Fits(task[u])'
        <3>1. Fits(task[u]) /\ task'[u] = task[u]
            BY <1>1 DEF BookInv, TasksBorn
        <3>2. task[u] \in TaskState /\ NoConn \notin Conns /\ sessions \in Nat /\ MaxSessions \in Nat
            BY ManagerAssumption DEF BookInv, TypeOK
        <3>3. \A s \in SessionIds, c \in Conns : Drawn(s, c) => Drawn(s, c)'
            BY <3>2 DEF Grows, Drawn, SessionIds
        <3>4. task[u].pc = "insert" => task[u].session \in SessionIds
            BY <3>1 DEF Fits, Drawn
        <3> QED BY <3>1, <3>3, <3>4 DEF Fits, Grows, Born
    <2>2. Fits(task[t])'
        BY <1>1 DEF Fits, Drawn, Born
    <2> QED BY <2>1, <2>2 DEF TasksBorn
<1>3. Turns'
    <2>0. Turns /\ datagram' = datagram /\ Receivers \cap Workers = {} /\ Receivers \subseteq Tasks /\ Workers \subseteq Tasks
        BY ManagerAssumption DEF BookInv, Grows, Tasks
    <2>1. ASSUME datagram, NEW q \in Receivers, NEW r \in Receivers, Busy(q)', Busy(r)' PROVE q = r
        <3>1. \A u \in Receivers \ {t} : Busy(u)' <=> Busy(u)
            BY <1>1, <2>0 DEF Busy
        <3>2. Busy(t)' <=> x.pc # "idle"
            BY <1>1 DEF Busy
        <3>3. CASE q = t \/ r = t
            BY <2>0, <2>1, <3>1, <3>2, <3>3 DEF MayGo
        <3>4. CASE q # t /\ r # t
            BY <2>0, <2>1, <3>1, <3>4 DEF Turns
        <3> QED BY <3>3, <3>4
    <2>2. ASSUME ~datagram, NEW u \in Tasks
          PROVE  /\ task'[u].pc \in {"idle", "process", "remove", "disconnect"}
                 /\ task'[u].session = EMPTY /\ ~task'[u].floated
        BY <1>1, <2>0, <2>2 DEF Turns, MayGo
    <2>3. ASSUME NEW w \in Workers PROVE task'[w].pc \in {"idle", "remove", "disconnect"}
        BY <1>1, <2>0, <2>3 DEF Turns, MayGo
    <2> QED BY <2>0, <2>1, <2>2, <2>3 DEF Turns
<1> QED BY <1>1, <1>2, <1>3

\* The same when no task moves.
LEMMA TasksStay ==
    ASSUME BookInv, Grows, task' = task
    PROVE  task' \in [Tasks -> TaskState] /\ TasksBorn' /\ Turns'
<1>1. TasksBorn'
    <2>1. ASSUME NEW u \in Tasks PROVE Fits(task[u])'
        <3>1. Fits(task[u])
            BY DEF BookInv, TasksBorn
        <3>2. task[u] \in TaskState /\ NoConn \notin Conns /\ sessions \in Nat /\ MaxSessions \in Nat
            BY ManagerAssumption DEF BookInv, TypeOK
        <3>3. \A s \in SessionIds, c \in Conns : Drawn(s, c) => Drawn(s, c)'
            BY <3>2 DEF Grows, Drawn, SessionIds
        <3>4. task[u].pc = "insert" => task[u].session \in SessionIds
            BY <3>1 DEF Fits, Drawn
        <3> QED BY <3>1, <3>3, <3>4 DEF Fits, Grows, Born
    <2> QED BY <2>1 DEF TasksBorn
<1>2. Turns'
    BY DEF BookInv, Turns, Grows, Busy
<1> QED BY <1>1, <1>2 DEF BookInv, TypeOK


\* The tasks are as the invariant wants them after the step.
TasksKept == task' \in [Tasks -> TaskState] /\ TasksBorn' /\ Turns'

LEMMA BusyMayGo ==
    ASSUME BookInv, NEW t \in Tasks, Busy(t), NEW x,
           ~datagram => x.pc \in {"idle", "process", "remove", "disconnect"} /\ x.session = EMPTY /\ ~x.floated,
           t \in Workers => x.pc \in {"idle", "remove", "disconnect"}
    PROVE  MayGo(t, x)
<1>1. datagram => t \in Workers \/ \A r \in Receivers \ {t} : ~Busy(r)
    BY DEF BookInv, Turns, Tasks
<1> QED BY <1>1 DEF MayGo

\* A task that is done: the UDP loop and a disconnecter let go of the
\* connection, a stream's task does not.
LEMMA DoneStep == ASSUME BookInv, Grows, NEW t \in Tasks, Done(t) PROVE TasksKept
<1>1. CASE task' = task
    BY <1>1, TasksStay DEF TasksKept
<1>2. CASE task' = [task EXCEPT ![t] = Idle]
    <2>1. MayGo(t, Idle)
        BY IdleFits DEF MayGo
    <2> QED BY <1>2, <2>1, IdleFits, TaskStep DEF TasksKept
<1> QED BY <1>1, <1>2 DEF Done

\* A task that goes on to remove its connection, or to rotate its id.
LEMMA GotoStep ==
    ASSUME BookInv, Grows, NEW t \in Tasks, Busy(t), NEW pc \in {"remove", "rotate"}, Goto(t, pc),
           pc = "rotate" => datagram /\ t \notin Workers
    PROVE  TasksKept
<1> DEFINE x == [Idle EXCEPT !.pc = pc, !.conn = task[t].conn]
<1>1. task[t].conn \in Conns /\ Born(task[t].conn)
    BY DEF BookInv, TasksBorn, Fits, Busy
<1>2. x \in TaskState /\ x.pc = pc /\ x.conn = task[t].conn /\ x.session = EMPTY /\ ~x.floated
    BY <1>1, IdleFits DEF TaskState
<1>3. task' = [task EXCEPT ![t] = x]
    BY DEF Goto
<1> HIDE DEF x
<1>4. MayGo(t, x)
    BY <1>2, BusyMayGo
<1>5. conn'[x.conn].state # "Unborn"
    BY <1>1, <1>2 DEF Grows
<1> QED BY <1>1, <1>2, <1>3, <1>4, <1>5, TaskStep DEF TasksKept

\* A receiver that has handled frames: the client floated, or it is done.
LEMMA FramesStep ==
    ASSUME BookInv, Grows, NEW t \in Receivers, task[t].pc = "process", AfterFrames(t)
    PROVE  TasksKept
<1> DEFINE x == [Idle EXCEPT !.pc = "float", !.conn = task[t].conn, !.addr = task[t].addr]
<1>0. t \in Tasks /\ t \notin Workers
    BY ManagerAssumption DEF Tasks
<1>1. CASE task[t].floated
    <2>1. task[t].conn \in Conns /\ Born(task[t].conn) /\ task[t].addr \in Addrs
        BY <1>0 DEF BookInv, TasksBorn, Fits
    <2>2. x \in TaskState /\ x.pc = "float" /\ x.conn = task[t].conn /\ x.addr = task[t].addr
        BY <2>1, IdleFits DEF TaskState
    <2>3. task' = [task EXCEPT ![t] = x]
        BY <1>1 DEF AfterFrames
    <2> HIDE DEF x
    <2>4. MayGo(t, x)
        BY <1>0, <1>1, <2>2, BusyMayGo DEF BookInv, Turns, Busy
    <2>5. conn'[x.conn].state # "Unborn"
        BY <2>1, <2>2 DEF Grows
    <2> QED BY <1>0, <2>1, <2>2, <2>3, <2>4, <2>5, TaskStep DEF TasksKept
<1>2. CASE ~task[t].floated
    BY <1>0, <1>2, DoneStep DEF AfterFrames
<1> QED BY <1>1, <1>2

-----------------------------------------------------------------------------
\* The steps that move one task and change nothing else.
OnlyTask == UNCHANGED <<datagram, conn, maps, pending_session_id_rotations, ips, events, event_task, sessions,
                        owner, removed, closed>>

LEMMA OnlyTaskGrows == ASSUME BookInv, OnlyTask PROVE Grows
BY DEF BookInv, TypeOK, OnlyTask, Grows, Born

LEMMA OnlyTaskBook ==
    ASSUME BookInv, OnlyTask, TasksKept
    PROVE  BookInv'
<1> USE DEF BookInv, OnlyTask, TasksKept, maps, ips
<1>1. TypeOK'
    BY DEF TypeOK
<1>2. OwnersBorn' /\ ConnsBorn' /\ MappedBorn'
    BY DEF OwnersBorn, ConnsBorn, MappedBorn, Born, Drawn
<1>3. EventsDrawn' /\ NoCrossTalk'
    BY DEF EventsDrawn, NoCrossTalk, Drawn
<1> QED BY <1>1, <1>2, <1>3

\* Where a receiver is when it has read a packet for connection c.
LEMMA TakeBook ==
    ASSUME BookInv, datagram, NEW r \in Receivers, \A q \in Receivers : task[q].pc = "idle",
           NEW a \in Addrs, NEW s \in 0..sessions, NEW c \in Conns, Born(c), Take(r, c, a, s), OnlyTask
    PROVE  BookInv'
<1> DEFINE x == [Idle EXCEPT !.pc = "process", !.conn = c, !.addr = a, !.session = s,
                             !.floated = (by_socket_addr[a] = NoConn /\ conn[c].addr # a)]
<1>1. x \in TaskState /\ x.pc = "process" /\ x.conn = c /\ x.addr = a
    <2>1. s \in SessionIds \cup {EMPTY}
        BY ManagerAssumption DEF BookInv, TypeOK, SessionIds, EMPTY
    <2> QED BY <2>1, IdleFits DEF TaskState
<1>2. task' = [task EXCEPT ![r] = x] /\ r \in Tasks /\ r \notin Workers
    BY ManagerAssumption DEF Take, Tasks
<1>3. MayGo(r, x)
    BY <1>1, <1>2 DEF MayGo, Busy
<1>4. conn'[c].state # "Unborn"
    BY DEF OnlyTask, Born
<1> HIDE DEF x
<1>5. TasksKept
    BY <1>1, <1>2, <1>3, <1>4, OnlyTaskGrows, TaskStep DEF TasksKept
<1> QED BY <1>5, OnlyTaskBook


LEMMA LookupBook ==
    ASSUME BookInv, datagram, NEW r \in Receivers, \A q \in Receivers : task[q].pc = "idle",
           NEW a \in Addrs, NEW s \in 0..sessions, LookupFound(r, a, s) \/ LookupPending(r, a, s)
    PROVE  BookInv'
<1>0. OnlyTask
    BY DEF LookupFound, LookupPending, OnlyTask
<1>1. /\ s # EMPTY => s \in SessionIds
      /\ \A u \in SessionIds : by_session_id[u] # NoConn => by_session_id[u] \in Conns /\ Born(by_session_id[u])
      /\ \A u \in SessionIds : pending_session_id_rotations[u] # NoConn =>
           pending_session_id_rotations[u] \in Conns /\ Born(pending_session_id_rotations[u])
    <2>1. s # EMPTY => s \in SessionIds
        BY ManagerAssumption DEF BookInv, TypeOK, SessionIds, EMPTY
    <2> QED BY <2>1 DEF BookInv, TypeOK, NoCrossTalk, OwnersBorn
<1>2. CASE LookupFound(r, a, s)
    <2>1. Found(a, s) \in Conns /\ Born(Found(a, s))
        BY <1>1, <1>2 DEF LookupFound, Found, BookInv, TypeOK, MappedBorn
    <2>2. Take(r, Found(a, s), a, s)
        BY <1>2 DEF LookupFound
    <2> QED BY <1>0, <2>1, <2>2, TakeBook
<1>3. CASE LookupPending(r, a, s)
    <2>1. pending_session_id_rotations[s] \in Conns /\ Born(pending_session_id_rotations[s])
        BY <1>1, <1>3 DEF LookupPending
    <2>2. Take(r, pending_session_id_rotations[s], a, s)
        BY <1>3 DEF LookupPending
    <2> QED BY <1>0, <2>1, <2>2, TakeBook
<1> QED BY <1>2, <1>3

\* The end of a packet that changed nothing, and the ways to a disconnect.
LEMMA EndsBook ==
    ASSUME BookInv, NEW t \in Tasks,
           \/ task[t].pc = "process" /\ ProcessNothing(t)
           \/ task[t].pc = "process" /\ ProcessFatal(t)
           \/ StreamEnds(t)
    PROVE  BookInv'
<1>0. OnlyTask /\ Grows
    BY OnlyTaskGrows DEF ProcessNothing, ProcessFatal, StreamEnds, OnlyTask
<1>1. CASE ProcessNothing(t)
    BY <1>0, <1>1, DoneStep, OnlyTaskBook DEF ProcessNothing
<1>2. CASE task[t].pc = "process" /\ ProcessFatal(t)
    <2>1. Busy(t) /\ Goto(t, "remove")
        BY <1>2 DEF Busy, ProcessFatal
    <2> QED BY <1>0, <2>1, GotoStep, OnlyTaskBook
<1>3. CASE StreamEnds(t)
    <2> DEFINE x == [Idle EXCEPT !.pc = "remove", !.conn = task[t].conn, !.last = TRUE]
    <2>1. Busy(t) /\ task[t].conn \in Conns /\ Born(task[t].conn)
        BY <1>3 DEF StreamEnds, BookInv, TasksBorn, Fits, Busy
    <2>2. x \in TaskState /\ x.pc = "remove" /\ x.conn = task[t].conn /\ x.session = EMPTY /\ ~x.floated
        BY <2>1, IdleFits DEF TaskState
    <2>3. task' = [task EXCEPT ![t] = x]
        BY <1>3 DEF StreamEnds
    <2> HIDE DEF x
    <2>4. MayGo(t, x)
        BY <2>1, <2>2, BusyMayGo
    <2>5. conn'[x.conn].state # "Unborn"
        BY <1>0, <2>1, <2>2 DEF Grows
    <2>6. TasksKept
        BY <1>0, <2>1, <2>2, <2>3, <2>4, <2>5, TaskStep DEF TasksKept
    <2> QED BY <1>0, <2>6, OnlyTaskBook
<1> QED BY <1>1, <1>2, <1>3

\* A disconnecter starts, for a connection that exists.
LEMMA SpawnStep ==
    ASSUME BookInv, Grows, NEW w \in Workers, NEW c \in Conns, Born(c), Spawn(w, c)
    PROVE  TasksKept
<1> DEFINE x == [Idle EXCEPT !.pc = "remove", !.conn = c]
<1>1. x \in TaskState /\ x.pc = "remove" /\ x.conn = c /\ x.session = EMPTY /\ ~x.floated
    BY IdleFits DEF TaskState
<1>2. task' = [task EXCEPT ![w] = x] /\ w \in Tasks
    BY DEF Spawn, Tasks
<1> HIDE DEF x
<1>3. MayGo(w, x)
    BY <1>1 DEF MayGo
<1>4. conn'[c].state # "Unborn"
    BY DEF Grows
<1> QED BY <1>1, <1>2, <1>3, <1>4, TaskStep DEF TasksKept

LEMMA SpawnDisconnectBook ==
    ASSUME BookInv, NEW w \in Workers, NEW c \in Conns, SpawnDisconnect(w, c)
    PROVE  BookInv'
<1>0. OnlyTask /\ Grows
    BY OnlyTaskGrows DEF SpawnDisconnect, OnlyTask
<1>1. c # NoConn
    BY ManagerAssumption
<1>2. Born(c)
    BY <1>1 DEF SpawnDisconnect, Img, BookInv, TypeOK, MappedBorn
<1> QED BY <1>0, <1>2, SpawnStep, OnlyTaskBook DEF SpawnDisconnect

-----------------------------------------------------------------------------
\* Entries of the pending rotations that are dropped.
LEMMA PendingDropBook ==
    ASSUME BookInv, pending_session_id_rotations' \in [SessionIds -> Conns \cup {NoConn}],
           \A s \in SessionIds : pending_session_id_rotations'[s] \in {NoConn, pending_session_id_rotations[s]},
           UNCHANGED <<datagram, conn, maps, ips, task, events, event_task, sessions, owner, removed, closed>>
    PROVE  BookInv'
<1>0. Grows
    BY DEF BookInv, TypeOK, Grows, Born
<1>1. TasksBorn' /\ Turns'
    BY <1>0, TasksStay
<1> USE DEF BookInv, maps, ips
<1>2. TypeOK'
    BY DEF TypeOK
<1>3. OwnersBorn' /\ ConnsBorn' /\ MappedBorn' /\ EventsDrawn'
    BY DEF OwnersBorn, ConnsBorn, MappedBorn, EventsDrawn, Born, Drawn
<1>4. NoCrossTalk'
    BY DEF NoCrossTalk
<1> QED BY <1>1, <1>2, <1>3, <1>4

LEMMA RejectBook == ASSUME BookInv, NEW a \in Addrs, NEW s \in 0..sessions, Reject(a, s) PROVE BookInv'
<1>1. /\ pending_session_id_rotations' \in [SessionIds -> Conns \cup {NoConn}]
      /\ \A u \in SessionIds : pending_session_id_rotations'[u] \in {NoConn, pending_session_id_rotations[u]}
    BY DEF Reject, BookInv, TypeOK
<1> QED BY <1>1, PendingDropBook DEF Reject

LEMMA CleanupBook == ASSUME BookInv, CleanupPending PROVE BookInv'
<1>1. /\ pending_session_id_rotations' \in [SessionIds -> Conns \cup {NoConn}]
      /\ \A u \in SessionIds : pending_session_id_rotations'[u] \in {NoConn, pending_session_id_rotations[u]}
    BY DEF CleanupPending, BookInv, TypeOK
<1> QED BY <1>1, PendingDropBook DEF CleanupPending

\* A connection is accepted: its id is the next one, so nobody had it.
LEMMA NewConnectionBook ==
    ASSUME BookInv, NEW r \in Receivers, NEW c \in Conns, NEW a \in Addrs, NewConnection(r, c, a),
           datagram => \A q \in Receivers : task[q].pc = "idle"
    PROVE  BookInv'
<1> DEFINE n == sessions + 1
           x == [Idle EXCEPT !.pc = "process", !.conn = c, !.addr = a]
<1>0. /\ r \in Tasks /\ r \notin Workers /\ c # NoConn /\ NoConn \notin Conns
      /\ MaxSessions \in Nat /\ sessions \in Nat /\ n \in SessionIds /\ n # EMPTY /\ sessions' = n /\ n <= MaxSessions
      /\ ~Born(c)
    BY ManagerAssumption DEF BookInv, TypeOK, NewConnection, Tasks, SessionIds, Born, EMPTY
<1>1. /\ conn' \in [Conns -> ConnState]
      /\ conn'[c].state = "Connecting" /\ conn'[c].addr = a /\ conn'[c].session_id = n
      /\ conn'[c].pending_session_id = EMPTY /\ conn'[c].stale_timer = TRUE
      /\ \A d \in Conns \ {c} : conn'[d] = conn[d]
    <2>1. [state |-> "Connecting", addr |-> a, session_id |-> n, pending_session_id |-> EMPTY,
           internal_ip |-> NoConn, stale_timer |-> TRUE] \in ConnState
        BY <1>0 DEF ConnState, States, EMPTY
    <2> QED BY <2>1 DEF NewConnection, BookInv, TypeOK
<1>2. /\ owner' \in [SessionIds -> Conns \cup {NoConn}] /\ owner'[n] = c
      /\ \A s \in SessionIds \ {n} : owner'[s] = owner[s]
      /\ by_session_id' \in [SessionIds -> Conns \cup {NoConn}] /\ by_session_id'[n] = c
      /\ \A s \in SessionIds \ {n} : by_session_id'[s] = by_session_id[s]
      /\ by_socket_addr' \in [Addrs -> Conns \cup {NoConn}] /\ by_socket_addr'[a] = c
      /\ \A b \in Addrs \ {a} : by_socket_addr'[b] = by_socket_addr[b]
    BY <1>0 DEF NewConnection, BookInv, TypeOK
<1>3. owner[n] = NoConn /\ pending_session_id_rotations[n] = NoConn
    BY <1>0 DEF BookInv, OwnersBorn, NoCrossTalk, TypeOK
<1>4. UNCHANGED <<datagram, pending_session_id_rotations, ips, events, event_task, removed, closed>>
    BY DEF NewConnection
<1>5. \A d \in Conns : Born(d) => Born(d)' /\ d # c
    BY <1>0, <1>1 DEF Born
<1>6. Grows
    BY <1>0, <1>2, <1>3, <1>4, <1>5 DEF Grows, Born
<1>7. \A s \in SessionIds, d \in Conns : Drawn(s, d) => Drawn(s, d)' /\ s # n /\ s < n
    BY <1>0, <1>2, <1>3 DEF Drawn, SessionIds
<1>8. TasksKept
    <2>1. x \in TaskState /\ x.pc = "process" /\ x.conn = c /\ x.addr = a /\ x.session = EMPTY /\ ~x.floated
        BY IdleFits DEF TaskState
    <2>2. task' = [task EXCEPT ![r] = x]
        BY DEF NewConnection
    <2> HIDE DEF x
    <2>3. MayGo(r, x)
        BY <1>0, <2>1 DEF MayGo, Busy
    <2> QED BY <1>0, <1>1, <1>6, <2>1, <2>2, <2>3, TaskStep DEF TasksKept
<1>9. TypeOK'
    BY <1>0, <1>1, <1>2, <1>4, <1>8 DEF TasksKept, BookInv, TypeOK, ips
<1>10. OwnersBorn'
    BY <1>0, <1>1, <1>2, <1>5 DEF BookInv, OwnersBorn, TypeOK, Born, SessionIds
<1>11. ConnsBorn'
    <2>1. ASSUME NEW d \in Conns \ {c} PROVE ConnsBorn!(d)'
        <3>1. ConnsBorn!(d)
            BY DEF BookInv, ConnsBorn
        <3>2. Born(d) => conn[d].session_id \in SessionIds
                         /\ (conn[d].pending_session_id # EMPTY => conn[d].pending_session_id \in SessionIds)
            BY <3>1 DEF Drawn
        <3> QED BY <1>1, <1>4, <1>7, <3>1, <3>2 DEF Born
    <2>2. ConnsBorn!(c)'
        BY <1>0, <1>1, <1>2 DEF Born, Drawn
    <2> QED BY <2>1, <2>2 DEF ConnsBorn
<1>12. MappedBorn'
    <2>1. Born(c)'
        BY <1>1 DEF Born
    <2>2. \A b \in Addrs : by_socket_addr'[b] # NoConn => conn'[by_socket_addr'[b]].state # "Unborn"
        <3>1. \A b \in Addrs : by_socket_addr[b] # NoConn => by_socket_addr[b] \in Conns /\ Born(by_socket_addr[b])
            BY DEF BookInv, MappedBorn, TypeOK
        <3> QED BY <1>2, <1>5, <2>1, <3>1 DEF Born
    <2>3. \A ip \in IPs : ip_to_conn_map'[ip] # NoConn => conn'[ip_to_conn_map'[ip]].state # "Unborn"
        BY <1>4, <1>5 DEF BookInv, MappedBorn, TypeOK, ips, Born
    <2>4. \A d \in removed' : Born(d)'
        BY <1>4, <1>5 DEF BookInv, MappedBorn, TypeOK
    <2> QED BY <2>2, <2>3, <2>4 DEF MappedBorn, Born
<1>13. EventsDrawn'
    <2>1. ASSUME NEW d \in Conns \ {c} PROVE EventsDrawn!(d)'
        <3>1. EventsDrawn!(d)
            BY DEF BookInv, EventsDrawn
        <3>2. event_task[d] = "insert" => events[d][1].new \in SessionIds
            BY <3>1 DEF Drawn
        <3>3. \A i \in 1..Len(events[d]) : events[d][i].kind = "Ack" =>
                events[d][i].old \in SessionIds /\ events[d][i].new \in SessionIds
            BY <3>1 DEF Drawn
        <3> QED BY <1>1, <1>4, <1>7, <3>1, <3>2, <3>3
    <2>2. events[c] = <<>> /\ event_task[c] = "idle"
        BY <1>0 DEF BookInv, ConnsBorn
    <2>3. EventsDrawn!(c)'
        BY <1>4, <2>2
    <2> QED BY <2>1, <2>3 DEF EventsDrawn
<1>14. NoCrossTalk'
    BY <1>2, <1>3, <1>4 DEF BookInv, NoCrossTalk
<1> QED BY <1>4, <1>8, <1>9, <1>10, <1>11, <1>12, <1>13, <1>14 DEF BookInv, TasksKept

-----------------------------------------------------------------------------
\* Steps that change one connection but not its ids, and the inside IPs.
ConnBecomes(c, y) ==
  /\ conn' = [conn EXCEPT ![c] = y]
  /\ UNCHANGED <<datagram, maps, pending_session_id_rotations, events, event_task, sessions, owner, removed>>

SameIds(c, y) == /\ y.state # "Unborn" /\ y.addr \in Addrs
                 /\ y.session_id = conn[c].session_id /\ y.pending_session_id = conn[c].pending_session_id

LEMMA ConnGrows ==
    ASSUME BookInv, NEW c \in Conns, NEW y \in ConnState, ConnBecomes(c, y), y.state # "Unborn"
    PROVE  Grows
BY DEF BookInv, TypeOK, ConnBecomes, Grows, Born

LEMMA ConnBook ==
    ASSUME BookInv, NEW c \in Conns, Born(c), NEW y \in ConnState, ConnBecomes(c, y), SameIds(c, y), TasksKept,
           ip_to_conn_map' \in [IPs -> Conns \cup {NoConn}] /\ available_ips' \in Seq(IPs) /\ allocated_ips' \subseteq IPs,
           \A ip \in IPs : ip_to_conn_map'[ip] \in {NoConn, c, ip_to_conn_map[ip]},
           closed' \subseteq removed'
    PROVE  BookInv'
<1> USE DEF ConnBecomes, SameIds
<1>1. conn' \in [Conns -> ConnState] /\ conn'[c] = y /\ \A d \in Conns \ {c} : conn'[d] = conn[d]
    BY DEF BookInv, TypeOK
<1>2. \A d \in Conns : Born(d)' <=> Born(d)
    BY <1>1 DEF Born
<1>3. \A d \in Conns : conn'[d].session_id = conn[d].session_id /\ conn'[d].pending_session_id = conn[d].pending_session_id
    BY <1>1
<1>4. \A n, d : Drawn(n, d)' <=> Drawn(n, d)
    BY DEF Drawn
<1>5. TypeOK'
    BY <1>1 DEF BookInv, TypeOK, TasksKept, maps
<1>6. OwnersBorn'
    BY <1>2 DEF BookInv, TypeOK, OwnersBorn
<1>7. ConnsBorn'
    <2>1. \A d \in Conns : Born(d) => conn'[d].addr \in Addrs
        BY <1>1 DEF BookInv, ConnsBorn
    <2>2. \A d \in Conns : ~Born(d) => ~conn'[d].stale_timer /\ events'[d] = <<>> /\ event_task'[d] = "idle"
        BY <1>1 DEF BookInv, ConnsBorn
    <2> QED BY <1>2, <1>3, <1>4, <2>1, <2>2 DEF BookInv, ConnsBorn
<1>8. MappedBorn'
    <2>1. \A b \in Addrs : by_socket_addr'[b] # NoConn => conn'[by_socket_addr'[b]].state # "Unborn"
        BY <1>2 DEF BookInv, MappedBorn, TypeOK, maps, Born
    <2>2. \A ip \in IPs : ip_to_conn_map'[ip] # NoConn => conn'[ip_to_conn_map'[ip]].state # "Unborn"
        BY <1>2 DEF BookInv, MappedBorn, TypeOK, Born
    <2>3. \A d \in removed' : Born(d)'
        BY <1>2 DEF BookInv, MappedBorn, TypeOK
    <2> QED BY <2>1, <2>2, <2>3 DEF MappedBorn, Born
<1>9. EventsDrawn'
    BY <1>3, <1>4 DEF BookInv, EventsDrawn
<1>10. NoCrossTalk'
    BY DEF BookInv, NoCrossTalk, maps
<1> QED BY <1>5, <1>6, <1>7, <1>8, <1>9, <1>10 DEF BookInv, TasksKept

\* Freeing an inside IP.
LEMMA FreeTyped ==
    ASSUME BookInv, NEW c \in Conns, Free(conn[c])
    PROVE  /\ ip_to_conn_map' \in [IPs -> Conns \cup {NoConn}] /\ available_ips' \in Seq(IPs) /\ allocated_ips' \subseteq IPs
           /\ \A ip \in IPs : ip_to_conn_map'[ip] \in {NoConn, c, ip_to_conn_map[ip]}
<1>1. conn[c].internal_ip \in IPs \cup {NoConn}
    BY DEF BookInv, TypeOK, ConnState
<1>2. CASE Disconnects(conn[c]) /\ conn[c].internal_ip # NoConn
    <2>1. /\ ip_to_conn_map' = [ip_to_conn_map EXCEPT ![conn[c].internal_ip] = NoConn]
          /\ available_ips' = Append(available_ips, conn[c].internal_ip)
          /\ allocated_ips' = allocated_ips \ {conn[c].internal_ip}
        BY <1>2, Zenon DEF Free
    <2> QED BY <1>1, <1>2, <2>1 DEF BookInv, TypeOK
<1>3. CASE ~(Disconnects(conn[c]) /\ conn[c].internal_ip # NoConn)
    <2>1. UNCHANGED <<ip_to_conn_map, available_ips, allocated_ips>>
        BY <1>3, Zenon DEF Free, ips
    <2> QED BY <2>1 DEF BookInv, TypeOK
<1> QED BY <1>2, <1>3

\* What Connection::disconnect of lightway-core makes of a connection.
LEMMA DisconnectedTyped ==
    ASSUME BookInv, NEW c \in Conns, Born(c)
    PROVE  Disconnected(conn[c]) \in ConnState /\ SameIds(c, Disconnected(conn[c]))
<1>1. conn[c] \in ConnState /\ conn[c].addr \in Addrs
    BY DEF BookInv, TypeOK, ConnsBorn
<1> QED BY <1>1 DEF Disconnected, SameIds, Born, ConnState, States

LEMMA HandshakeBook ==
    ASSUME BookInv, NEW t \in Receivers, task[t].pc = "process", ProcessHandshake(t)
    PROVE  BookInv'
<1> DEFINE c == task[t].conn
           y == [conn[c] EXCEPT !.state = "LinkUp"]
<1>1. t \in Tasks /\ c \in Conns /\ Born(c)
    BY DEF Tasks, BookInv, TasksBorn, Fits
<1>2. y \in ConnState /\ SameIds(c, y)
    <2>1. conn[c] \in ConnState /\ conn[c].addr \in Addrs
        BY <1>1 DEF BookInv, TypeOK, ConnsBorn
    <2> QED BY <2>1 DEF ConnState, States, SameIds
<1>3. conn' = [conn EXCEPT ![c] = y]
    BY DEF ProcessHandshake
<1>4. ConnBecomes(c, y)
    BY <1>3 DEF ProcessHandshake, ConnBecomes
<1> HIDE DEF y
<1>5. TasksKept
    BY <1>1, <1>2, <1>4, ConnGrows, DoneStep DEF ProcessHandshake, SameIds
<1>6. /\ ip_to_conn_map' \in [IPs -> Conns \cup {NoConn}] /\ available_ips' \in Seq(IPs) /\ allocated_ips' \subseteq IPs
      /\ \A ip \in IPs : ip_to_conn_map'[ip] \in {NoConn, c, ip_to_conn_map[ip]}
      /\ closed' \subseteq removed'
    BY DEF ProcessHandshake, ips, BookInv, TypeOK
<1> QED BY <1>1, <1>2, <1>4, <1>5, <1>6, ConnBook

LEMMA AuthFailsBook ==
    ASSUME BookInv, NEW t \in Receivers, task[t].pc = "process", ProcessAuthFails(t)
    PROVE  BookInv'
<1> DEFINE c == task[t].conn
           y == Disconnected(conn[c])
<1>1. t \in Tasks /\ c \in Conns /\ Born(c) /\ Busy(t)
    BY DEF Tasks, BookInv, TasksBorn, Fits, Busy
<1>2. y \in ConnState /\ SameIds(c, y)
    BY <1>1, DisconnectedTyped
<1>3. ConnBecomes(c, y)
    BY DEF ProcessAuthFails, ConnBecomes
<1> HIDE DEF y
<1>4. TasksKept
    BY <1>1, <1>2, <1>3, ConnGrows, GotoStep DEF ProcessAuthFails, SameIds
<1>5. /\ ip_to_conn_map' \in [IPs -> Conns \cup {NoConn}] /\ available_ips' \in Seq(IPs) /\ allocated_ips' \subseteq IPs
      /\ \A ip \in IPs : ip_to_conn_map'[ip] \in {NoConn, c, ip_to_conn_map[ip]}
    <2>1. CASE Free(conn[c])
        BY <1>1, <2>1, FreeTyped
    <2>2. CASE /\ available_ips # <<>> /\ available_ips' = Append(Tail(available_ips), Head(available_ips))
               /\ UNCHANGED <<ip_to_conn_map, allocated_ips>>
        BY <2>2 DEF BookInv, TypeOK
    <2> QED BY <2>1, <2>2 DEF ProcessAuthFails
<1>6. closed' \subseteq removed'
    BY DEF ProcessAuthFails, BookInv
<1> QED BY <1>1, <1>2, <1>3, <1>4, <1>5, <1>6, ConnBook

LEMMA LwDisconnectBook == ASSUME BookInv, NEW t \in Tasks, LwDisconnect(t) PROVE BookInv'
<1> DEFINE c == task[t].conn
           y == Disconnected(conn[c])
           x == [task[t] EXCEPT !.pc = "remove", !.last = TRUE]
<1>1. c \in Conns /\ Born(c) /\ Busy(t) /\ c \in removed
    BY DEF LwDisconnect, BookInv, TasksBorn, Fits, Busy
<1>2. y \in ConnState /\ SameIds(c, y)
    BY <1>1, DisconnectedTyped
<1>3. ConnBecomes(c, y)
    BY DEF LwDisconnect, ConnBecomes
<1> HIDE DEF y
<1>4. Grows
    BY <1>1, <1>2, <1>3, ConnGrows DEF SameIds
<1>5. TasksKept
    <2>1. CASE task' = [task EXCEPT ![t] = Idle]
        <3>1. MayGo(t, Idle)
            BY IdleFits DEF MayGo
        <3> QED BY <1>4, <2>1, <3>1, IdleFits, TaskStep DEF TasksKept
    <2>2. CASE ~datagram /\ task' = [task EXCEPT ![t].pc = "remove", ![t].last = TRUE]
        <3>1. task[t] \in TaskState /\ task[t].session = EMPTY /\ ~task[t].floated
            BY <2>2 DEF BookInv, TypeOK, Turns
        <3>2. /\ x \in TaskState /\ x.pc = "remove" /\ x.conn = c
              /\ x.session = task[t].session /\ x.floated = task[t].floated
            BY <3>1 DEF TaskState
        <3>3. task' = [task EXCEPT ![t] = x]
            BY <2>2 DEF BookInv, TypeOK
        <3> HIDE DEF x
        <3>4. MayGo(t, x)
            BY <1>1, <3>1, <3>2, BusyMayGo
        <3>5. conn'[x.conn].state # "Unborn"
            BY <1>1, <1>4, <3>2 DEF Grows
        <3> QED BY <1>1, <1>4, <3>2, <3>3, <3>4, <3>5, TaskStep DEF TasksKept
    <2> QED BY <2>1, <2>2 DEF LwDisconnect
<1>6. /\ ip_to_conn_map' \in [IPs -> Conns \cup {NoConn}] /\ available_ips' \in Seq(IPs) /\ allocated_ips' \subseteq IPs
      /\ \A ip \in IPs : ip_to_conn_map'[ip] \in {NoConn, c, ip_to_conn_map[ip]}
    BY <1>1, FreeTyped DEF LwDisconnect
<1>7. closed' \subseteq removed'
    BY <1>1 DEF LwDisconnect, BookInv
<1> QED BY <1>1, <1>2, <1>3, <1>5, <1>6, <1>7, ConnBook

\* Nothing is alive that was not accepted.
LEMMA AliveBorn == ASSUME BookInv, NEW c \in Conns, conn[c].stale_timer \/ Disconnects(conn[c]) PROVE Born(c)
BY DEF BookInv, ConnsBorn, Born, Disconnects

LEMMA TimedOutBook == ASSUME BookInv, NEW c \in Conns, TimedOut(c) PROVE BookInv'
<1> DEFINE y == Disconnected(conn[c])
<1>1. Born(c)
    BY AliveBorn DEF TimedOut
<1>2. y \in ConnState /\ SameIds(c, y)
    BY <1>1, DisconnectedTyped
<1>3. ConnBecomes(c, y)
    BY DEF TimedOut, ConnBecomes
<1> HIDE DEF y
<1>4. TasksKept
    BY <1>2, <1>3, ConnGrows, TasksStay DEF TimedOut, SameIds, TasksKept
<1>5. /\ ip_to_conn_map' \in [IPs -> Conns \cup {NoConn}] /\ available_ips' \in Seq(IPs) /\ allocated_ips' \subseteq IPs
      /\ \A ip \in IPs : ip_to_conn_map'[ip] \in {NoConn, c, ip_to_conn_map[ip]}
    BY FreeTyped DEF TimedOut
<1>6. closed' \subseteq removed'
    BY DEF TimedOut, BookInv
<1> QED BY <1>1, <1>2, <1>3, <1>4, <1>5, <1>6, ConnBook

LEMMA StaleBook == ASSUME BookInv, NEW w \in Workers, NEW c \in Conns, Stale(w, c) PROVE BookInv'
<1> DEFINE y == [conn[c] EXCEPT !.stale_timer = FALSE]
<1>1. Born(c)
    BY AliveBorn DEF Stale
<1>2. y \in ConnState /\ SameIds(c, y)
    BY <1>1, ZenonT(40) DEF BookInv, TypeOK, ConnsBorn, ConnState, SameIds, Born
<1>3. conn' = [conn EXCEPT ![c] = y]
    BY DEF Stale
<1>4. ConnBecomes(c, y)
    BY <1>3 DEF Stale, ConnBecomes
<1> HIDE DEF y
<1>5. Grows
    BY <1>2, <1>4, ConnGrows DEF SameIds
<1>6. TasksKept
    BY <1>1, <1>5, TasksStay, SpawnStep DEF Stale, TasksKept
<1>7. /\ ip_to_conn_map' \in [IPs -> Conns \cup {NoConn}] /\ available_ips' \in Seq(IPs) /\ allocated_ips' \subseteq IPs
      /\ \A ip \in IPs : ip_to_conn_map'[ip] \in {NoConn, c, ip_to_conn_map[ip]}
      /\ closed' \subseteq removed'
    BY DEF Stale, ips, BookInv, TypeOK
<1> QED BY <1>1, <1>2, <1>4, <1>6, <1>7, ConnBook

LEMMA FloatConnBook == ASSUME BookInv, NEW t \in Receivers, FloatConn(t) PROVE BookInv'
<1> DEFINE c == task[t].conn
           y == [conn[c] EXCEPT !.addr = task[t].addr]
           x == [task[t] EXCEPT !.pc = "remap", !.addr = conn[c].addr]
<1>1. t \in Tasks /\ t \notin Workers /\ c \in Conns /\ Born(c) /\ task[t].addr \in Addrs /\ Busy(t) /\ datagram
    BY ManagerAssumption DEF FloatConn, Tasks, BookInv, TasksBorn, Fits, Busy, Turns
<1>2. y \in ConnState /\ SameIds(c, y) /\ conn[c].addr \in Addrs
    <2>1. conn[c] \in ConnState /\ conn[c].addr \in Addrs
        BY <1>1 DEF BookInv, TypeOK, ConnsBorn
    <2> QED BY <1>1, <2>1 DEF ConnState, SameIds, Born
<1>3. conn' = [conn EXCEPT ![c] = y]
    BY DEF FloatConn
<1>4. ConnBecomes(c, y)
    BY <1>3 DEF FloatConn, ConnBecomes
<1> HIDE DEF y
<1>5. Grows
    BY <1>1, <1>2, <1>4, ConnGrows DEF SameIds
<1>6. TasksKept
    <2>1. x \in TaskState /\ x.pc = "remap" /\ x.conn = c /\ x.addr = conn[c].addr
        BY <1>1, <1>2, ZenonT(40) DEF BookInv, TypeOK, TaskState
    <2>2. task' = [task EXCEPT ![t] = x]
        BY DEF FloatConn, BookInv, TypeOK
    <2> HIDE DEF x
    <2>3. MayGo(t, x)
        BY <1>1, BusyMayGo
    <2>4. conn'[x.conn].state # "Unborn"
        BY <1>1, <1>5, <2>1 DEF Grows
    <2> QED BY <1>1, <1>2, <1>5, <2>1, <2>2, <2>3, <2>4, TaskStep DEF TasksKept
<1>7. /\ ip_to_conn_map' \in [IPs -> Conns \cup {NoConn}] /\ available_ips' \in Seq(IPs) /\ allocated_ips' \subseteq IPs
      /\ \A ip \in IPs : ip_to_conn_map'[ip] \in {NoConn, c, ip_to_conn_map[ip]}
      /\ closed' \subseteq removed'
    BY DEF FloatConn, ips, BookInv, TypeOK
<1> QED BY <1>1, <1>2, <1>4, <1>6, <1>7, ConnBook

-----------------------------------------------------------------------------
\* Steps that change the address map, and what a task knows.
LEMMA AddressBook ==
    ASSUME BookInv, TasksKept, by_socket_addr' \in [Addrs -> Conns \cup {NoConn}],
           \A a \in Addrs : by_socket_addr'[a] # NoConn => \E b \in Addrs : by_socket_addr'[a] = by_socket_addr[b],
           by_session_id' \in [SessionIds -> Conns \cup {NoConn}],
           \A s \in SessionIds : by_session_id'[s] \in {NoConn, by_session_id[s]},
           removed \subseteq removed' /\ removed' \subseteq Conns /\ \A c \in removed' : Born(c),
           UNCHANGED <<datagram, conn, pending_session_id_rotations, ips, events, event_task, sessions, owner, closed>>
    PROVE  BookInv'
<1> USE DEF ips
<1>1. TypeOK'
    BY DEF BookInv, TypeOK, TasksKept
<1>2. OwnersBorn' /\ ConnsBorn' /\ EventsDrawn'
    BY DEF BookInv, OwnersBorn, ConnsBorn, EventsDrawn, Born, Drawn
<1>3. MappedBorn'
    <2>1. \A a \in Addrs : by_socket_addr'[a] # NoConn => Born(by_socket_addr'[a])
        BY DEF BookInv, MappedBorn
    <2> QED BY <2>1 DEF BookInv, MappedBorn, Born
<1>4. NoCrossTalk'
    BY DEF BookInv, NoCrossTalk
<1> QED BY <1>1, <1>2, <1>3, <1>4 DEF BookInv, TasksKept

LEMMA FloatMapBook == ASSUME BookInv, NEW t \in Receivers, FloatMap(t) PROVE BookInv'
<1> DEFINE old == task[t].addr
           a == conn[task[t].conn].addr
           v == by_socket_addr[old]
<1>1. t \in Tasks /\ t \notin Workers /\ Busy(t) /\ datagram /\ task[t].conn \in Conns /\ old \in Addrs /\ a \in Addrs
    BY ManagerAssumption DEF FloatMap, Tasks, BookInv, TasksBorn, ConnsBorn, Fits, Busy, Turns
<1>2. Grows
    BY DEF FloatMap, BookInv, TypeOK, Grows, Born
<1>3. TasksKept
    BY <1>1, <1>2, GotoStep DEF FloatMap
<1>4. /\ by_socket_addr' \in [Addrs -> Conns \cup {NoConn}]
      /\ \A b \in Addrs : by_socket_addr'[b] # NoConn => \E d \in Addrs : by_socket_addr'[b] = by_socket_addr[d]
    <2>1. by_socket_addr \in [Addrs -> Conns \cup {NoConn}]
        BY DEF BookInv, TypeOK
    <2>2. by_socket_addr' = IF v = NoConn THEN by_socket_addr
                            ELSE [[by_socket_addr EXCEPT ![old] = NoConn] EXCEPT ![a] = v]
        BY DEF FloatMap
    <2>3. CASE v = NoConn
        BY <2>1, <2>2, <2>3
    <2>4. CASE v # NoConn
        BY <1>1, <2>1, <2>2, <2>4
    <2> QED BY <2>3, <2>4
<1>5. /\ UNCHANGED <<datagram, conn, by_session_id, pending_session_id_rotations, ips, events, event_task,
                      sessions, owner, removed, closed>>
    BY DEF FloatMap
<1>6. /\ by_session_id' \in [SessionIds -> Conns \cup {NoConn}]
      /\ removed' \subseteq Conns /\ \A c \in removed' : Born(c)
    BY <1>5 DEF BookInv, TypeOK, MappedBorn
<1> QED BY <1>3, <1>4, <1>5, <1>6, AddressBook

LEMMA RemoveBook == ASSUME BookInv, NEW t \in Tasks, RemoveConnection(t) PROVE BookInv'
<1> DEFINE c == task[t].conn
           x == [task[t] EXCEPT !.pc = "disconnect"]
<1>1. c \in Conns /\ Born(c) /\ Busy(t)
    BY DEF RemoveConnection, BookInv, TasksBorn, Fits, Busy
<1>2. /\ removed' = removed \cup {c}
      /\ UNCHANGED <<datagram, conn, pending_session_id_rotations, ips, events, event_task, sessions, owner, closed>>
    BY DEF RemoveConnection
<1>3. Grows
    BY <1>2 DEF BookInv, TypeOK, Grows, Born
<1>4. TasksKept
    <2>1. task[t] \in TaskState /\ (~datagram => task[t].session = EMPTY /\ ~task[t].floated)
        BY DEF BookInv, TypeOK, Turns
    <2>2. /\ x \in TaskState /\ x.pc = "disconnect" /\ x.conn = c
          /\ x.session = task[t].session /\ x.floated = task[t].floated
        BY <2>1 DEF TaskState
    <2>3. task' = [task EXCEPT ![t] = x]
        BY DEF RemoveConnection, BookInv, TypeOK
    <2> HIDE DEF x
    <2>4. MayGo(t, x)
        BY <1>1, <2>1, <2>2, BusyMayGo
    <2>5. conn'[x.conn].state # "Unborn" /\ x.conn \in removed'
        BY <1>1, <1>2, <2>2 DEF Born
    <2> QED BY <1>1, <1>3, <2>2, <2>3, <2>4, <2>5, TaskStep DEF TasksKept
<1>5. /\ by_socket_addr' \in [Addrs -> Conns \cup {NoConn}]
      /\ \A b \in Addrs : by_socket_addr'[b] # NoConn => \E d \in Addrs : by_socket_addr'[b] = by_socket_addr[d]
    BY DEF RemoveConnection, BookInv, TypeOK
<1>6. /\ by_session_id' \in [SessionIds -> Conns \cup {NoConn}]
      /\ \A s \in SessionIds : by_session_id'[s] \in {NoConn, by_session_id[s]}
    BY DEF RemoveConnection, BookInv, TypeOK
<1>7. removed \subseteq removed' /\ removed' \subseteq Conns /\ \A d \in removed' : Born(d)
    BY <1>1, <1>2 DEF BookInv, TypeOK, MappedBorn
<1> QED BY <1>2, <1>4, <1>5, <1>6, <1>7, AddressBook

-----------------------------------------------------------------------------
\* The rest of a queue after its head.
LEMMA TailFacts ==
    ASSUME NEW q \in Seq(Event), q # <<>>
    PROVE  /\ Tail(q) \in Seq(Event) /\ Len(Tail(q)) = Len(q) - 1 /\ Len(q) \in Nat \ {0} /\ Head(q) = q[1]
           /\ \A i \in 1..Len(Tail(q)) : i + 1 \in 1..Len(q) /\ Tail(q)[i] = q[i + 1]
    OBVIOUS

\* Drawing the next session id for c.
LEMMA DrawFacts ==
    ASSUME BookInv, NEW c \in Conns, Born(c), Draw(c), UNCHANGED <<datagram, removed>>
    PROVE  /\ sessions' = sessions + 1 /\ sessions + 1 \in SessionIds /\ sessions + 1 # EMPTY
           /\ owner[sessions + 1] = NoConn
           /\ owner' \in [SessionIds -> Conns \cup {NoConn}] /\ owner'[sessions + 1] = c
           /\ \A s \in SessionIds \ {sessions + 1} : owner'[s] = owner[s]
           /\ conn' \in [Conns -> ConnState] /\ conn'[c].pending_session_id = sessions + 1
           /\ conn'[c].session_id = conn[c].session_id /\ conn'[c].addr = conn[c].addr
           /\ conn'[c].state = conn[c].state /\ conn'[c].internal_ip = conn[c].internal_ip
           /\ \A d \in Conns \ {c} : conn'[d] = conn[d]
           /\ \A s \in SessionIds, d \in Conns : Drawn(s, d) => Drawn(s, d)' /\ s < sessions + 1
           /\ Grows
<1> DEFINE n == sessions + 1
<1>1. /\ MaxSessions \in Nat /\ sessions \in Nat /\ n \in SessionIds /\ n # EMPTY /\ sessions' = n /\ NoConn \notin Conns
    BY ManagerAssumption DEF BookInv, TypeOK, Draw, SessionIds, EMPTY
<1>2. owner[n] = NoConn
    BY <1>1 DEF BookInv, TypeOK, OwnersBorn
<1>3. /\ owner' \in [SessionIds -> Conns \cup {NoConn}] /\ owner'[n] = c
      /\ \A s \in SessionIds \ {n} : owner'[s] = owner[s]
    BY <1>1 DEF BookInv, TypeOK, Draw
<1>4. /\ conn' \in [Conns -> ConnState] /\ conn'[c].pending_session_id = n
      /\ conn'[c].session_id = conn[c].session_id /\ conn'[c].addr = conn[c].addr
      /\ conn'[c].state = conn[c].state /\ conn'[c].internal_ip = conn[c].internal_ip
      /\ \A d \in Conns \ {c} : conn'[d] = conn[d]
    <2>1. conn \in [Conns -> ConnState] /\ conn[c] \in ConnState
        BY DEF BookInv, TypeOK
    <2>2. conn' = [conn EXCEPT ![c] = [conn[c] EXCEPT !.pending_session_id = n]]
        BY DEF Draw
    <2>3. [conn[c] EXCEPT !.pending_session_id = n] \in ConnState
        BY <1>1, <2>1 DEF ConnState
    <2> QED BY <2>1, <2>2, <2>3 DEF ConnState
<1>5. \A s \in SessionIds, d \in Conns : Drawn(s, d) => Drawn(s, d)' /\ s < n
    BY <1>1, <1>2, <1>3 DEF Drawn, SessionIds
<1>6. Grows
    BY <1>1, <1>2, <1>3, <1>4 DEF Grows, Born
<1> QED BY <1>1, <1>2, <1>3, <1>4, <1>5, <1>6

LEMMA DrawBook ==
    ASSUME BookInv, NEW c \in Conns, Born(c), Draw(c), TasksKept,
           UNCHANGED <<datagram, maps, pending_session_id_rotations, ips, removed, closed>>,
           events' \in [Conns -> Seq(Event)], event_task' \in [Conns -> {"idle", "insert", "finalize"}],
           \A d \in Conns \ {c} : events'[d] = events[d] /\ event_task'[d] = event_task[d],
           EventsDrawn!(c)'
    PROVE  BookInv'
<1> DEFINE n == sessions + 1
<1>0. /\ sessions' = n /\ n \in SessionIds /\ n # EMPTY /\ owner[n] = NoConn
      /\ owner' \in [SessionIds -> Conns \cup {NoConn}] /\ owner'[n] = c
      /\ \A s \in SessionIds \ {n} : owner'[s] = owner[s]
      /\ conn' \in [Conns -> ConnState] /\ conn'[c].pending_session_id = n
      /\ conn'[c].session_id = conn[c].session_id /\ conn'[c].addr = conn[c].addr /\ conn'[c].state = conn[c].state
      /\ \A d \in Conns \ {c} : conn'[d] = conn[d]
      /\ \A s \in SessionIds, d \in Conns : Drawn(s, d) => Drawn(s, d)' /\ s < n
    BY DrawFacts
<1> HIDE DEF n
<1>1. \A d \in Conns : Born(d)' <=> Born(d)
    BY <1>0 DEF Born
<1>2. TypeOK'
    <2>1. sessions' \in 0..MaxSessions
        BY <1>0, ManagerAssumption DEF SessionIds
    <2> QED BY <1>0, <2>1 DEF BookInv, TypeOK, TasksKept, maps, ips
<1>3. OwnersBorn'
    <2>1. \A s \in SessionIds : owner[s] # NoConn => s <= sessions /\ owner[s] \in Conns /\ Born(owner[s])
        BY DEF BookInv, TypeOK, OwnersBorn
    <2>2. \A s \in SessionIds : s <= sessions => s <= n
        BY ManagerAssumption DEF n, SessionIds, BookInv, TypeOK
    <2>3. n <= n
        BY <1>0 DEF SessionIds
    <2> QED BY <1>0, <1>1, <2>1, <2>2, <2>3 DEF OwnersBorn, Born
<1>4. ConnsBorn'
    <2>1. ASSUME NEW d \in Conns \ {c} PROVE ConnsBorn!(d)'
        <3>1. ConnsBorn!(d)
            BY DEF BookInv, ConnsBorn
        <3>2. Born(d) => conn[d].session_id \in SessionIds
                         /\ (conn[d].pending_session_id # EMPTY => conn[d].pending_session_id \in SessionIds)
            BY <3>1 DEF Drawn
        <3>3. conn'[d] = conn[d] /\ events'[d] = events[d] /\ event_task'[d] = event_task[d]
            BY <1>0
        <3> QED BY <1>0, <1>1, <3>1, <3>2, <3>3
    <2>2. ConnsBorn!(c)'
        <3>1. conn[c].addr \in Addrs /\ Drawn(conn[c].session_id, c) /\ conn[c].session_id \in SessionIds
            BY DEF BookInv, ConnsBorn, Drawn
        <3>2. Drawn(sessions, c)' /\ conn'[c].pending_session_id = sessions' /\ conn[c].session_id < sessions'
            BY <1>0, <3>1 DEF Drawn, SessionIds
        <3>3. Drawn(conn[c].session_id, c)'
            BY <1>0, <3>1 DEF Drawn
        <3> QED BY <1>0, <1>1, <3>1, <3>2, <3>3 DEF Drawn
    <2> QED BY <2>1, <2>2 DEF ConnsBorn
<1>5. MappedBorn'
    <2>1. \A b \in Addrs : by_socket_addr'[b] # NoConn => conn'[by_socket_addr'[b]].state # "Unborn"
        BY <1>1 DEF BookInv, MappedBorn, TypeOK, maps, Born
    <2>2. \A ip \in IPs : ip_to_conn_map'[ip] # NoConn => conn'[ip_to_conn_map'[ip]].state # "Unborn"
        BY <1>1 DEF BookInv, MappedBorn, TypeOK, ips, Born
    <2>3. \A d \in removed' : Born(d)'
        BY <1>1 DEF BookInv, MappedBorn, TypeOK
    <2> QED BY <2>1, <2>2, <2>3 DEF MappedBorn, Born
<1>6. EventsDrawn'
    <2>1. ASSUME NEW d \in Conns \ {c} PROVE EventsDrawn!(d)'
        <3>1. EventsDrawn!(d)
            BY DEF BookInv, EventsDrawn
        <3>2. event_task[d] = "insert" => events[d][1].new \in SessionIds
            BY <3>1 DEF Drawn
        <3>3. \A i \in 1..Len(events[d]) : events[d][i].kind = "Ack" =>
                events[d][i].old \in SessionIds /\ events[d][i].new \in SessionIds
            BY <3>1 DEF Drawn
        <3>4. conn'[d] = conn[d] /\ events'[d] = events[d] /\ event_task'[d] = event_task[d]
            BY <1>0
        <3> QED BY <1>0, <3>1, <3>2, <3>3, <3>4
    <2> QED BY <2>1 DEF EventsDrawn
<1>7. NoCrossTalk'
    BY <1>0 DEF BookInv, TypeOK, NoCrossTalk, maps
<1> QED BY <1>2, <1>3, <1>4, <1>5, <1>6, <1>7 DEF BookInv, TasksKept

LEMMA RotateBook == ASSUME BookInv, NEW t \in Receivers, Rotate(t) PROVE BookInv'
<1> DEFINE n == sessions + 1
           x == [task[t] EXCEPT !.pc = "insert", !.session = n]
<1>0. PICK c \in Conns : c = task[t].conn /\ Born(c)
    BY DEF Rotate, Tasks, BookInv, TasksBorn, Fits
<1>1. t \in Tasks /\ t \notin Workers /\ c \in Conns /\ Born(c) /\ Busy(t) /\ datagram
    BY <1>0, ManagerAssumption DEF Rotate, Tasks, BookInv, TasksBorn, Fits, Busy, Turns
<1>2. UNCHANGED <<datagram, maps, pending_session_id_rotations, ips, events, event_task, removed, closed>>
    BY DEF Rotate
<1>3. CASE Draw(c) /\ task' = [task EXCEPT ![t].pc = "insert", ![t].session = sessions + 1]
    <2>1. sessions' = n /\ n \in SessionIds /\ owner'[n] = c /\ conn'[c].state = conn[c].state /\ Grows
        BY <1>1, <1>2, <1>3, DrawFacts
    <2>2. \A m \in SessionIds, d \in Conns : Drawn(m, d) => Drawn(m, d)'
        BY <1>1, <1>2, <1>3, DrawFacts
    <2>3. TasksKept
        <3>1. task[t] \in TaskState
            BY <1>1 DEF BookInv, TypeOK
        <3>2. x \in TaskState /\ x.pc = "insert" /\ x.conn = c /\ x.session = n
            BY <1>0, <2>1, <3>1 DEF TaskState
        <3>3. task' = [task EXCEPT ![t] = x]
            BY <1>3 DEF BookInv, TypeOK
        <3> HIDE DEF x, n
        <3>4. MayGo(t, x)
            BY <1>1, BusyMayGo
        <3>5. conn'[x.conn].state # "Unborn"
            BY <1>1, <2>1, <3>2 DEF Born
        <3>6. x.session <= sessions'
            BY <2>1, <3>2 DEF SessionIds
        <3> QED BY <1>1, <2>1, <3>2, <3>3, <3>4, <3>5, <3>6, TaskStep DEF TasksKept
    <2>4. EventsDrawn!(c)'
        <3>1. EventsDrawn!(c)
            BY <1>1 DEF BookInv, EventsDrawn
        <3>2. conn'[c].session_id = conn[c].session_id
            BY <1>1, <1>2, <1>3, DrawFacts
        <3>3. event_task[c] = "insert" => events[c][1].new \in SessionIds
            BY <3>1 DEF Drawn
        <3>4. \A i \in 1..Len(events[c]) : events[c][i].kind = "Ack" =>
                events[c][i].old \in SessionIds /\ events[c][i].new \in SessionIds
            BY <3>1 DEF Drawn
        <3> QED BY <1>1, <1>2, <2>2, <3>1, <3>2, <3>3, <3>4
    <2>5. events' \in [Conns -> Seq(Event)] /\ event_task' \in [Conns -> {"idle", "insert", "finalize"}]
        BY <1>2 DEF BookInv, TypeOK
    <2> QED BY <1>1, <1>2, <1>3, <2>3, <2>4, <2>5, DrawBook
<1>4. CASE Done(t) /\ UNCHANGED <<conn, sessions, owner>>
    <2>1. OnlyTask
        BY <1>2, <1>4 DEF OnlyTask
    <2> QED BY <1>1, <1>4, <2>1, OnlyTaskGrows, DoneStep, OnlyTaskBook
<1> QED BY <1>0, <1>3, <1>4 DEF Rotate

\* An entry of the pending rotations is made for the connection it was drawn for.
LEMMA RotateInsertBook == ASSUME BookInv, NEW t \in Receivers, RotateInsert(t) PROVE BookInv'
<1> DEFINE c == task[t].conn
           s == task[t].session
<1>1. t \in Tasks /\ c \in Conns /\ s \in SessionIds /\ owner[s] = c
    BY DEF RotateInsert, Tasks, BookInv, TasksBorn, Fits, Drawn
<1>2. Grows
    BY DEF RotateInsert, BookInv, TypeOK, Grows, Born
<1>3. TasksKept
    BY <1>1, <1>2, DoneStep DEF RotateInsert
<1>4. /\ pending_session_id_rotations' \in [SessionIds -> Conns \cup {NoConn}]
      /\ pending_session_id_rotations'[s] = c
      /\ \A u \in SessionIds \ {s} : pending_session_id_rotations'[u] = pending_session_id_rotations[u]
    BY <1>1 DEF RotateInsert, InsertPending, BookInv, TypeOK
<1>5. UNCHANGED <<datagram, conn, maps, ips, events, event_task, sessions, owner, removed, closed>>
    BY DEF RotateInsert
<1>6. TypeOK'
    BY <1>3, <1>4, <1>5 DEF BookInv, TypeOK, TasksKept, maps, ips
<1>7. OwnersBorn' /\ ConnsBorn' /\ MappedBorn' /\ EventsDrawn'
    BY <1>5 DEF BookInv, OwnersBorn, ConnsBorn, MappedBorn, EventsDrawn, Born, Drawn, maps, ips
<1>8. NoCrossTalk'
    BY <1>1, <1>4, <1>5 DEF BookInv, NoCrossTalk, maps
<1> QED BY <1>3, <1>5, <1>6, <1>7, <1>8 DEF BookInv, TasksKept

-----------------------------------------------------------------------------
\* Steps of the event task of c that draw no id.
LEMMA EventsBook ==
    ASSUME BookInv, NEW c \in Conns, Born(c) \/ (events'[c] = <<>> /\ event_task'[c] = "idle"),
           events' \in [Conns -> Seq(Event)], event_task' \in [Conns -> {"idle", "insert", "finalize"}],
           \A d \in Conns \ {c} : events'[d] = events[d] /\ event_task'[d] = event_task[d],
           EventsDrawn!(c)',
           by_session_id' \in [SessionIds -> Conns \cup {NoConn}],
           pending_session_id_rotations' \in [SessionIds -> Conns \cup {NoConn}],
           NoCrossTalk',
           UNCHANGED <<datagram, conn, by_socket_addr, ips, task, sessions, owner, removed, closed>>
    PROVE  BookInv'
<1>0. Grows
    BY DEF BookInv, TypeOK, Grows, Born
<1>1. TasksKept
    BY <1>0, TasksStay DEF TasksKept
<1>2. TypeOK'
    BY <1>1 DEF BookInv, TypeOK, TasksKept, ips
<1>3. OwnersBorn' /\ MappedBorn'
    BY DEF BookInv, OwnersBorn, MappedBorn, Born, ips
<1>4. ConnsBorn'
    BY DEF BookInv, ConnsBorn, Born, Drawn
<1>5. EventsDrawn'
    <2>1. ASSUME NEW d \in Conns \ {c} PROVE EventsDrawn!(d)'
        BY DEF BookInv, EventsDrawn, Drawn
    <2> QED BY <2>1 DEF EventsDrawn
<1> QED BY <1>1, <1>2, <1>3, <1>4, <1>5 DEF BookInv, TasksKept

\* The queue without its head keeps what EventsDrawn says of it.
LEMMA EventsTailDrawn ==
    ASSUME BookInv, NEW c \in Conns, events[c] # <<>>, events' = [events EXCEPT ![c] = Tail(@)],
           event_task' \in [Conns -> {"idle", "insert", "finalize"}], event_task'[c] = "idle",
           UNCHANGED <<conn, sessions, owner>>
    PROVE  /\ events' \in [Conns -> Seq(Event)] /\ events'[c] = Tail(events[c])
           /\ \A d \in Conns \ {c} : events'[d] = events[d]
           /\ EventsDrawn!(c)'
<1>1. events[c] \in Seq(Event) /\ events \in [Conns -> Seq(Event)]
    BY DEF BookInv, TypeOK
<1>2. /\ Tail(events[c]) \in Seq(Event) /\ Len(Tail(events[c])) = Len(events[c]) - 1
      /\ \A i \in 1..Len(Tail(events[c])) : i + 1 \in 1..Len(events[c]) /\ Tail(events[c])[i] = events[c][i + 1]
    BY <1>1, TailFacts
<1>3. /\ events' \in [Conns -> Seq(Event)] /\ events'[c] = Tail(events[c])
      /\ \A d \in Conns \ {c} : events'[d] = events[d]
    BY <1>1, <1>2
<1>4. EventsDrawn!(c)'
    BY <1>2, <1>3 DEF BookInv, EventsDrawn, Drawn
<1> QED BY <1>3, <1>4

LEMMA EventDroppedBook == ASSUME BookInv, NEW c \in Conns, EventDropped(c) PROVE BookInv'
<1>1. /\ events[c] # <<>> /\ events' = [events EXCEPT ![c] = Tail(@)] /\ event_task[c] = "idle"
      /\ UNCHANGED <<datagram, conn, maps, pending_session_id_rotations, ips, task, event_task, sessions,
                     owner, removed, closed>>
    BY DEF EventDropped
<1>2. event_task' \in [Conns -> {"idle", "insert", "finalize"}] /\ event_task'[c] = "idle" /\ Born(c)
    BY <1>1 DEF BookInv, TypeOK, ConnsBorn
<1>3. /\ events' \in [Conns -> Seq(Event)]
      /\ \A d \in Conns \ {c} : events'[d] = events[d]
      /\ EventsDrawn!(c)'
    BY <1>1, <1>2, EventsTailDrawn
<1>4. /\ NoCrossTalk' /\ by_session_id' \in [SessionIds -> Conns \cup {NoConn}]
      /\ pending_session_id_rotations' \in [SessionIds -> Conns \cup {NoConn}]
    BY <1>1 DEF BookInv, TypeOK, NoCrossTalk, maps
<1> QED BY <1>1, <1>2, <1>3, <1>4, EventsBook DEF maps

LEMMA EventInsertBook == ASSUME BookInv, NEW c \in Conns, EventInsert(c) PROVE BookInv'
<1> DEFINE s == events[c][1].new
<1>1. /\ event_task[c] = "insert" /\ events[c] # <<>> /\ s \in SessionIds /\ owner[s] = c /\ Born(c)
    BY DEF EventInsert, BookInv, EventsDrawn, ConnsBorn, Drawn
<1>2. Head(events[c]) = events[c][1]
    BY <1>1, TailFacts DEF BookInv, TypeOK
<1>3. /\ events' = [events EXCEPT ![c] = Tail(@)] /\ event_task' = [event_task EXCEPT ![c] = "idle"]
      /\ pending_session_id_rotations' = [pending_session_id_rotations EXCEPT ![s] = c]
      /\ UNCHANGED <<datagram, conn, maps, ips, task, sessions, owner, removed, closed>>
    BY <1>2 DEF EventInsert, InsertPending
<1>4. /\ event_task' \in [Conns -> {"idle", "insert", "finalize"}] /\ event_task'[c] = "idle"
      /\ \A d \in Conns \ {c} : event_task'[d] = event_task[d]
    BY <1>3 DEF BookInv, TypeOK
<1>5. /\ events' \in [Conns -> Seq(Event)]
      /\ \A d \in Conns \ {c} : events'[d] = events[d]
      /\ EventsDrawn!(c)'
    BY <1>1, <1>3, <1>4, EventsTailDrawn
<1>6. /\ NoCrossTalk' /\ by_session_id' \in [SessionIds -> Conns \cup {NoConn}]
      /\ pending_session_id_rotations' \in [SessionIds -> Conns \cup {NoConn}]
    BY <1>1, <1>3 DEF BookInv, TypeOK, NoCrossTalk, maps
<1> QED BY <1>1, <1>3, <1>4, <1>5, <1>6, EventsBook DEF maps

LEMMA EventFinalizeBook == ASSUME BookInv, NEW c \in Conns, EventFinalize(c) PROVE BookInv'
<1> DEFINE s == events[c][1].new
<1>1. events[c] \in Seq(Event) /\ events[c] # <<>> /\ Head(events[c]) = events[c][1] /\ events[c][1].kind = "Ack" /\ Born(c)
    BY TailFacts DEF EventFinalize, BookInv, TypeOK, ConnsBorn
<1>2. /\ event_task' = [event_task EXCEPT ![c] = "finalize"]
      /\ pending_session_id_rotations' = [pending_session_id_rotations EXCEPT ![s] = NoConn]
      /\ UNCHANGED <<datagram, conn, maps, ips, task, events, sessions, owner, removed, closed>>
    BY <1>1 DEF EventFinalize
<1>3. /\ event_task' \in [Conns -> {"idle", "insert", "finalize"}] /\ event_task'[c] = "finalize"
      /\ \A d \in Conns \ {c} : event_task'[d] = event_task[d]
      /\ events' \in [Conns -> Seq(Event)]
    BY <1>2 DEF BookInv, TypeOK
<1>4. EventsDrawn!(c)'
    BY <1>1, <1>2, <1>3 DEF BookInv, EventsDrawn, Drawn
<1>5. /\ NoCrossTalk' /\ by_session_id' \in [SessionIds -> Conns \cup {NoConn}]
      /\ pending_session_id_rotations' \in [SessionIds -> Conns \cup {NoConn}]
    BY <1>1, <1>2 DEF BookInv, TypeOK, NoCrossTalk, maps
<1> QED BY <1>1, <1>2, <1>3, <1>4, <1>5, EventsBook DEF maps

\* Finalizing moves an entry of the session map between two ids of c.
LEMMA RemapFacts ==
    ASSUME BookInv, NEW c \in Conns, EventRemap(c)
    PROVE  /\ events[c] \in Seq(Event) /\ events[c] # <<>> /\ events[c][1].kind = "Ack" /\ Born(c)
           /\ Drawn(events[c][1].old, c) /\ Drawn(events[c][1].new, c) /\ events[c][1].old < events[c][1].new
           /\ by_session_id[events[c][1].old] \in {NoConn, c}
           /\ by_session_id' \in [SessionIds -> Conns \cup {NoConn}]
           /\ by_session_id[events[c][1].old] = NoConn => by_session_id' = by_session_id
           /\ by_session_id[events[c][1].old] = c =>
                /\ by_session_id'[events[c][1].old] = NoConn /\ by_session_id'[events[c][1].new] = c
                /\ \A s \in SessionIds \ {events[c][1].old, events[c][1].new} : by_session_id'[s] = by_session_id[s]
<1> DEFINE old == events[c][1].old
           new == events[c][1].new
<1>1. event_task[c] = "finalize" /\ events[c] \in Seq(Event)
    BY DEF EventRemap, BookInv, TypeOK
<1>2. events[c] # <<>> /\ events[c][1].kind = "Ack" /\ Born(c)
    BY <1>1 DEF BookInv, EventsDrawn, ConnsBorn
<1>3. Head(events[c]) = events[c][1] /\ 1 \in 1..Len(events[c])
    BY <1>1, <1>2, TailFacts
<1>4. /\ Drawn(old, c) /\ Drawn(new, c) /\ old < new
    BY <1>2, <1>3 DEF BookInv, EventsDrawn
<1>5. /\ old \in SessionIds /\ new \in SessionIds /\ owner[old] = c /\ old # new
    BY <1>4 DEF Drawn, SessionIds
<1>6. by_session_id[old] \in {NoConn, c}
    BY <1>5 DEF BookInv, NoCrossTalk
<1>7. by_session_id' = IF by_session_id[old] = NoConn THEN by_session_id
                       ELSE [[by_session_id EXCEPT ![old] = NoConn] EXCEPT ![new] = by_session_id[old]]
    BY <1>3 DEF EventRemap
<1>8. by_session_id \in [SessionIds -> Conns \cup {NoConn}] /\ NoConn \notin Conns
    BY ManagerAssumption DEF BookInv, TypeOK
<1>9. CASE by_session_id[old] = NoConn
    BY <1>1, <1>2, <1>4, <1>6, <1>7, <1>8, <1>9
<1>10. CASE by_session_id[old] = c
    <2>1. by_session_id' = [[by_session_id EXCEPT ![old] = NoConn] EXCEPT ![new] = c]
        BY <1>7, <1>8, <1>10
    <2> HIDE DEF old, new
    <2>2. /\ by_session_id' \in [SessionIds -> Conns \cup {NoConn}]
          /\ by_session_id'[old] = NoConn /\ by_session_id'[new] = c
          /\ \A s \in SessionIds \ {old, new} : by_session_id'[s] = by_session_id[s]
        BY <1>5, <1>8, <2>1
    <2>3. c # NoConn
        BY <1>8
    <2> QED BY <1>1, <1>2, <1>4, <1>6, <1>10, <2>2, <2>3 DEF old, new
<1> QED BY <1>6, <1>9, <1>10

LEMMA EventRemapBook == ASSUME BookInv, NEW c \in Conns, EventRemap(c) PROVE BookInv'
<1>1. /\ events[c] # <<>> /\ Born(c) /\ by_session_id' \in [SessionIds -> Conns \cup {NoConn}]
    BY RemapFacts
<1>2. /\ events' = [events EXCEPT ![c] = Tail(@)] /\ event_task' = [event_task EXCEPT ![c] = "idle"]
      /\ UNCHANGED <<datagram, conn, by_socket_addr, pending_session_id_rotations, ips, task, sessions, owner,
                     removed, closed>>
    BY DEF EventRemap
<1>3. /\ event_task' \in [Conns -> {"idle", "insert", "finalize"}] /\ event_task'[c] = "idle"
      /\ \A d \in Conns \ {c} : event_task'[d] = event_task[d]
      /\ pending_session_id_rotations' \in [SessionIds -> Conns \cup {NoConn}]
    BY <1>2 DEF BookInv, TypeOK
<1>4. /\ events' \in [Conns -> Seq(Event)]
      /\ \A d \in Conns \ {c} : events'[d] = events[d]
      /\ EventsDrawn!(c)'
    BY <1>1, <1>2, <1>3, EventsTailDrawn
<1>5. NoCrossTalk'
    <2>1. \A s \in SessionIds : by_session_id'[s] \in {NoConn, by_session_id[s]}
                                \/ (by_session_id'[s] = c /\ owner[s] = c)
        BY RemapFacts DEF Drawn
    <2> QED BY <1>2, <2>1 DEF BookInv, NoCrossTalk
<1> QED BY <1>1, <1>2, <1>3, <1>4, <1>5, EventsBook

\* A queue whose head is replaced.
LEMMA ReplacedHead ==
    ASSUME NEW q \in Seq(Event), q # <<>>, NEW e \in Event
    PROVE  /\ <<e>> \o Tail(q) \in Seq(Event) /\ Len(<<e>> \o Tail(q)) = Len(q) /\ (<<e>> \o Tail(q))[1] = e
           /\ \A i \in 2..Len(q) : (<<e>> \o Tail(q))[i] = q[i]
<1>1. /\ Tail(q) \in Seq(Event) /\ Len(Tail(q)) = Len(q) - 1 /\ Len(q) \in Nat \ {0}
      /\ \A i \in 1..Len(Tail(q)) : Tail(q)[i] = q[i + 1]
    BY TailFacts
<1>2. <<e>> \in Seq(Event) /\ Len(<<e>>) = 1 /\ <<e>>[1] = e
    OBVIOUS
<1>3. /\ <<e>> \o Tail(q) \in Seq(Event) /\ Len(<<e>> \o Tail(q)) = Len(q)
    BY <1>1, <1>2
<1>4. \A i \in 1..Len(q) : (<<e>> \o Tail(q))[i] = IF i <= 1 THEN <<e>>[i] ELSE Tail(q)[i - 1]
    BY <1>1, <1>2
<1> QED BY <1>1, <1>2, <1>3, <1>4

LEMMA EventKeyUpdateBook == ASSUME BookInv, NEW c \in Conns, EventKeyUpdate(c) PROVE BookInv'
<1> DEFINE n == sessions + 1
           e == [kind |-> "KeyUpdate", old |-> EMPTY, new |-> n]
<1>1. events[c] \in Seq(Event) /\ events[c] # <<>> /\ Born(c) /\ event_task[c] = "idle" /\ Draw(c)
    BY DEF EventKeyUpdate, BookInv, TypeOK, ConnsBorn
<1>2. /\ UNCHANGED <<datagram, maps, pending_session_id_rotations, ips, task, removed, closed>>
      /\ event_task' = [event_task EXCEPT ![c] = "insert"]
      /\ events' = [events EXCEPT ![c] = <<e>> \o Tail(events[c])]
    BY DEF EventKeyUpdate
<1>3. /\ sessions' = n /\ n \in SessionIds /\ owner'[n] = c /\ Grows
      /\ conn'[c].session_id = conn[c].session_id
      /\ \A m \in SessionIds, d \in Conns : Drawn(m, d) => Drawn(m, d)'
    BY <1>1, <1>2, DrawFacts
<1>4. TasksKept
    BY <1>2, <1>3, TasksStay DEF TasksKept
<1>5. e \in Event /\ e.kind = "KeyUpdate" /\ e.new = n
    BY <1>3 DEF Event
<1> HIDE DEF e
<1>6. /\ <<e>> \o Tail(events[c]) \in Seq(Event) /\ Len(<<e>> \o Tail(events[c])) = Len(events[c])
      /\ (<<e>> \o Tail(events[c]))[1] = e
      /\ \A i \in 2..Len(events[c]) : (<<e>> \o Tail(events[c]))[i] = events[c][i]
      /\ Len(events[c]) \in Nat \ {0}
    BY <1>1, <1>5, ReplacedHead
<1>7. /\ events' \in [Conns -> Seq(Event)] /\ event_task' \in [Conns -> {"idle", "insert", "finalize"}]
      /\ \A d \in Conns \ {c} : events'[d] = events[d] /\ event_task'[d] = event_task[d]
      /\ event_task'[c] = "insert" /\ events'[c] = <<e>> \o Tail(events[c])
    BY <1>2, <1>6 DEF BookInv, TypeOK
<1>8. EventsDrawn!(c)'
    <2>1. \A i \in 1..Len(events'[c]) : i = 1 \/ i \in 2..Len(events[c])
        BY <1>6, <1>7
    <2>2. \A i \in 1..Len(events[c]) : events[c][i].kind = "Ack" =>
            /\ events[c][i].old \in SessionIds /\ events[c][i].new \in SessionIds
            /\ Drawn(events[c][i].old, c) /\ Drawn(events[c][i].new, c)
            /\ events[c][i].old < events[c][i].new /\ events[c][i].new <= conn[c].session_id
        BY DEF BookInv, EventsDrawn, Drawn
    <2>3. ASSUME NEW i \in 1..Len(events'[c]), events'[c][i].kind = "Ack"
          PROVE  /\ events'[c][i].old \in SessionIds /\ events'[c][i].old <= sessions' /\ owner'[events'[c][i].old] = c
                 /\ events'[c][i].new \in SessionIds /\ events'[c][i].new <= sessions' /\ owner'[events'[c][i].new] = c
                 /\ events'[c][i].old < events'[c][i].new /\ events'[c][i].new <= conn'[c].session_id
        <3>1. i \in 2..Len(events[c]) /\ events'[c][i] = events[c][i] /\ i \in 1..Len(events[c])
            BY <1>5, <1>6, <1>7, <2>1, <2>3
        <3>2. \A m \in SessionIds : Drawn(m, c) => m <= sessions' /\ owner'[m] = c
            BY <1>3 DEF Drawn
        <3> QED BY <1>3, <2>2, <2>3, <3>1, <3>2
    <2>4. events'[c] # <<>> /\ events'[c][1].kind = "KeyUpdate" /\ events'[c][1].new = n
        BY <1>5, <1>6, <1>7
    <2>5. n <= sessions'
        BY <1>3 DEF SessionIds
    <2> QED BY <1>3, <1>7, <2>3, <2>4, <2>5 DEF Drawn
<1> QED BY <1>1, <1>2, <1>4, <1>7, <1>8, DrawBook

-----------------------------------------------------------------------------
KeyEvents == {<<>>, <<[kind |-> "KeyUpdate", old |-> EMPTY, new |-> EMPTY]>>}

LEMMA ConcatFacts ==
    ASSUME NEW a \in Seq(Event), NEW b \in Seq(Event)
    PROVE  /\ a \o b \in Seq(Event) /\ Len(a) \in Nat /\ Len(b) \in Nat /\ Len(a \o b) = Len(a) + Len(b)
           /\ \A i \in 1..Len(a) : (a \o b)[i] = a[i]
           /\ \A i \in (Len(a) + 1)..(Len(a) + Len(b)) : (a \o b)[i] = b[i - Len(a)]
    OBVIOUS

\* The last of the places behind a queue of length q.
LEMMA LastPlace ==
    ASSUME NEW q \in Nat, NEW k \in {0, 1}, NEW a \in {0, 1}, NEW i \in (q + 1)..(q + k + a),
           i # q + 1 \/ k = 0
    PROVE  a = 1 /\ i = q + k + a
<1>1. CASE k = 0
    BY <1>1
<1>2. CASE k = 1
    BY <1>2
<1> QED BY <1>1, <1>2

\* What is appended to a queue: perhaps a key update, and at the end the
\* acknowledgement if there is one.
LEMMA AppendedEvents ==
    ASSUME NEW q \in Seq(Event), NEW key \in KeyEvents, NEW ack \in Seq(Event),
           Len(ack) = 0 \/ Len(ack) = 1
    PROVE  /\ q \o key \o ack \in Seq(Event) /\ Len(q) \in Nat
           /\ Len(q \o key \o ack) \in Nat /\ Len(q \o key \o ack) >= Len(q) + Len(ack)
           /\ \A i \in 1..Len(q) : (q \o key \o ack)[i] = q[i]
           /\ \A i \in (Len(q) + 1)..(Len(q \o key \o ack)) : (q \o key \o ack)[i].kind = "Ack" =>
                Len(ack) = 1 /\ i = Len(q \o key \o ack)
           /\ Len(ack) = 1 => (q \o key \o ack)[Len(q \o key \o ack)] = ack[1]
<1>1. /\ key \in Seq(Event) /\ (Len(key) = 0 \/ Len(key) = 1)
      /\ Len(key) = 1 => key[1].kind = "KeyUpdate"
    <2>1. CASE key = <<>>
        BY <2>1
    <2>2. CASE key = <<[kind |-> "KeyUpdate", old |-> EMPTY, new |-> EMPTY]>>
        <3>1. [kind |-> "KeyUpdate", old |-> EMPTY, new |-> EMPTY] \in Event
            BY DEF Event
        <3> QED BY <2>2, <3>1
    <2> QED BY <2>1, <2>2 DEF KeyEvents
<1>2. PICK p \in Seq(Event) :
        /\ p = q \o key /\ Len(q) \in Nat /\ Len(p) = Len(q) + Len(key)
        /\ \A i \in 1..Len(q) : p[i] = q[i]
        /\ \A i \in (Len(q) + 1)..(Len(q) + Len(key)) : p[i] = key[i - Len(q)]
    BY <1>1, ConcatFacts
<1>3. PICK r \in Seq(Event) :
        /\ r = p \o ack /\ Len(p) \in Nat /\ Len(r) = Len(p) + Len(ack)
        /\ \A i \in 1..Len(p) : r[i] = p[i]
        /\ \A i \in (Len(p) + 1)..(Len(p) + Len(ack)) : r[i] = ack[i - Len(p)]
    BY ConcatFacts
<1>4. \A i \in 1..Len(q) : i \in 1..Len(p)
    BY <1>1, <1>2
<1>5. \A i \in 1..Len(q) : r[i] = q[i]
    BY <1>2, <1>3, <1>4
<1>6. ASSUME NEW i \in (Len(q) + 1)..Len(r), r[i].kind = "Ack" PROVE Len(ack) = 1 /\ i = Len(r)
    <2>1. i # Len(q) + 1 \/ Len(key) = 0
        <3> SUFFICES ASSUME i = Len(q) + 1, Len(key) = 1 PROVE FALSE
            BY <1>1
        <3>1. Len(q) + 1 \in (Len(q) + 1)..(Len(q) + Len(key)) /\ Len(q) + 1 \in 1..Len(p) /\ (Len(q) + 1) - Len(q) = 1
            BY <1>2
        <3>2. r[i] = key[1]
            BY <1>2, <1>3, <3>1
        <3> QED BY <1>1, <1>6, <3>2
    <2>2. /\ Len(q) \in Nat /\ Len(r) = Len(q) + Len(key) + Len(ack) /\ (Len(key) = 0 \/ Len(key) = 1)
          /\ Len(ack) \in Nat /\ Len(key) \in Nat
        BY <1>1, <1>2, <1>3
    <2>3. PICK n \in Nat, k \in {0, 1}, a \in {0, 1} : n = Len(q) /\ k = Len(key) /\ a = Len(ack)
        BY <2>2
    <2>4. i \in (n + 1)..(n + k + a) /\ (i # n + 1 \/ k = 0) /\ Len(r) = n + k + a
        BY <2>1, <2>2, <2>3
    <2>5. a = 1 /\ i = n + k + a
        BY <2>4, LastPlace
    <2> QED BY <2>3, <2>4, <2>5
<1>7. Len(ack) = 1 => r[Len(r)] = ack[1]
    BY <1>3
<1>8. Len(r) \in Nat /\ Len(r) >= Len(q) + Len(ack)
    BY <1>1, <1>2, <1>3
<1>9. r = q \o key \o ack
    BY <1>2, <1>3
<1> QED BY <1>2, <1>5, <1>6, <1>7, <1>8, <1>9

\* What a packet's session id does to a connection, and the event it raises.
LEMMA AckedFacts ==
    ASSUME BookInv, NEW c \in Conns, Born(c), NEW s \in SessionIds \cup {EMPTY}
    PROVE  /\ Acked(conn[c], s) \in ConnState /\ Acked(conn[c], s).addr = conn[c].addr
           /\ Acked(conn[c], s).state = conn[c].state /\ Acked(conn[c], s).internal_ip = conn[c].internal_ip
           /\ AckEvent(conn[c], s) \in Seq(Event)
           /\ Acks(conn[c], s) =>
                /\ Acked(conn[c], s).session_id = s /\ Acked(conn[c], s).pending_session_id = EMPTY
                /\ Drawn(s, c) /\ conn[c].session_id < s /\ Drawn(conn[c].session_id, c)
                /\ s = conn[c].pending_session_id /\ s # EMPTY
                /\ Len(AckEvent(conn[c], s)) = 1 /\ AckEvent(conn[c], s)[1].kind = "Ack"
                /\ AckEvent(conn[c], s)[1].old = conn[c].session_id /\ AckEvent(conn[c], s)[1].new = s
           /\ ~Acks(conn[c], s) => Acked(conn[c], s) = conn[c] /\ Len(AckEvent(conn[c], s)) = 0
<1>1. conn[c] \in ConnState /\ conn[c].session_id \in SessionIds /\ Drawn(conn[c].session_id, c)
    BY DEF BookInv, TypeOK, ConnsBorn, Drawn
<1>2. CASE Acks(conn[c], s)
    <2> DEFINE y == [conn[c] EXCEPT !.session_id = s, !.pending_session_id = EMPTY]
               e == [kind |-> "Ack", old |-> conn[c].session_id, new |-> s]
    <2>1. /\ Drawn(s, c) /\ conn[c].session_id < s /\ s = conn[c].pending_session_id /\ s # EMPTY
        BY <1>2 DEF BookInv, ConnsBorn, Acks
    <2>2. /\ y \in ConnState /\ y.addr = conn[c].addr /\ y.state = conn[c].state /\ y.internal_ip = conn[c].internal_ip
          /\ y.session_id = s /\ y.pending_session_id = EMPTY
        BY <1>1 DEF ConnState
    <2>3. e \in Event /\ e.kind = "Ack" /\ e.old = conn[c].session_id /\ e.new = s
        BY <1>1 DEF Event
    <2>4. Acked(conn[c], s) = y /\ AckEvent(conn[c], s) = <<e>>
        BY <1>2 DEF Acked, AckEvent
    <2> HIDE DEF y, e
    <2>5. <<e>> \in Seq(Event) /\ Len(<<e>>) = 1 /\ <<e>>[1] = e
        BY <2>3
    <2> QED BY <1>1, <1>2, <2>1, <2>2, <2>3, <2>4, <2>5
<1>3. CASE ~Acks(conn[c], s)
    <2>1. Acked(conn[c], s) = conn[c] /\ AckEvent(conn[c], s) = <<>>
        BY <1>3 DEF Acked, AckEvent
    <2> QED BY <1>1, <1>3, <2>1
<1> QED BY <1>2, <1>3

\* A packet that held frames, for connection c: y is what becomes of it.
Frames(t, c, y, key) ==
  LET s == task[t].session IN
  /\ conn[c].state \in {"LinkUp", "Online"} /\ c = task[t].conn /\ AfterFrames(t)
  /\ conn' = [conn EXCEPT ![c] = y] /\ y.state = "Online" /\ y.addr = conn[c].addr
  /\ y.session_id = Acked(conn[c], s).session_id /\ y.pending_session_id = Acked(conn[c], s).pending_session_id
  /\ events' = [events EXCEPT ![c] = @ \o key \o AckEvent(conn[c], s)]
  /\ UNCHANGED <<datagram, maps, pending_session_id_rotations, event_task, sessions, owner, removed, closed>>

LEMMA FramesBook ==
    ASSUME BookInv, NEW t \in Receivers, task[t].pc = "process", NEW c \in Conns, NEW y \in ConnState,
           NEW key \in KeyEvents, Frames(t, c, y, key),
           ip_to_conn_map' \in [IPs -> Conns \cup {NoConn}] /\ available_ips' \in Seq(IPs) /\ allocated_ips' \subseteq IPs,
           \A ip \in IPs : ip_to_conn_map'[ip] \in {NoConn, c, ip_to_conn_map[ip]}
    PROVE  BookInv'
<1>0. PICK s \in SessionIds \cup {EMPTY} : s = task[t].session
    BY DEF BookInv, TypeOK, TaskState, Tasks
<1>1. Born(c) /\ conn[c].addr \in Addrs /\ conn[c].session_id \in SessionIds
    BY DEF Frames, Born, BookInv, ConnsBorn, Drawn
<1>2. /\ UNCHANGED <<datagram, maps, pending_session_id_rotations, event_task, sessions, owner, removed, closed>>
      /\ y.state = "Online" /\ y.addr = conn[c].addr /\ conn' = [conn EXCEPT ![c] = y]
      /\ y.session_id = Acked(conn[c], s).session_id /\ y.pending_session_id = Acked(conn[c], s).pending_session_id
      /\ events' = [events EXCEPT ![c] = events[c] \o key \o AckEvent(conn[c], s)] /\ AfterFrames(t)
    BY <1>0 DEF Frames
<1>3. PICK ack \in Seq(Event) :
        /\ ack = AckEvent(conn[c], s)
        /\ Acks(conn[c], s) =>
             /\ y.session_id = s /\ y.pending_session_id = EMPTY /\ Drawn(s, c) /\ s \in SessionIds
             /\ conn[c].session_id < s /\ Drawn(conn[c].session_id, c)
             /\ Len(ack) = 1 /\ ack[1].kind = "Ack" /\ ack[1].old = conn[c].session_id /\ ack[1].new = s
        /\ ~Acks(conn[c], s) => /\ y.session_id = conn[c].session_id
                                /\ y.pending_session_id = conn[c].pending_session_id /\ Len(ack) = 0
    <2>1. Acks(conn[c], s) => s \in SessionIds
        BY <1>1, AckedFacts DEF Drawn
    <2>2. AckEvent(conn[c], s) \in Seq(Event)
        BY <1>1, AckedFacts
    <2>3. CASE Acks(conn[c], s)
        BY <1>1, <1>2, <2>1, <2>2, <2>3, AckedFacts
    <2>4. CASE ~Acks(conn[c], s)
        BY <1>1, <1>2, <2>2, <2>4, AckedFacts
    <2> QED BY <2>3, <2>4
<1>4. PICK q \in Seq(Event) : q = events[c]
    BY DEF BookInv, TypeOK
<1>5. PICK r \in Seq(Event) :
        /\ r = q \o key \o ack /\ Len(q) \in Nat /\ Len(r) \in Nat /\ Len(r) >= Len(q) + Len(ack)
        /\ \A i \in 1..Len(q) : r[i] = q[i]
        /\ \A i \in (Len(q) + 1)..Len(r) : r[i].kind = "Ack" => Len(ack) = 1 /\ i = Len(r)
        /\ Len(ack) = 1 => r[Len(r)] = ack[1]
    BY <1>3, AppendedEvents
<1>6. /\ events' \in [Conns -> Seq(Event)] /\ events'[c] = r
      /\ \A d \in Conns \ {c} : events'[d] = events[d]
      /\ conn' \in [Conns -> ConnState] /\ conn'[c] = y
      /\ \A d \in Conns \ {c} : conn'[d] = conn[d]
    BY <1>2, <1>3, <1>4, <1>5 DEF BookInv, TypeOK
<1>7. Grows
    BY <1>2, <1>6 DEF BookInv, TypeOK, Grows, Born
<1>8. TasksKept
    BY <1>2, <1>7, FramesStep
<1>9. \A d \in Conns : Born(d)' <=> Born(d)
    BY <1>1, <1>2, <1>6 DEF Born
<1>10. \A n, d : Drawn(n, d)' <=> Drawn(n, d)
    BY <1>2 DEF Drawn
<1>11. TypeOK'
    BY <1>2, <1>6, <1>8 DEF BookInv, TypeOK, TasksKept, maps
<1>12. OwnersBorn'
    BY <1>2, <1>9 DEF BookInv, TypeOK, OwnersBorn
<1>13. ConnsBorn'
    <2>1. ASSUME NEW d \in Conns \ {c} PROVE ConnsBorn!(d)'
        BY <1>2, <1>6, <1>9, <1>10 DEF BookInv, ConnsBorn
    <2>2. ConnsBorn!(c)'
        <3>1. Drawn(conn[c].session_id, c) /\ (conn[c].pending_session_id # EMPTY =>
                Drawn(conn[c].pending_session_id, c) /\ conn[c].session_id < conn[c].pending_session_id)
            BY <1>1 DEF BookInv, ConnsBorn
        <3>2. CASE Acks(conn[c], s)
            BY <1>1, <1>2, <1>3, <1>6, <1>9, <1>10, <3>2
        <3>3. CASE ~Acks(conn[c], s)
            BY <1>1, <1>2, <1>3, <1>6, <1>9, <1>10, <3>1, <3>3
        <3> QED BY <3>2, <3>3
    <2> QED BY <2>1, <2>2 DEF ConnsBorn
<1>14. MappedBorn'
    <2>1. \A b \in Addrs : by_socket_addr'[b] # NoConn => conn'[by_socket_addr'[b]].state # "Unborn"
        BY <1>2, <1>9 DEF BookInv, MappedBorn, TypeOK, maps, Born
    <2>2. \A ip \in IPs : ip_to_conn_map'[ip] # NoConn => conn'[ip_to_conn_map'[ip]].state # "Unborn"
        BY <1>1, <1>2, <1>9 DEF BookInv, MappedBorn, TypeOK, Born
    <2>3. \A d \in removed' : Born(d)'
        BY <1>2, <1>9 DEF BookInv, MappedBorn, TypeOK
    <2> QED BY <2>1, <2>2, <2>3 DEF MappedBorn, Born
<1>15. EventsDrawn'
    <2>1. ASSUME NEW d \in Conns \ {c} PROVE EventsDrawn!(d)'
        BY <1>2, <1>6, <1>10 DEF BookInv, EventsDrawn
    <2>2. conn[c].session_id <= y.session_id /\ y.session_id \in SessionIds
        BY <1>1, <1>3 DEF SessionIds
    <2>3. ASSUME NEW i \in 1..Len(r), r[i].kind = "Ack"
          PROVE  /\ Drawn(r[i].old, c) /\ Drawn(r[i].new, c)
                 /\ r[i].old < r[i].new /\ r[i].new <= y.session_id
        <3>1. CASE i \in 1..Len(q)
            <4>1. /\ r[i] = q[i] /\ Drawn(r[i].old, c) /\ Drawn(r[i].new, c)
                  /\ r[i].old < r[i].new /\ r[i].new <= conn[c].session_id
                BY <1>4, <1>5, <2>3, <3>1 DEF BookInv, EventsDrawn
            <4>2. r[i].new \in SessionIds
                BY <4>1 DEF Drawn
            <4> QED BY <1>1, <2>2, <4>1, <4>2 DEF SessionIds
        <3>2. CASE i \in (Len(q) + 1)..Len(r)
            <4>1. Len(ack) = 1 /\ r[i] = ack[1]
                BY <1>5, <2>3, <3>2
            <4>2. Acks(conn[c], s)
                BY <1>3, <4>1
            <4>3. s <= s
                BY <1>3, <4>2 DEF SessionIds
            <4> QED BY <1>3, <4>1, <4>2, <4>3
        <3> QED BY <1>5, <3>1, <3>2
    <2>4. q # <<>> => r # <<>> /\ r[1] = q[1]
        BY <1>5
    <2>5. EventsDrawn!(c)
        BY DEF BookInv, EventsDrawn
    <2>6. EventsDrawn!(c)'
        BY <1>2, <1>4, <1>6, <1>10, <2>3, <2>4, <2>5
    <2> QED BY <2>1, <2>6 DEF EventsDrawn
<1>16. NoCrossTalk'
    BY <1>2 DEF BookInv, NoCrossTalk, maps
<1> QED BY <1>2, <1>8, <1>11, <1>12, <1>13, <1>14, <1>15, <1>16 DEF BookInv, TasksKept

LEMMA NoKey == ASSUME NEW q \in Seq(Event), NEW ack \in Seq(Event) PROVE q \o <<>> \o ack = q \o ack
<1>1. q \o <<>> = q
    OBVIOUS
<1> QED BY <1>1

\* Authentication gives a connection the IP it has, or the head of the pool.
LEMMA AuthFrames ==
    ASSUME BookInv, NEW t \in Receivers, task[t].pc = "process", ProcessAuth(t)
    PROVE  \E c \in Conns, y \in ConnState, ip \in IPs :
             /\ c = task[t].conn /\ conn[c].state \in {"LinkUp", "Online"} /\ Born(c)
             /\ Frames(t, c, y, <<>>) /\ y.internal_ip = ip
             /\ ip_to_conn_map' = [ip_to_conn_map EXCEPT ![ip] = c]
             /\ allocated_ips' = allocated_ips \cup {ip}
             /\ \/ conn[c].internal_ip = ip /\ available_ips' = available_ips
                \/ /\ conn[c].internal_ip = NoConn /\ Len(available_ips) > 0 /\ ip = Head(available_ips)
                   /\ available_ips' = Tail(available_ips)
<1>1. t \in Tasks
    BY DEF Tasks
<1>2. PICK c \in Conns : c = task[t].conn /\ Born(c)
    BY <1>1 DEF BookInv, TasksBorn, Fits
<1>3. PICK s \in SessionIds \cup {EMPTY} : s = task[t].session
    BY <1>1 DEF BookInv, TypeOK, TaskState
<1>4. conn[c].internal_ip \in IPs \cup {NoConn} /\ available_ips \in Seq(IPs) /\ NoConn \notin IPs
    BY ManagerAssumption DEF BookInv, TypeOK, ConnState
<1>5. PICK ip : ip = IF conn[c].internal_ip # NoConn THEN conn[c].internal_ip ELSE Head(available_ips)
    OBVIOUS
<1>6. /\ conn[c].internal_ip # NoConn \/ available_ips # <<>>
      /\ ip_to_conn_map' = [ip_to_conn_map EXCEPT ![ip] = c]
      /\ available_ips' = IF conn[c].internal_ip # NoConn THEN available_ips ELSE Tail(available_ips)
      /\ allocated_ips' = allocated_ips \cup {ip}
      /\ conn' = [conn EXCEPT ![c] = [Acked(conn[c], s) EXCEPT !.state = "Online", !.internal_ip = ip]]
      /\ events' = [events EXCEPT ![c] = events[c] \o AckEvent(conn[c], s)]
      /\ AfterFrames(t) /\ conn[c].state \in {"LinkUp", "Online"}
      /\ UNCHANGED <<datagram, maps, pending_session_id_rotations, event_task, sessions, owner, removed, closed>>
    BY <1>2, <1>3, <1>5 DEF ProcessAuth
<1>7. /\ ip \in IPs
      /\ \/ conn[c].internal_ip = ip /\ available_ips' = available_ips
         \/ /\ conn[c].internal_ip = NoConn /\ Len(available_ips) > 0 /\ ip = Head(available_ips)
            /\ available_ips' = Tail(available_ips)
    BY <1>4, <1>5, <1>6
<1>8. PICK z \in ConnState : z = Acked(conn[c], s) /\ z.addr = conn[c].addr
    BY <1>2, AckedFacts
<1>9. PICK y \in ConnState : /\ y = [z EXCEPT !.state = "Online", !.internal_ip = ip]
                             /\ y.state = "Online" /\ y.internal_ip = ip /\ y.addr = z.addr
                             /\ y.session_id = z.session_id /\ y.pending_session_id = z.pending_session_id
    <2>1. [z EXCEPT !.state = "Online", !.internal_ip = ip] \in ConnState
        BY <1>7 DEF ConnState, States
    <2> QED BY <2>1 DEF ConnState
<1>10. events[c] \o <<>> \o AckEvent(conn[c], s) = events[c] \o AckEvent(conn[c], s)
    BY <1>2, AckedFacts, NoKey DEF BookInv, TypeOK
<1>11. conn' = [conn EXCEPT ![c] = y] /\ events' = [events EXCEPT ![c] = events[c] \o <<>> \o AckEvent(conn[c], s)]
    BY <1>6, <1>8, <1>9, <1>10
<1>12. Frames(t, c, y, <<>>)
    BY <1>2, <1>3, <1>6, <1>8, <1>9, <1>11 DEF Frames
<1> QED BY <1>2, <1>6, <1>7, <1>9, <1>12

LEMMA ProcessAuthBook ==
    ASSUME BookInv, NEW t \in Receivers, task[t].pc = "process", ProcessAuth(t)
    PROVE  BookInv'
<1>1. PICK c \in Conns, y \in ConnState, ip \in IPs :
        /\ Frames(t, c, y, <<>>) /\ ip_to_conn_map' = [ip_to_conn_map EXCEPT ![ip] = c]
        /\ allocated_ips' = allocated_ips \cup {ip}
        /\ \/ conn[c].internal_ip = ip /\ available_ips' = available_ips
           \/ /\ conn[c].internal_ip = NoConn /\ Len(available_ips) > 0 /\ ip = Head(available_ips)
              /\ available_ips' = Tail(available_ips)
    BY AuthFrames
<1>2. ip_to_conn_map \in [IPs -> Conns \cup {NoConn}] /\ available_ips \in Seq(IPs) /\ allocated_ips \subseteq IPs
    BY DEF BookInv, TypeOK
<1>3. ip_to_conn_map' \in [IPs -> Conns \cup {NoConn}] /\ \A i \in IPs : ip_to_conn_map'[i] \in {NoConn, c, ip_to_conn_map[i]}
    BY <1>1, <1>2
<1>4. available_ips' \in Seq(IPs)
    <2>1. CASE available_ips' = available_ips
        BY <1>2, <2>1
    <2>2. CASE Len(available_ips) > 0 /\ available_ips' = Tail(available_ips)
        BY <1>2, <2>2
    <2> QED BY <1>1, <2>1, <2>2
<1>5. allocated_ips' \subseteq IPs
    BY <1>1, <1>2
<1>6. <<>> \in KeyEvents
    BY DEF KeyEvents
<1> QED BY <1>1, <1>3, <1>4, <1>5, <1>6, FramesBook

LEMMA DataFrames ==
    ASSUME BookInv, NEW t \in Receivers, task[t].pc = "process", ProcessData(t)
    PROVE  \E c \in Conns, y \in ConnState, key \in KeyEvents :
             /\ c = task[t].conn /\ conn[c].state = "Online" /\ Born(c)
             /\ Frames(t, c, y, key) /\ y.internal_ip = conn[c].internal_ip /\ UNCHANGED ips
<1>1. t \in Tasks
    BY DEF Tasks
<1>2. PICK c \in Conns : c = task[t].conn /\ Born(c)
    BY <1>1 DEF BookInv, TasksBorn, Fits
<1>3. PICK s \in SessionIds \cup {EMPTY} : s = task[t].session
    BY <1>1 DEF BookInv, TypeOK, TaskState
<1>4. PICK key \in KeyEvents :
      /\ events' = [events EXCEPT ![c] = events[c] \o key \o AckEvent(conn[c], s)]
      /\ conn' = [conn EXCEPT ![c] = Acked(conn[c], s)]
      /\ AfterFrames(t) /\ conn[c].state = "Online"
      /\ UNCHANGED <<datagram, maps, pending_session_id_rotations, ips, event_task, sessions, owner, removed, closed>>
    BY <1>2, <1>3 DEF ProcessData, KeyEvents
<1>5. PICK y \in ConnState : y = Acked(conn[c], s) /\ y.addr = conn[c].addr /\ y.internal_ip = conn[c].internal_ip
                             /\ y.state = conn[c].state
    <2>1. /\ Acked(conn[c], s) \in ConnState /\ Acked(conn[c], s).addr = conn[c].addr
          /\ Acked(conn[c], s).state = conn[c].state /\ Acked(conn[c], s).internal_ip = conn[c].internal_ip
        BY <1>2, AckedFacts
    <2> QED BY <2>1, Zenon
<1>6. Frames(t, c, y, key)
    BY <1>2, <1>3, <1>4, <1>5 DEF Frames
<1> QED BY <1>2, <1>4, <1>5, <1>6

LEMMA ProcessDataBook ==
    ASSUME BookInv, NEW t \in Receivers, task[t].pc = "process", ProcessData(t)
    PROVE  BookInv'
<1>1. PICK c \in Conns, y \in ConnState, key \in KeyEvents : Frames(t, c, y, key) /\ UNCHANGED ips
    BY DataFrames
<1>2. /\ ip_to_conn_map' \in [IPs -> Conns \cup {NoConn}] /\ available_ips' \in Seq(IPs) /\ allocated_ips' \subseteq IPs
      /\ \A ip \in IPs : ip_to_conn_map'[ip] \in {NoConn, c, ip_to_conn_map[ip]}
    BY <1>1 DEF BookInv, TypeOK, ips
<1> QED BY <1>1, <1>2, FramesBook

-----------------------------------------------------------------------------
LEMMA ReceiveBook == ASSUME BookInv, NEW r \in Receivers, Receive(r) \/ Accept(r) PROVE BookInv'
<1>1. CASE Accept(r)
    BY <1>1, NewConnectionBook DEF Accept
<1>2. CASE Receive(r)
    <2>1. PICK a \in Addrs, s \in 0..sessions :
            \/ LookupFound(r, a, s)
            \/ LookupPending(r, a, s)
            \/ Reject(a, s)
            \/ \E c \in Conns : NewConnection(r, c, a)
        BY <1>2 DEF Receive
    <2>2. datagram /\ \A q \in Receivers : task[q].pc = "idle"
        BY <1>2 DEF Receive
    <2> QED BY <2>1, <2>2, LookupBook, RejectBook, NewConnectionBook
<1> QED BY <1>1, <1>2

LEMMA ProcessBook == ASSUME BookInv, NEW r \in Receivers, Process(r) PROVE BookInv'
<1>1. r \in Tasks /\ task[r].pc = "process"
    BY DEF Tasks, Process
<1> QED BY <1>1, EndsBook, HandshakeBook, AuthFailsBook, ProcessAuthBook, ProcessDataBook DEF Process

\* BookInv speaks of the variables only.
LEMMA BookStutters == ASSUME BookInv, UNCHANGED vars PROVE BookInv'
<1> USE DEF vars, maps, ips
<1>1. TypeOK' /\ OwnersBorn' /\ ConnsBorn' /\ MappedBorn'
    BY DEF BookInv, TypeOK, OwnersBorn, ConnsBorn, MappedBorn, Born, Drawn
<1>2. TasksBorn' /\ Turns'
    BY DEF BookInv, TasksBorn, Fits, Turns, Busy, Born, Drawn
<1>3. EventsDrawn' /\ NoCrossTalk'
    BY DEF BookInv, EventsDrawn, NoCrossTalk, Drawn
<1> QED BY <1>1, <1>2, <1>3 DEF BookInv

LEMMA BookStep == ASSUME BookInv, [Next]_vars PROVE BookInv'
<1>1. ASSUME NEW r \in Receivers, Receive(r) \/ Accept(r) \/ Process(r) PROVE BookInv'
    BY <1>1, ReceiveBook, ProcessBook
<1>2. ASSUME NEW r \in Receivers, FloatConn(r) \/ FloatMap(r) \/ Rotate(r) \/ RotateInsert(r) PROVE BookInv'
    BY <1>2, FloatConnBook, FloatMapBook, RotateBook, RotateInsertBook
<1>3. ASSUME NEW r \in Receivers, StreamEnds(r) PROVE BookInv'
    BY <1>3, EndsBook DEF Tasks
<1>4. ASSUME NEW t \in Tasks, RemoveConnection(t) \/ LwDisconnect(t) PROVE BookInv'
    BY <1>4, RemoveBook, LwDisconnectBook
<1>5. ASSUME NEW w \in Workers, NEW c \in Conns, SpawnDisconnect(w, c) \/ Stale(w, c) PROVE BookInv'
    BY <1>5, SpawnDisconnectBook, StaleBook
<1>6. ASSUME NEW c \in Conns, EventDropped(c) \/ EventKeyUpdate(c) \/ EventInsert(c) PROVE BookInv'
    BY <1>6, EventDroppedBook, EventKeyUpdateBook, EventInsertBook
<1>7. ASSUME NEW c \in Conns, EventFinalize(c) \/ EventRemap(c) \/ TimedOut(c) PROVE BookInv'
    BY <1>7, EventFinalizeBook, EventRemapBook, TimedOutBook
<1>8. CASE CleanupPending
    BY <1>8, CleanupBook
<1>9. CASE UNCHANGED vars
    BY <1>9, BookStutters
<1> QED BY <1>1, <1>2, <1>3, <1>4, <1>5, <1>6, <1>7, <1>8, <1>9 DEF Next

LEMMA BookInit == ASSUME Init PROVE BookInv
<1> USE DEF Init
<1>1. TypeOK
    <2>1. [state |-> "Unborn", addr |-> NoConn, session_id |-> EMPTY, pending_session_id |-> EMPTY,
           internal_ip |-> NoConn, stale_timer |-> FALSE] \in ConnState
        BY DEF ConnState, States
    <2>2. conn \in [Conns -> ConnState]
        BY <2>1
    <2>3. available_ips \in Seq(IPs)
        <3>1. IsFiniteSet(IPs) /\ PoolOrder \in [1..Cardinality(IPs) -> IPs]
            BY ManagerAssumption
        <3>2. Cardinality(IPs) \in Nat
            BY <3>1, FS_CardinalityType
        <3> QED BY <3>1, <3>2, SeqDef
    <2>4. events \in [Conns -> Seq(Event)]
        OBVIOUS
    <2>5. task \in [Tasks -> TaskState]
        <3>1. Idle \in TaskState
            BY IdleFits
        <3> QED BY <3>1
    <2>6. datagram \in BOOLEAN /\ sessions \in 0..MaxSessions
        BY ManagerAssumption
    <2> QED BY <2>2, <2>3, <2>4, <2>5, <2>6 DEF TypeOK
<1>2. OwnersBorn /\ ConnsBorn /\ MappedBorn /\ NoCrossTalk
    BY DEF OwnersBorn, ConnsBorn, MappedBorn, NoCrossTalk, Born
<1>3. TasksBorn /\ Turns
    BY IdleFits DEF TasksBorn, Fits, Turns, Busy, Tasks
<1>4. EventsDrawn
    BY DEF EventsDrawn
<1> QED BY <1>1, <1>2, <1>3, <1>4 DEF BookInv

LEMMA BookHolds == Spec => []BookInv
<1>1. Init => BookInv
    BY BookInit
<1>2. BookInv /\ [Next]_vars => BookInv'
    BY BookStep
<1> QED BY <1>1, <1>2, PTL DEF Spec

-----------------------------------------------------------------------------
\* The inside IPs.  A pool without repetitions stays one when its head is drawn
\* or an IP it does not have is returned.
Distinct(q) == \A i, j \in DOMAIN q : q[i] = q[j] => i = j

LEMMA PoolDraw ==
    ASSUME NEW q \in Seq(IPs), Len(q) > 0, Distinct(q)
    PROVE  /\ Tail(q) \in Seq(IPs) /\ Distinct(Tail(q)) /\ Head(q) \in IPs
           /\ Img(Tail(q)) = Img(q) \ {Head(q)} /\ Head(q) \in Img(q)
<1>1. /\ Tail(q) \in Seq(IPs) /\ Len(Tail(q)) = Len(q) - 1 /\ Len(q) \in Nat \ {0}
      /\ DOMAIN q = 1..Len(q) /\ DOMAIN Tail(q) = 1..Len(Tail(q)) /\ Head(q) = q[1] /\ q[1] \in IPs
      /\ \A i \in 1..Len(Tail(q)) : Tail(q)[i] = q[i + 1]
    OBVIOUS
<1>2. Distinct(Tail(q))
    <2> SUFFICES ASSUME NEW i \in 1..Len(Tail(q)), NEW j \in 1..Len(Tail(q)), Tail(q)[i] = Tail(q)[j] PROVE i = j
        BY <1>1 DEF Distinct
    <2>1. i + 1 \in DOMAIN q /\ j + 1 \in DOMAIN q /\ q[i + 1] = q[j + 1]
        BY <1>1
    <2>2. i + 1 = j + 1
        BY <2>1 DEF Distinct
    <2> QED BY <1>1, <2>2
<1>3. Head(q) \in Img(q)
    BY <1>1 DEF Img
<1>4. ASSUME NEW x \in Img(Tail(q)) PROVE x \in Img(q) \ {Head(q)}
    <2>1. PICK i \in 1..Len(Tail(q)) : x = q[i + 1]
        BY <1>1 DEF Img
    <2>2. i + 1 \in DOMAIN q /\ 1 \in DOMAIN q /\ i + 1 # 1
        BY <1>1
    <2> QED BY <1>1, <2>1, <2>2 DEF Img, Distinct
<1>5. ASSUME NEW x \in Img(q) \ {Head(q)} PROVE x \in Img(Tail(q))
    <2>1. PICK i \in 1..Len(q) : x = q[i]
        BY <1>1 DEF Img
    <2>2. i # 1
        BY <1>1, <2>1
    <2>3. PICK j \in 1..Len(Tail(q)) : i = j + 1
        <3>1. i - 1 \in 1..Len(Tail(q)) /\ i = (i - 1) + 1
            BY <1>1, <2>2
        <3> QED BY <3>1
    <2> QED BY <1>1, <2>1, <2>3 DEF Img
<1> QED BY <1>1, <1>2, <1>3, <1>4, <1>5

LEMMA PoolReturn ==
    ASSUME NEW q \in Seq(IPs), Distinct(q), NEW ip \in IPs, ip \notin Img(q)
    PROVE  Append(q, ip) \in Seq(IPs) /\ Distinct(Append(q, ip)) /\ Img(Append(q, ip)) = Img(q) \cup {ip}
<1>1. PICK r \in Seq(IPs) :
        /\ r = Append(q, ip) /\ Len(q) \in Nat /\ Len(r) = Len(q) + 1
        /\ DOMAIN q = 1..Len(q) /\ DOMAIN r = 1..(Len(q) + 1)
        /\ r[Len(q) + 1] = ip /\ \A i \in 1..Len(q) : r[i] = q[i]
    <2>1. /\ Append(q, ip) \in Seq(IPs) /\ Len(q) \in Nat /\ Len(Append(q, ip)) = Len(q) + 1
          /\ DOMAIN q = 1..Len(q) /\ DOMAIN Append(q, ip) = 1..(Len(q) + 1)
        OBVIOUS
    <2>2. Append(q, ip)[Len(q) + 1] = ip /\ \A i \in 1..Len(q) : Append(q, ip)[i] = q[i]
        OBVIOUS
    <2> QED BY <2>1, <2>2, Zenon
<1>2. \A i \in 1..(Len(q) + 1) : i \in 1..Len(q) \/ i = Len(q) + 1
    BY <1>1
<1>3. \A i \in 1..Len(q) : r[i] # ip /\ r[i] \in Img(q)
    BY <1>1 DEF Img
<1>4. Distinct(r)
    BY <1>1, <1>2, <1>3 DEF Distinct
<1>5. Img(r) = Img(q) \cup {ip}
    <2>1. ASSUME NEW x \in Img(r) PROVE x \in Img(q) \cup {ip}
        BY <1>1, <1>2, <1>3 DEF Img
    <2>2. ASSUME NEW x \in Img(q) PROVE x \in Img(r)
        <3>1. PICK i \in 1..Len(q) : x = q[i]
            BY <1>1 DEF Img
        <3>2. i \in DOMAIN r /\ x = r[i]
            BY <1>1, <3>1
        <3> QED BY <3>2 DEF Img
    <2>3. ip \in Img(r)
        <3>1. Len(q) + 1 \in DOMAIN r
            BY <1>1
        <3> QED BY <1>1, <3>1 DEF Img
    <2> QED BY <2>1, <2>2, <2>3
<1> QED BY <1>1, <1>4, <1>5

\* shuffle_ips loses no IP: as many places as IPs, and no IP in two of them.
LEMMA PoolComplete == Img(PoolOrder) = IPs
<1>1. IsFiniteSet(IPs) /\ PoolOrder \in [1..Cardinality(IPs) -> IPs] /\ Cardinality(IPs) \in Nat
    BY ManagerAssumption, FS_CardinalityType
<1>2. PoolOrder \in Injection(1..Cardinality(IPs), IPs)
    BY <1>1, ManagerAssumption DEF Injection, IsInjective
<1>3. IsFiniteSet(1..Cardinality(IPs)) /\ Cardinality(1..Cardinality(IPs)) = Cardinality(IPs)
    BY <1>1, FS_Interval
<1>4. PoolOrder \in Surjection(1..Cardinality(IPs), IPs)
    BY <1>1, <1>2, <1>3, FS_Injection
<1> QED BY <1>1, <1>4 DEF Surjection, Img

\* The pool keeps its IPs, and every connection the one it has.
LEMMA IpsKeep ==
    ASSUME IpsConserved, NEW q, available_ips' = q, Distinct(q), Img(q) = Img(available_ips),
           UNCHANGED <<ip_to_conn_map, allocated_ips>>, TypeOK,
           \A d \in Conns : /\ conn'[d].internal_ip = conn[d].internal_ip
                            /\ conn[d].state = "Online" /\ conn[d].internal_ip # NoConn => conn'[d].state = "Online"
    PROVE  IpsConserved'
<1>1. \A ip \in allocated_ips : ip \in IPs /\ ip_to_conn_map[ip] \in Conns
    BY DEF IpsConserved, TypeOK
<1>2. \A ip \in allocated_ips' : conn'[ip_to_conn_map'[ip]].internal_ip = ip
    BY <1>1 DEF IpsConserved
<1>3. \A d \in Conns : conn'[d].internal_ip # NoConn => conn'[d].state = "Online" /\ ip_to_conn_map'[conn'[d].internal_ip] = d
    BY DEF IpsConserved
<1> QED BY <1>2, <1>3 DEF IpsConserved, Distinct

\* Connections that keep their IP and stay Online if they were.
SameIps == /\ UNCHANGED ips
           /\ \A d \in Conns : /\ conn'[d].internal_ip = conn[d].internal_ip
                               /\ conn[d].state = "Online" /\ conn[d].internal_ip # NoConn => conn'[d].state = "Online"

LEMMA IpsSame == ASSUME IpsConserved, TypeOK, SameIps PROVE IpsConserved'
<1>1. available_ips' = available_ips /\ Distinct(available_ips) /\ UNCHANGED <<ip_to_conn_map, allocated_ips>>
    BY DEF IpsConserved, Distinct, SameIps, ips
<1>2. \A d \in Conns : /\ conn'[d].internal_ip = conn[d].internal_ip
                       /\ conn[d].state = "Online" /\ conn[d].internal_ip # NoConn => conn'[d].state = "Online"
    BY DEF SameIps
<1> QED BY <1>1, <1>2, IpsKeep

\* Disconnecting a connection frees its IP, once.
LEMMA IpsFreed ==
    ASSUME BookInv, IpsConserved, NEW c \in Conns, conn' = [conn EXCEPT ![c] = Disconnected(conn[c])], Free(conn[c])
    PROVE  IpsConserved'
<1>0. /\ conn \in [Conns -> ConnState] /\ conn[c] \in ConnState /\ NoConn \notin IPs /\ NoConn \notin Conns
      /\ ip_to_conn_map \in [IPs -> Conns \cup {NoConn}] /\ available_ips \in Seq(IPs) /\ allocated_ips \subseteq IPs
    BY ManagerAssumption DEF BookInv, TypeOK
<1>1. CASE Disconnects(conn[c])
    <2>1. /\ Disconnected(conn[c]).state = "Disconnected" /\ Disconnected(conn[c]).internal_ip = NoConn
        BY <1>0, <1>1 DEF Disconnected, ConnState
    <2>2. conn'[c] = Disconnected(conn[c]) /\ \A d \in Conns \ {c} : conn'[d] = conn[d]
        BY <1>0
    <2>3. CASE conn[c].internal_ip # NoConn
        <3>1. PICK ip \in IPs : ip = conn[c].internal_ip
            BY <1>0, <2>3 DEF ConnState
        <3>2. ip_to_conn_map[ip] = c /\ ip \in allocated_ips /\ ip \notin Img(available_ips) /\ ip # NoConn
            BY <1>0, <2>3, <3>1 DEF IpsConserved
        <3>3. /\ ip_to_conn_map' = [ip_to_conn_map EXCEPT ![ip] = NoConn]
              /\ available_ips' = Append(available_ips, ip)
              /\ allocated_ips' = allocated_ips \ {ip}
            BY <1>1, <2>3, <3>1, Zenon DEF Free
        <3>4. Distinct(available_ips') /\ Img(available_ips)' = Img(available_ips) \cup {ip}
            <4>1. Distinct(available_ips)
                BY DEF IpsConserved, Distinct
            <4>2. PICK r : /\ r = Append(available_ips, ip) /\ Distinct(r) /\ Img(r) = Img(available_ips) \cup {ip}
                BY <1>0, <3>2, <4>1, PoolReturn
            <4>3. available_ips' = r
                BY <3>3, <4>2
            <4> QED BY <4>2, <4>3 DEF Img
        <3>5. ip_to_conn_map'[ip] = NoConn /\ \A i \in IPs \ {ip} : ip_to_conn_map'[i] = ip_to_conn_map[i]
            BY <1>0, <3>3
        <3>6. \A i, j \in DOMAIN available_ips' : available_ips'[i] = available_ips'[j] => i = j
            BY <3>4 DEF Distinct
        <3>7. Img(available_ips)' = IPs \ allocated_ips'
            BY <3>3, <3>4 DEF IpsConserved
        <3>8. \A i \in IPs : (i \in allocated_ips') <=> (ip_to_conn_map'[i] # NoConn)
            BY <3>3, <3>5 DEF IpsConserved
        <3>9. \A i \in allocated_ips' : conn'[ip_to_conn_map'[i]].internal_ip = i
            <4>1. ASSUME NEW i \in allocated_ips' PROVE conn'[ip_to_conn_map'[i]].internal_ip = i
                <5>1. i \in allocated_ips /\ i # ip /\ i \in IPs /\ ip_to_conn_map'[i] = ip_to_conn_map[i]
                    BY <1>0, <3>3, <3>5
                <5>2. ip_to_conn_map[i] \in Conns /\ conn[ip_to_conn_map[i]].internal_ip = i
                    BY <1>0, <5>1 DEF IpsConserved
                <5>3. ip_to_conn_map[i] # c
                    BY <3>1, <5>1, <5>2
                <5> QED BY <2>2, <5>1, <5>2, <5>3
            <4> QED BY <4>1
        <3>10. ASSUME NEW d \in Conns, conn'[d].internal_ip # NoConn
               PROVE  conn'[d].state = "Online" /\ ip_to_conn_map'[conn'[d].internal_ip] = d
            <4>1. d # c /\ conn'[d] = conn[d] /\ conn[d].internal_ip \in IPs
                BY <1>0, <2>1, <2>2, <3>10 DEF ConnState
            <4>2. conn[d].state = "Online" /\ ip_to_conn_map[conn[d].internal_ip] = d
                BY <3>10, <4>1 DEF IpsConserved
            <4> QED BY <3>2, <3>5, <4>1, <4>2
        <3> QED BY <3>6, <3>7, <3>8, <3>9, <3>10 DEF IpsConserved
    <2>4. CASE conn[c].internal_ip = NoConn
        <3>1. UNCHANGED ips
            BY <2>4, Zenon DEF Free
        <3> QED BY <2>1, <2>2, <2>4, <3>1, IpsSame DEF SameIps, BookInv
    <2> QED BY <2>3, <2>4
<1>2. CASE ~Disconnects(conn[c])
    <2>1. UNCHANGED ips
        BY <1>2, Zenon DEF Free
    <2>2. Disconnected(conn[c]) = conn[c]
        BY <1>2 DEF Disconnected
    <2>3. \A d \in Conns : conn'[d] = conn[d]
        BY <1>0, <2>2
    <2> QED BY <2>1, <2>3, IpsSame DEF SameIps, BookInv
<1> QED BY <1>1, <1>2

LEMMA IpsAuthFails ==
    ASSUME BookInv, IpsConserved, NEW t \in Receivers, task[t].pc = "process", ProcessAuthFails(t)
    PROVE  IpsConserved'
<1>1. PICK c \in Conns : c = task[t].conn
    BY DEF Tasks, BookInv, TasksBorn, Fits
<1>2. conn' = [conn EXCEPT ![c] = Disconnected(conn[c])] /\ Disconnects(conn[c])
    BY <1>1 DEF ProcessAuthFails, Disconnects
<1>3. CASE Free(conn[c])
    BY <1>2, <1>3, IpsFreed
<1>4. CASE /\ conn[c].internal_ip = NoConn /\ available_ips # <<>>
           /\ available_ips' = Append(Tail(available_ips), Head(available_ips))
           /\ UNCHANGED <<ip_to_conn_map, allocated_ips>>
    <2>0. available_ips \in Seq(IPs) /\ conn \in [Conns -> ConnState]
        BY DEF BookInv, TypeOK
    <2>1. Len(available_ips) > 0 /\ Distinct(available_ips)
        BY <1>4, <2>0 DEF IpsConserved, Distinct
    <2>2. PICK q \in Seq(IPs), ip \in IPs :
            /\ q = Tail(available_ips) /\ ip = Head(available_ips) /\ Distinct(q)
            /\ Img(q) = Img(available_ips) \ {ip} /\ ip \in Img(available_ips)
        BY <2>0, <2>1, PoolDraw
    <2>3. PICK r : r = Append(q, ip) /\ Distinct(r) /\ Img(r) = Img(q) \cup {ip}
        BY <2>2, PoolReturn
    <2>4. available_ips' = r /\ Img(r) = Img(available_ips)
        BY <1>4, <2>2, <2>3
    <2>5. \A d \in Conns : /\ conn'[d].internal_ip = conn[d].internal_ip
                           /\ conn[d].state = "Online" /\ conn[d].internal_ip # NoConn => conn'[d].state = "Online"
        BY <1>2, <1>4, <2>0 DEF Disconnected, ConnState
    <2> QED BY <1>4, <2>3, <2>4, <2>5, IpsKeep DEF BookInv
<1> QED BY <1>1, <1>3, <1>4 DEF ProcessAuthFails

\* An IP that is handed out was in the pool, or is the connection's already.
LEMMA IpsAuth ==
    ASSUME BookInv, IpsConserved, NEW t \in Receivers, task[t].pc = "process", ProcessAuth(t)
    PROVE  IpsConserved'
<1>1. PICK c \in Conns, y \in ConnState, ip \in IPs :
        /\ Frames(t, c, y, <<>>) /\ y.internal_ip = ip
        /\ ip_to_conn_map' = [ip_to_conn_map EXCEPT ![ip] = c]
        /\ allocated_ips' = allocated_ips \cup {ip}
        /\ \/ conn[c].internal_ip = ip /\ available_ips' = available_ips
           \/ /\ conn[c].internal_ip = NoConn /\ Len(available_ips) > 0 /\ ip = Head(available_ips)
              /\ available_ips' = Tail(available_ips)
    BY AuthFrames
<1>2. /\ conn \in [Conns -> ConnState] /\ NoConn \notin IPs /\ NoConn \notin Conns
      /\ ip_to_conn_map \in [IPs -> Conns \cup {NoConn}] /\ available_ips \in Seq(IPs) /\ allocated_ips \subseteq IPs
    BY ManagerAssumption DEF BookInv, TypeOK
<1>3. /\ conn'[c] = y /\ y.state = "Online" /\ \A d \in Conns \ {c} : conn'[d] = conn[d]
      /\ ip_to_conn_map'[ip] = c /\ \A i \in IPs \ {ip} : ip_to_conn_map'[i] = ip_to_conn_map[i]
    BY <1>1, <1>2 DEF Frames
<1>4. /\ ip_to_conn_map[ip] \in {NoConn, c}
      /\ \A i \in allocated_ips \ {ip} : ip_to_conn_map[i] # c
    <2>1. CASE conn[c].internal_ip = ip
        BY <1>2, <2>1 DEF IpsConserved
    <2>2. CASE conn[c].internal_ip = NoConn /\ Len(available_ips) > 0 /\ ip = Head(available_ips)
        <3>1. ip \in Img(available_ips)
            BY <1>2, <2>2, PoolDraw DEF IpsConserved, Distinct
        <3> QED BY <1>2, <2>2, <3>1 DEF IpsConserved
    <2> QED BY <1>1, <2>1, <2>2
<1>5. Distinct(available_ips') /\ Img(available_ips)' = IPs \ allocated_ips'
    <2>0. Distinct(available_ips) /\ Img(available_ips) = IPs \ allocated_ips
        BY DEF IpsConserved, Distinct
    <2>1. CASE conn[c].internal_ip = ip /\ available_ips' = available_ips
        <3>1. ip \in allocated_ips /\ allocated_ips' = allocated_ips
            BY <1>1, <1>2, <2>1 DEF IpsConserved
        <3> QED BY <2>0, <2>1, <3>1 DEF Img
    <2>2. CASE Len(available_ips) > 0 /\ ip = Head(available_ips) /\ available_ips' = Tail(available_ips)
        <3>1. PICK r : r = Tail(available_ips) /\ Distinct(r) /\ Img(r) = Img(available_ips) \ {ip}
            BY <1>2, <2>0, <2>2, PoolDraw
        <3>2. available_ips' = r
            BY <2>2, <3>1
        <3>3. Img(available_ips)' = Img(r)
            BY <3>2 DEF Img
        <3> QED BY <1>1, <2>0, <3>1, <3>2, <3>3
    <2> QED BY <1>1, <2>1, <2>2
<1>6. \A i, j \in DOMAIN available_ips' : available_ips'[i] = available_ips'[j] => i = j
    BY <1>5 DEF Distinct
<1>7. \A i \in IPs : (i \in allocated_ips') <=> (ip_to_conn_map'[i] # NoConn)
    BY <1>1, <1>2, <1>3 DEF IpsConserved
<1>8. ASSUME NEW i \in allocated_ips' PROVE conn'[ip_to_conn_map'[i]].internal_ip = i
    <2>1. CASE i = ip
        BY <1>1, <1>3, <2>1
    <2>2. CASE i # ip
        <3>1. i \in allocated_ips /\ i \in IPs /\ ip_to_conn_map'[i] = ip_to_conn_map[i] /\ ip_to_conn_map[i] # c
            BY <1>1, <1>2, <1>3, <1>4, <2>2
        <3>2. ip_to_conn_map[i] \in Conns /\ conn[ip_to_conn_map[i]].internal_ip = i
            BY <1>2, <3>1 DEF IpsConserved
        <3> QED BY <1>3, <3>1, <3>2
    <2> QED BY <2>1, <2>2
<1>9. ASSUME NEW d \in Conns, conn'[d].internal_ip # NoConn
      PROVE  conn'[d].state = "Online" /\ ip_to_conn_map'[conn'[d].internal_ip] = d
    <2>1. CASE d = c
        BY <1>1, <1>3, <2>1
    <2>2. CASE d # c
        <3>1. conn'[d] = conn[d] /\ conn[d].internal_ip \in IPs
            BY <1>2, <1>3, <1>9, <2>2 DEF ConnState
        <3>2. conn[d].state = "Online" /\ ip_to_conn_map[conn[d].internal_ip] = d
            BY <1>9, <3>1 DEF IpsConserved
        <3>3. conn[d].internal_ip # ip
            BY <1>2, <1>4, <2>2, <3>2
        <3> QED BY <1>3, <3>1, <3>2, <3>3
    <2> QED BY <2>1, <2>2
<1> QED BY <1>5, <1>6, <1>7, <1>8, <1>9 DEF IpsConserved

LEMMA SameIpsNew ==
    ASSUME BookInv, IpsConserved, NEW r, NEW c \in Conns, NEW a, NewConnection(r, c, a)
    PROVE  SameIps
<1>1. conn[c].internal_ip = NoConn
    BY DEF NewConnection, IpsConserved
<1>2. conn'[c].internal_ip = NoConn /\ \A d \in Conns \ {c} : conn'[d] = conn[d]
    BY DEF NewConnection, BookInv, TypeOK
<1> QED BY <1>1, <1>2 DEF SameIps, NewConnection

LEMMA SameIpsOthers ==
    ASSUME BookInv,
           \/ \E r \in Receivers : \/ FloatConn(r) \/ FloatMap(r) \/ Rotate(r) \/ RotateInsert(r) \/ StreamEnds(r)
                                   \/ ProcessNothing(r) \/ ProcessFatal(r)
                                   \/ (task[r].pc = "process" /\ (ProcessHandshake(r) \/ ProcessData(r)))
                                   \/ \E a \in Addrs, s \in 0..sessions :
                                        LookupFound(r, a, s) \/ LookupPending(r, a, s) \/ Reject(a, s)
           \/ \E t \in Tasks : RemoveConnection(t)
           \/ \E w \in Workers, c \in Conns : SpawnDisconnect(w, c) \/ Stale(w, c)
           \/ \E c \in Conns : \/ EventDropped(c) \/ EventKeyUpdate(c) \/ EventInsert(c) \/ EventFinalize(c)
                               \/ EventRemap(c)
           \/ CleanupPending \/ UNCHANGED vars
    PROVE  SameIps
<1>0. conn \in [Conns -> ConnState]
    BY DEF BookInv, TypeOK
<1>1. CASE conn' = conn /\ UNCHANGED ips
    BY <1>1 DEF SameIps
<1>2. ASSUME NEW r \in Receivers, FloatConn(r) PROVE SameIps
    BY <1>0, <1>2 DEF FloatConn, SameIps, ConnState
<1>3. ASSUME NEW r \in Receivers, Rotate(r), conn' # conn PROVE SameIps
    BY <1>0, <1>3 DEF Rotate, Draw, SameIps, ConnState
<1>4. ASSUME NEW r \in Receivers, task[r].pc = "process", ProcessHandshake(r) PROVE SameIps
    BY <1>0, <1>4 DEF ProcessHandshake, SameIps, ConnState
<1>5. ASSUME NEW r \in Receivers, task[r].pc = "process", ProcessData(r) PROVE SameIps
    <2>1. PICK c \in Conns, y \in ConnState, key \in KeyEvents :
            Frames(r, c, y, key) /\ y.internal_ip = conn[c].internal_ip /\ UNCHANGED ips
        BY <1>5, DataFrames
    <2>2. conn'[c] = y /\ y.state = "Online" /\ \A d \in Conns \ {c} : conn'[d] = conn[d]
        BY <1>0, <2>1 DEF Frames
    <2> QED BY <2>1, <2>2 DEF SameIps
<1>6. ASSUME NEW w \in Workers, NEW c \in Conns, Stale(w, c) PROVE SameIps
    BY <1>0, <1>6 DEF Stale, SameIps, ConnState
<1>7. ASSUME NEW c \in Conns, EventKeyUpdate(c) PROVE SameIps
    BY <1>0, <1>7 DEF EventKeyUpdate, Draw, SameIps, ConnState
<1>8. ASSUME NEW r \in Receivers, FloatMap(r) \/ RotateInsert(r) \/ StreamEnds(r) \/ ProcessNothing(r) \/ ProcessFatal(r)
      PROVE  conn' = conn /\ UNCHANGED ips
    BY <1>8 DEF FloatMap, RotateInsert, StreamEnds, ProcessNothing, ProcessFatal
<1>9. ASSUME NEW r \in Receivers, NEW a \in Addrs, NEW s \in 0..sessions,
             LookupFound(r, a, s) \/ LookupPending(r, a, s) \/ Reject(a, s)
      PROVE  conn' = conn /\ UNCHANGED ips
    BY <1>9 DEF LookupFound, LookupPending, Reject
<1>10. ASSUME NEW w \in Workers, NEW c \in Conns, SpawnDisconnect(w, c) PROVE conn' = conn /\ UNCHANGED ips
    BY <1>10 DEF SpawnDisconnect
<1>11. ASSUME NEW c \in Conns, EventDropped(c) \/ EventInsert(c) \/ EventFinalize(c) \/ EventRemap(c)
       PROVE  conn' = conn /\ UNCHANGED ips
    BY <1>11 DEF EventDropped, EventInsert, EventFinalize, EventRemap
<1>12. ASSUME NEW t \in Tasks, RemoveConnection(t) PROVE conn' = conn /\ UNCHANGED ips
    BY <1>12 DEF RemoveConnection
<1>13. ASSUME CleanupPending \/ UNCHANGED vars PROVE conn' = conn /\ UNCHANGED ips
    BY <1>13 DEF CleanupPending, vars
<1>14. ASSUME NEW r \in Receivers, Rotate(r) PROVE UNCHANGED ips
    BY <1>14 DEF Rotate
<1> QED BY <1>1, <1>2, <1>3, <1>4, <1>5, <1>6, <1>7, <1>8, <1>9, <1>10, <1>11, <1>12, <1>13, <1>14

LEMMA IpsStep == ASSUME BookInv, IpsConserved, [Next]_vars PROVE IpsConserved'
<1>1. CASE SameIps
    BY <1>1, IpsSame DEF BookInv
<1>2. ASSUME NEW r \in Receivers, NEW c \in Conns, NEW a \in Addrs, NewConnection(r, c, a) PROVE IpsConserved'
    BY <1>1, <1>2, SameIpsNew
<1>3. ASSUME NEW t \in Tasks, LwDisconnect(t) PROVE IpsConserved'
    <2>1. task[t].conn \in Conns
        BY <1>3 DEF LwDisconnect, BookInv, TasksBorn, Fits
    <2> QED BY <1>3, <2>1, IpsFreed DEF LwDisconnect
<1>4. ASSUME NEW c \in Conns, TimedOut(c) PROVE IpsConserved'
    BY <1>4, IpsFreed DEF TimedOut
<1>5. ASSUME NEW r \in Receivers, Receive(r) \/ Accept(r) PROVE IpsConserved'
    BY <1>1, <1>2, <1>5, SameIpsOthers DEF Receive, Accept
<1>6. ASSUME NEW r \in Receivers, Process(r) PROVE IpsConserved'
    BY <1>1, <1>6, SameIpsOthers, IpsAuth, IpsAuthFails DEF Process
<1>7. ASSUME NEW r \in Receivers, FloatConn(r) \/ FloatMap(r) \/ Rotate(r) \/ RotateInsert(r) \/ StreamEnds(r)
      PROVE  IpsConserved'
    BY <1>1, <1>7, SameIpsOthers
<1>8. ASSUME NEW t \in Tasks, RemoveConnection(t) PROVE IpsConserved'
    BY <1>1, <1>8, SameIpsOthers
<1>9. ASSUME NEW w \in Workers, NEW c \in Conns, SpawnDisconnect(w, c) \/ Stale(w, c) PROVE IpsConserved'
    BY <1>1, <1>9, SameIpsOthers
<1>10. ASSUME NEW c \in Conns, \/ EventDropped(c) \/ EventKeyUpdate(c) \/ EventInsert(c) \/ EventFinalize(c)
                               \/ EventRemap(c)
       PROVE  IpsConserved'
    BY <1>1, <1>10, SameIpsOthers
<1>11. CASE CleanupPending \/ UNCHANGED vars
    BY <1>1, <1>11, SameIpsOthers
<1> QED BY <1>3, <1>4, <1>5, <1>6, <1>7, <1>8, <1>9, <1>10, <1>11 DEF Next

LEMMA IpsInit == ASSUME Init PROVE IpsConserved
<1>1. Img(PoolOrder) = IPs
    BY PoolComplete
<1>2. DOMAIN PoolOrder = 1..Cardinality(IPs)
    BY ManagerAssumption
<1> QED BY <1>1, <1>2, ManagerAssumption DEF Init, IpsConserved, Img

\* Through every interleaving of authentications, evictions, timeouts and
\* repeated disconnects each inside IP is in the pool once or held by one Online
\* connection that the inside loop finds by it (IpManager), for every number of
\* clients, addresses, IPs and tasks.
THEOREM InsideIpsConserved == Spec => []IpsConserved
<1>1. Init => IpsConserved
    BY IpsInit
<1>2. BookInv /\ IpsConserved /\ [Next]_vars => IpsConserved'
    BY IpsStep
<1> QED BY <1>1, <1>2, BookHolds, PTL DEF Spec
===============================================================================
