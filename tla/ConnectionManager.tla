--------------------------- MODULE ConnectionManager --------------------------
(***************************************************************************)
(* The server's bookkeeping of connections: the ConnectionMap (by address, *)
(* by session id), the pending session id rotations, the inside IPs, and   *)
(* the tasks that change them.  A step is what one task does between taking*)
(* and releasing one of the locks (the map's, the pending rotations', a    *)
(* connection's), so every interleaving of lock regions is a behaviour.    *)
(*                                                                         *)
(* Tasks: the receivers (the single UDP loop, or one task per TCP stream), *)
(* one event task per connection, and disconnecters - the spawned evict_*, *)
(* handle_stale and inside-IO-error calls of Connection::disconnect.  A    *)
(* connection exists while an Arc to it does (Alive); the pending rotations*)
(* and the event, stale and ticker tasks hold Weak references.             *)
(*                                                                         *)
(* Session ids are random 64-bit values, here fresh numbers; EMPTY is 0.   *)
(* A packet is its source address and its header's session id.  One that   *)
(* reaches a connection it was not sealed for has no effect, like a replay *)
(* (ProcessNothing); one that was carries no id, or one drawn for the      *)
(* connection (the client adopts whatever id it reads, old ones too).      *)
(***************************************************************************)
EXTENDS Naturals, Sequences, FiniteSets

CONSTANTS
  Conns,        \* connections the server may ever accept (bound)
  Addrs,        \* client socket addresses
  IPs,          \* the inside IPs of the pool, all unreserved
  Transports,   \* is a server a datagram server (UDP) or not (TCP): those considered
  Receivers,    \* receive tasks: one per stream for TCP, one at a time for UDP
  Workers,      \* disconnecting tasks that may run at once (bound)
  MaxSessions,  \* bound: session ids drawn
  NoConn,       \* no connection, no address, no IP
  PoolOrder     \* IpPool::new followed by shuffle_ips: some order of IPs

ASSUME ManagerAssumption ==
  /\ Transports \subseteq BOOLEAN
  /\ Receivers \cap Workers = {}
  /\ MaxSessions \in Nat
  /\ NoConn \notin Conns \cup Addrs \cup IPs
  /\ IsFiniteSet(IPs) /\ PoolOrder \in [1..Cardinality(IPs) -> IPs]
  /\ \A i, j \in 1..Cardinality(IPs) : PoolOrder[i] = PoolOrder[j] => i = j

VARIABLES
  datagram,        \* is this the UDP server
  conn,            \* the lw_conn of each connection
  by_socket_addr, by_session_id,
  pending_session_id_rotations,
  ip_to_conn_map, available_ips, allocated_ips,
  task,            \* receivers and disconnecters
  events, event_task,
  sessions,        \* session ids drawn so far
  owner,           \* owner[s]: the connection s was drawn for (history)
  removed, closed  \* connections removed / whose disconnect() returned (history)

maps == <<by_socket_addr, by_session_id>>
ips == <<ip_to_conn_map, available_ips, allocated_ips>>
vars == <<datagram, conn, maps, pending_session_id_rotations, ips, task, events, event_task,
          sessions, owner, removed, closed>>

EMPTY == 0
SessionIds == 1..MaxSessions
Tasks == Receivers \cup Workers
States == {"Unborn", "Connecting", "LinkUp", "Online", "Disconnected"}

ConnState == [state : States,
              addr : Addrs \cup {NoConn},                     \* peer_addr()
              session_id : SessionIds \cup {EMPTY},
              pending_session_id : SessionIds \cup {EMPTY},   \* EMPTY is None
              internal_ip : IPs \cup {NoConn},
              stale_timer : BOOLEAN]                          \* handle_stale is still asleep

TaskState == [pc : {"idle", "process", "float", "remap", "rotate", "insert",
                    "remove", "disconnect"},
              conn : Conns \cup {NoConn},
              addr : Addrs \cup {NoConn},
              session : SessionIds \cup {EMPTY},
              floated : BOOLEAN,    \* update_peer_address
              last : BOOLEAN]       \* the disconnect a stream task ends with

Event == [kind : {"KeyUpdate", "Ack"}, old : SessionIds \cup {EMPTY}, new : SessionIds \cup {EMPTY}]

Idle == [pc |-> "idle", conn |-> NoConn, addr |-> NoConn, session |-> EMPTY,
         floated |-> FALSE, last |-> FALSE]

Img(f) == {f[x] : x \in DOMAIN f}

(* Some Arc<Connection> to c is left.                                      *)
Alive(c) == \/ c \in Img(by_socket_addr) \cup Img(by_session_id) \cup Img(ip_to_conn_map)
            \/ \E t \in Tasks : task[t].conn = c
            \/ event_task[c] # "idle"

Init ==
  /\ datagram \in Transports
  /\ conn = [c \in Conns |-> [state |-> "Unborn", addr |-> NoConn, session_id |-> EMPTY,
                              pending_session_id |-> EMPTY, internal_ip |-> NoConn,
                              stale_timer |-> FALSE]]
  /\ by_socket_addr = [a \in Addrs |-> NoConn]
  /\ by_session_id = [s \in SessionIds |-> NoConn]
  /\ pending_session_id_rotations = [s \in SessionIds |-> NoConn]
  /\ ip_to_conn_map = [i \in IPs |-> NoConn]
  /\ available_ips = PoolOrder
  /\ allocated_ips = {}
  /\ task = [t \in Tasks |-> Idle]
  /\ events = [c \in Conns |-> <<>>]
  /\ event_task = [c \in Conns |-> "idle"]
  /\ sessions = 0
  /\ owner = [s \in SessionIds |-> NoConn]
  /\ removed = {} /\ closed = {}

-----------------------------------------------------------------------------
(* Lookup of a datagram and creation of connections.                       *)

(* new_connection and the insertion into both maps.                        *)
NewConnection(r, c, a) ==
  /\ conn[c].state = "Unborn"
  /\ sessions < MaxSessions
  /\ conn' = [conn EXCEPT ![c] = [state |-> "Connecting", addr |-> a, session_id |-> sessions + 1,
                                  pending_session_id |-> EMPTY, internal_ip |-> NoConn,
                                  stale_timer |-> TRUE]]
  /\ sessions' = sessions + 1
  /\ owner' = [owner EXCEPT ![sessions + 1] = c]
  /\ by_socket_addr' = [by_socket_addr EXCEPT ![a] = c]
  /\ by_session_id' = [by_session_id EXCEPT ![sessions + 1] = c]
  /\ task' = [task EXCEPT ![r] = [Idle EXCEPT !.pc = "process", !.conn = c, !.addr = a]]
  /\ UNCHANGED <<datagram, pending_session_id_rotations, ips, events, event_task, removed, closed>>

(* find_datagram_connection_with, then the map part of                     *)
(* find_or_create_datagram_connection_with: by address, else by session.   *)
Found(a, s) == IF by_socket_addr[a] # NoConn THEN by_socket_addr[a]
               ELSE IF s = EMPTY THEN NoConn ELSE by_session_id[s]

Take(r, c, a, s) ==
  task' = [task EXCEPT ![r] =
             [Idle EXCEPT !.pc = "process", !.conn = c, !.addr = a, !.session = s,
                          !.floated = (by_socket_addr[a] = NoConn /\ conn[c].addr # a)]]

LookupFound(r, a, s) ==
  LET c == Found(a, s) IN
  /\ c # NoConn
  /\ by_socket_addr[a] # NoConn \/ conn[c].session_id = s
  /\ Take(r, c, a, s)
  /\ UNCHANGED <<datagram, conn, maps, pending_session_id_rotations, ips, events, event_task, sessions,
                 owner, removed, closed>>

LookupPending(r, a, s) ==
  /\ Found(a, s) = NoConn /\ s # EMPTY
  /\ pending_session_id_rotations[s] # NoConn
  /\ Alive(pending_session_id_rotations[s])
  /\ Take(r, pending_session_id_rotations[s], a, s)
  /\ UNCHANGED <<datagram, conn, maps, pending_session_id_rotations, ips, events, event_task, sessions,
                 owner, removed, closed>>

(* The packet is answered with REJECTED: its session is unknown, or a dead *)
(* connection's (whose pending entry is dropped).                          *)
Rejects(a, s) ==
  /\ s # EMPTY
  /\ LET c == Found(a, s) IN
     \/ /\ by_socket_addr[a] = NoConn /\ c # NoConn
        /\ conn[c].session_id # s
     \/ /\ c = NoConn
        /\ pending_session_id_rotations[s] # NoConn => ~Alive(pending_session_id_rotations[s])

Reject(a, s) ==
  /\ Rejects(a, s)
  /\ pending_session_id_rotations' =
       IF Found(a, s) = NoConn THEN [pending_session_id_rotations EXCEPT ![s] = NoConn]
       ELSE pending_session_id_rotations
  /\ UNCHANGED <<datagram, conn, maps, ips, task, events, event_task, sessions, owner, removed, closed>>

(* UdpServer::data_received up to the connection.                          *)
Receive(r) ==
  /\ datagram /\ \A q \in Receivers : task[q].pc = "idle"
  /\ \E a \in Addrs, s \in 0..sessions :
       \/ LookupFound(r, a, s)
       \/ LookupPending(r, a, s)
       \/ Reject(a, s)
       \/ s = EMPTY /\ Found(a, s) = NoConn /\ \E c \in Conns : NewConnection(r, c, a)

(* TcpServer::run accepts a stream: create_streaming_connection overwrites *)
(* whatever the address was mapped to.  From then on the task reads it.    *)
Accept(r) ==
  /\ ~datagram /\ task[r].pc = "idle"
  /\ \E a \in Addrs, c \in Conns : NewConnection(r, c, a)

-----------------------------------------------------------------------------
(* outside_data_received, under the connection's lock.                     *)

(* Connection::disconnect of lightway-core on the state x of a connection: *)
(* refused while Connecting, and a no-op once disconnected.                *)
Disconnects(x) == x.state \in {"LinkUp", "Online"}
Disconnected(x) == IF Disconnects(x) THEN [x EXCEPT !.state = "Disconnected", !.internal_ip = NoConn]
                   ELSE x

(* IpManager::free, when disconnecting x.                                  *)
FreeNothing(x) == UNCHANGED ips                                  \* mutant
Free(x) ==
  IF Disconnects(x) /\ x.internal_ip # NoConn
  THEN /\ ip_to_conn_map' = [ip_to_conn_map EXCEPT ![x.internal_ip] = NoConn]
       /\ available_ips' = Append(available_ips, x.internal_ip)
       /\ allocated_ips' = allocated_ips \ {x.internal_ip}
  ELSE UNCHANGED ips

Goto(t, pc) == task' = [task EXCEPT ![t] = [Idle EXCEPT !.pc = pc, !.conn = task[t].conn]]

(* The packet was sealed by the client of t's connection.                  *)
Authentic(t) == task[t].session # EMPTY => owner[task[t].session] = task[t].conn

(* Where a receiver continues after a packet it has no more to do with: the*)
(* UDP loop drops its reference, a stream's task keeps reading.            *)
Done(t) == task' = IF t \in Receivers /\ ~datagram
                   THEN task ELSE [task EXCEPT ![t] = Idle]

(* A replayed packet, someone else's, or a non-fatal error.                *)
ProcessNothing(t) ==
  /\ datagram
  /\ conn[task[t].conn].state # "Disconnected"
  /\ Done(t)
  /\ UNCHANGED <<datagram, conn, maps, pending_session_id_rotations, ips, events, event_task, sessions,
                 owner, removed, closed>>

(* Err(Disconnected), a Goodbye, or another fatal error.                   *)
ProcessFatal(t) ==
  LET c == task[t].conn IN
  /\ conn[c].state = "Disconnected" \/ Authentic(t)
  /\ Goto(t, "remove")
  /\ UNCHANGED <<datagram, conn, maps, pending_session_id_rotations, ips, events, event_task, sessions,
                 owner, removed, closed>>

ProcessHandshake(t) ==
  LET c == task[t].conn IN
  /\ conn[c].state = "Connecting" /\ Authentic(t)
  /\ conn' = [conn EXCEPT ![c].state = "LinkUp"]
  /\ Done(t)
  /\ UNCHANGED <<datagram, maps, pending_session_id_rotations, ips, events, event_task, sessions, owner,
                 removed, closed>>

(* handle_auth_request of an end without an IP when the pool is empty or   *)
(* the credentials are refused (the IP drawn for it goes to the back).     *)
ProcessAuthFails(t) ==
  LET c == task[t].conn IN
  /\ conn[c].state \in {"LinkUp", "Online"} /\ Authentic(t)
  /\ conn' = [conn EXCEPT ![c] = Disconnected(@)]
  /\ IF conn[c].internal_ip # NoConn \/ available_ips = <<>> THEN Free(conn[c])
     ELSE /\ available_ips' = Append(Tail(available_ips), Head(available_ips))
          /\ UNCHANGED <<ip_to_conn_map, allocated_ips>>
  /\ Goto(t, "remove")
  /\ UNCHANGED <<datagram, maps, pending_session_id_rotations, events, event_task, sessions, owner,
                 removed, closed>>

(* update_session_id after a packet that held frames: the rotation is      *)
(* acknowledged when the header carries the pending id.                    *)
Acks(x, s) == s # EMPTY /\ s # x.session_id /\ s = x.pending_session_id
Acked(x, s) == IF Acks(x, s) THEN [x EXCEPT !.session_id = s, !.pending_session_id = EMPTY] ELSE x
AckEvent(x, s) == IF Acks(x, s) THEN <<[kind |-> "Ack", old |-> x.session_id, new |-> s]>> ELSE <<>>

AfterFrames(t) == IF task[t].floated
                  THEN task' = [task EXCEPT ![t] = [Idle EXCEPT !.pc = "float", !.conn = task[t].conn,
                                                                !.addr = task[t].addr]]
                  ELSE Done(t)

(* ServerIpPool::alloc: the IP it already has, or the head of the pool.    *)
ProcessAuth(t) ==
  LET c == task[t].conn
      s == task[t].session
      had == conn[c].internal_ip # NoConn
      ip == IF had THEN conn[c].internal_ip ELSE Head(available_ips)
  IN /\ conn[c].state \in {"LinkUp", "Online"} /\ Authentic(t)
     /\ had \/ available_ips # <<>>
     /\ ip_to_conn_map' = [ip_to_conn_map EXCEPT ![ip] = c]
     /\ available_ips' = IF had THEN available_ips ELSE Tail(available_ips)
     /\ allocated_ips' = allocated_ips \cup {ip}
     /\ conn' = [conn EXCEPT ![c] = [Acked(@, s) EXCEPT !.state = "Online", !.internal_ip = ip]]
     /\ events' = [events EXCEPT ![c] = @ \o AckEvent(conn[c], s)]
     /\ AfterFrames(t)
     /\ UNCHANGED <<datagram, maps, pending_session_id_rotations, event_task, sessions, owner, removed, closed>>

(* Frames of an Online connection; maybe a TLS key update starts (its      *)
(* interval outlasts the event task).                                      *)
ProcessData(t) ==
  LET c == task[t].conn
      s == task[t].session
  IN /\ conn[c].state = "Online" /\ Authentic(t)
     /\ conn' = [conn EXCEPT ![c] = Acked(@, s)]
     /\ \E key \in {<<>>, <<[kind |-> "KeyUpdate", old |-> EMPTY, new |-> EMPTY]>>} :
          /\ key # <<>> => \A i \in DOMAIN events[c] : events[c][i].kind # "KeyUpdate"
          /\ events' = [events EXCEPT ![c] = @ \o key \o AckEvent(conn[c], s)]
     /\ AfterFrames(t)
     /\ UNCHANGED <<datagram, maps, pending_session_id_rotations, ips, event_task, sessions, owner,
                    removed, closed>>

(* The client floated: ConnectionManager::set_peer_addr, first the         *)
(* connection, then the map ...                                            *)
FloatConn(t) ==
  LET c == task[t].conn IN
  /\ task[t].pc = "float"
  /\ conn' = [conn EXCEPT ![c].addr = task[t].addr]
  /\ task' = [task EXCEPT ![t].pc = "remap", ![t].addr = conn[c].addr]
  /\ UNCHANGED <<datagram, maps, pending_session_id_rotations, ips, events, event_task, sessions, owner,
                 removed, closed>>

(* ... where whatever the old address maps to moves to the new one.        *)
FloatMap(t) ==
  LET old == task[t].addr
      v == by_socket_addr[old]
      a == conn[task[t].conn].addr
  IN /\ task[t].pc = "remap"
     /\ by_socket_addr' = IF v = NoConn THEN by_socket_addr
                          ELSE [[by_socket_addr EXCEPT ![old] = NoConn] EXCEPT ![a] = v]
     /\ Goto(t, "rotate")
     /\ UNCHANGED <<datagram, conn, by_session_id, pending_session_id_rotations, ips, events, event_task,
                    sessions, owner, removed, closed>>

-----------------------------------------------------------------------------
(* Session id rotation.                                                    *)

(* begin_session_id_rotation, the part under the connection's lock: draw an*)
(* id and announce it in a keepalive.                                      *)
CanBegin(c) == conn[c].pending_session_id = EMPTY

DrawRepeats(c) ==                                                \* mutant: the id is drawn again later
  /\ sessions < MaxSessions
  /\ conn' = [conn EXCEPT ![c].pending_session_id = sessions + 1]
  /\ sessions' = sessions
  /\ owner' = [owner EXCEPT ![sessions + 1] = c]

Draw(c) ==
  /\ sessions < MaxSessions
  /\ conn' = [conn EXCEPT ![c].pending_session_id = sessions + 1]
  /\ sessions' = sessions + 1
  /\ owner' = [owner EXCEPT ![sessions + 1] = c]

(* ... and the part under the pending rotations' lock.                     *)
InsertPending(c, s) ==
  pending_session_id_rotations' = [pending_session_id_rotations EXCEPT ![s] = c]

Rotate(t) ==
  LET c == task[t].conn IN
  /\ task[t].pc = "rotate"
  /\ \/ /\ CanBegin(c) /\ Draw(c)
        /\ task' = [task EXCEPT ![t].pc = "insert", ![t].session = sessions + 1]
     \/ /\ ~CanBegin(c) /\ Done(t)
        /\ UNCHANGED <<conn, sessions, owner>>
  /\ UNCHANGED <<datagram, maps, pending_session_id_rotations, ips, events, event_task, removed, closed>>

RotateInsert(t) ==
  /\ task[t].pc = "insert"
  /\ InsertPending(task[t].conn, task[t].session)
  /\ Done(t)
  /\ UNCHANGED <<datagram, conn, maps, ips, events, event_task, sessions, owner, removed, closed>>

(* handle_events: a connection that is gone drops its events.              *)
EventDropped(c) ==
  /\ event_task[c] = "idle" /\ events[c] # <<>>
  /\ \/ ~Alive(c)
     \/ Head(events[c]).kind = "KeyUpdate" /\ (~CanBegin(c) \/ ~datagram)
  /\ events' = [events EXCEPT ![c] = Tail(@)]
  /\ UNCHANGED <<datagram, conn, maps, pending_session_id_rotations, ips, task, event_task, sessions,
                 owner, removed, closed>>

EventKeyUpdate(c) ==
  /\ event_task[c] = "idle" /\ events[c] # <<>> /\ Alive(c)
  /\ Head(events[c]).kind = "KeyUpdate" /\ datagram
  /\ CanBegin(c) /\ Draw(c)
  /\ event_task' = [event_task EXCEPT ![c] = "insert"]
  /\ events' = [events EXCEPT ![c] = <<[kind |-> "KeyUpdate", old |-> EMPTY, new |-> sessions + 1]>>
                                     \o Tail(@)]
  /\ UNCHANGED <<datagram, maps, pending_session_id_rotations, ips, task, removed, closed>>

EventInsert(c) ==
  /\ event_task[c] = "insert"
  /\ InsertPending(c, Head(events[c]).new)
  /\ event_task' = [event_task EXCEPT ![c] = "idle"]
  /\ events' = [events EXCEPT ![c] = Tail(@)]
  /\ UNCHANGED <<datagram, conn, maps, ips, task, sessions, owner, removed, closed>>

(* finalize_session_id_rotation: the pending entry goes first,             *)
EventFinalize(c) ==
  /\ event_task[c] = "idle" /\ events[c] # <<>> /\ Alive(c)
  /\ Head(events[c]).kind = "Ack"
  /\ pending_session_id_rotations' =
       [pending_session_id_rotations EXCEPT ![Head(events[c]).new] = NoConn]
  /\ event_task' = [event_task EXCEPT ![c] = "finalize"]
  /\ UNCHANGED <<datagram, conn, maps, ips, task, events, sessions, owner, removed, closed>>

FinalizeForgets(c) ==                                            \* mutant: old entry dropped, new not made
  /\ event_task[c] = "finalize"
  /\ by_session_id' = [by_session_id EXCEPT ![Head(events[c]).old] = NoConn]
  /\ event_task' = [event_task EXCEPT ![c] = "idle"]
  /\ events' = [events EXCEPT ![c] = Tail(@)]
  /\ UNCHANGED <<datagram, conn, by_socket_addr, pending_session_id_rotations, ips, task, sessions, owner,
                 removed, closed>>

(* then whatever the old id maps to moves to the new one.                  *)
EventRemap(c) ==
  LET old == Head(events[c]).old
      v == by_session_id[old]
  IN /\ event_task[c] = "finalize"
     /\ by_session_id' = IF v = NoConn THEN by_session_id
                         ELSE [[by_session_id EXCEPT ![old] = NoConn] EXCEPT ![Head(events[c]).new] = v]
     /\ event_task' = [event_task EXCEPT ![c] = "idle"]
     /\ events' = [events EXCEPT ![c] = Tail(@)]
     /\ UNCHANGED <<datagram, conn, by_socket_addr, pending_session_id_rotations, ips, task, sessions, owner,
                    removed, closed>>

(* cleanup_pending_session_ids.                                            *)
CleanupPending ==
  /\ \E s \in SessionIds : /\ pending_session_id_rotations[s] # NoConn
                           /\ ~Alive(pending_session_id_rotations[s])
  /\ pending_session_id_rotations' =
       [s \in SessionIds |-> LET c == pending_session_id_rotations[s] IN
                             IF c # NoConn /\ Alive(c) THEN c ELSE NoConn]
  /\ UNCHANGED <<datagram, conn, maps, ips, task, events, event_task, sessions, owner, removed, closed>>

-----------------------------------------------------------------------------
(* Disconnecting.                                                          *)

Spawn(w, c) ==
  /\ task[w].pc = "idle"
  /\ task' = [task EXCEPT ![w] = [Idle EXCEPT !.pc = "remove", !.conn = c]]

(* evict_idle_connections (idle far longer than the stale timer) and       *)
(* evict_expired_connections (authenticated before) find c by address, the *)
(* inside loop finds it by IP and meets a fatal error.                     *)
SpawnDisconnect(w, c) ==
  /\ \/ c \in Img(by_socket_addr) /\ ~conn[c].stale_timer
     \/ c \in Img(by_socket_addr) /\ conn[c].state \in {"Online", "Disconnected"}
     \/ c \in Img(ip_to_conn_map)
  /\ Spawn(w, c)
  /\ UNCHANGED <<datagram, conn, maps, pending_session_id_rotations, ips, events, event_task, sessions,
                 owner, removed, closed>>

(* handle_stale wakes up, once; it leaves an Online connection alone.      *)
Stale(w, c) ==
  /\ Alive(c) /\ conn[c].stale_timer
  /\ IF conn[c].state = "Online" THEN UNCHANGED task ELSE Spawn(w, c)
  /\ conn' = [conn EXCEPT ![c].stale_timer = FALSE]
  /\ UNCHANGED <<datagram, maps, pending_session_id_rotations, ips, events, event_task, sessions,
                 owner, removed, closed>>

(* End of stream, a read error, or not Online when the timer fires.        *)
StreamEnds(t) ==
  /\ ~datagram /\ t \in Receivers /\ task[t].pc = "process"
  /\ task' = [task EXCEPT ![t] = [Idle EXCEPT !.pc = "remove", !.conn = task[t].conn, !.last = TRUE]]
  /\ UNCHANGED <<datagram, conn, maps, pending_session_id_rotations, ips, events, event_task, sessions,
                 owner, removed, closed>>

RemovesAddressOnly(t) ==                                         \* mutant: the session id is left in its map
  LET c == task[t].conn IN
  /\ task[t].pc = "remove"
  /\ by_socket_addr' = [by_socket_addr EXCEPT ![conn[c].addr] = NoConn]
  /\ removed' = removed \cup {c}
  /\ task' = [task EXCEPT ![t].pc = "disconnect"]
  /\ UNCHANGED <<datagram, conn, by_session_id, pending_session_id_rotations, ips, events, event_task, sessions,
                 owner, closed>>

(* Connection::disconnect: remove_connection, under the map's lock, by the *)
(* address and the id the connection has now,                              *)
RemoveConnection(t) ==
  LET c == task[t].conn IN
  /\ task[t].pc = "remove"
  /\ by_socket_addr' = [by_socket_addr EXCEPT ![conn[c].addr] = NoConn]
  /\ by_session_id' = [by_session_id EXCEPT ![conn[c].session_id] = NoConn]
  /\ removed' = removed \cup {c}
  /\ task' = [task EXCEPT ![t].pc = "disconnect"]
  /\ UNCHANGED <<datagram, conn, pending_session_id_rotations, ips, events, event_task, sessions, owner,
                 closed>>

(* then lw_conn.disconnect(), whose InvalidState is ignored.  A stream's   *)
(* task disconnects once more when its loop ends.                          *)
LwDisconnect(t) ==
  LET c == task[t].conn IN
  /\ task[t].pc = "disconnect"
  /\ conn' = [conn EXCEPT ![c] = Disconnected(@)]
  /\ Free(conn[c])
  /\ closed' = closed \cup {c}
  /\ task' = IF ~datagram /\ t \in Receivers /\ ~task[t].last
             THEN [task EXCEPT ![t].pc = "remove", ![t].last = TRUE]
             ELSE [task EXCEPT ![t] = Idle]
  /\ UNCHANGED <<datagram, maps, pending_session_id_rotations, events, event_task, sessions, owner, removed>>

(* connection_tick: the DTLS timer gives up.  Nobody removes the connection*)
(* from the maps until its next packet, or until it is evicted.            *)
TimedOut(c) ==
  /\ datagram /\ Alive(c) /\ Disconnects(conn[c])
  /\ conn' = [conn EXCEPT ![c] = Disconnected(@)]
  /\ Free(conn[c])
  /\ UNCHANGED <<datagram, maps, pending_session_id_rotations, task, events, event_task, sessions, owner,
                 removed, closed>>

-----------------------------------------------------------------------------
Process(t) ==
  /\ task[t].pc = "process"
  /\ \/ ProcessNothing(t)
     \/ ProcessFatal(t)
     \/ ProcessHandshake(t)
     \/ ProcessAuthFails(t)
     \/ ProcessAuth(t)
     \/ ProcessData(t)

Next ==
  \/ \E r \in Receivers : \/ Receive(r)
                          \/ Accept(r)
                          \/ Process(r)
                          \/ FloatConn(r)
                          \/ FloatMap(r)
                          \/ Rotate(r)
                          \/ RotateInsert(r)
                          \/ StreamEnds(r)
  \/ \E t \in Tasks : RemoveConnection(t) \/ LwDisconnect(t)
  \/ \E w \in Workers, c \in Conns : SpawnDisconnect(w, c) \/ Stale(w, c)
  \/ \E c \in Conns : \/ EventDropped(c)
                      \/ EventKeyUpdate(c)
                      \/ EventInsert(c)
                      \/ EventFinalize(c)
                      \/ EventRemap(c)
                      \/ TimedOut(c)
  \/ CleanupPending

Spec == Init /\ [][Next]_vars

-----------------------------------------------------------------------------
(* The maps, the pending rotations, the IP pool and every task between two *)
(* lock regions have their types (connection_manager.rs).                  *)
TypeOK ==
  /\ datagram \in BOOLEAN
  /\ conn \in [Conns -> ConnState]
  /\ by_socket_addr \in [Addrs -> Conns \cup {NoConn}]
  /\ by_session_id \in [SessionIds -> Conns \cup {NoConn}]
  /\ pending_session_id_rotations \in [SessionIds -> Conns \cup {NoConn}]
  /\ ip_to_conn_map \in [IPs -> Conns \cup {NoConn}]
  /\ available_ips \in Seq(IPs) /\ allocated_ips \subseteq IPs
  /\ task \in [Tasks -> TaskState]
  /\ events \in [Conns -> Seq(Event)]
  /\ event_task \in [Conns -> {"idle", "insert", "finalize"}]
  /\ sessions \in 0..MaxSessions
  /\ owner \in [SessionIds -> Conns \cup {NoConn}]
  /\ removed \subseteq Conns /\ closed \subseteq Conns

(* Every inside IP is in the pool exactly once or held by exactly one      *)
(* Online connection, and the inside loop finds that connection by it: no  *)
(* interleaving of authentication, eviction, timeouts and repeated         *)
(* disconnects leaks an IP or hands it to two clients (IpManager).         *)
IpsConserved ==
  /\ \A i, j \in DOMAIN available_ips : available_ips[i] = available_ips[j] => i = j
  /\ Img(available_ips) = IPs \ allocated_ips
  /\ \A ip \in IPs : (ip \in allocated_ips) <=> (ip_to_conn_map[ip] # NoConn)
  /\ \A ip \in allocated_ips : conn[ip_to_conn_map[ip]].internal_ip = ip
  /\ \A c \in Conns : LET ip == conn[c].internal_ip IN
       ip # NoConn => conn[c].state = "Online" /\ ip_to_conn_map[ip] = c

(* A client that floats is found: while nobody disconnects it, an Online   *)
(* connection's current id leads to it, through overlapping rotations too, *)
(* except between the two halves in which the event task begins or         *)
(* finalizes a rotation to that id.                                        *)
SessionReachable ==
  \A c \in Conns \ removed : conn[c].state = "Online" =>
    LET s == conn[c].session_id IN
    \/ by_session_id[s] = c
    \/ pending_session_id_rotations[s] = c
    \/ event_task[c] # "idle" /\ Head(events[c]).new = s

(* A session id leads to no connection but the one it was drawn for.       *)
NoCrossTalk ==
  \A s \in SessionIds : /\ by_session_id[s] \in {NoConn, owner[s]}
                        /\ pending_session_id_rotations[s] \in {NoConn, owner[s]}

(* "the Connection Arc is dropped (which happens before these events are   *)
(* processed)" (handle_events): when a connection has ended, no task works *)
(* on it and no address leads to it, it holds no inside IP and no session  *)
(* id keeps it.  The one exception is an id the client acknowledged before *)
(* the end and whose map entry the event task moved after it.              *)
EndedForgotten ==
  \A c \in Conns :
    (/\ c \in closed /\ conn[c].state = "Disconnected"
     /\ c \notin Img(by_socket_addr)
     /\ \A t \in Tasks : task[t].conn # c
     /\ event_task[c] = "idle" /\ events[c] = <<>>) =>
      /\ c \notin Img(ip_to_conn_map)
      /\ \A s \in SessionIds : by_session_id[s] = c =>
           s = conn[c].session_id /\ \E first \in SessionIds \ {s} : owner[first] = c

(* Through every interleaving of floats, rotations and disconnects a       *)
(* session id leads to its connection, and to no other (connection_map.rs, *)
(* finalize_session_id_rotation).                                          *)
MapsExact ==
  /\ TypeOK
  /\ NoCrossTalk
  /\ SessionReachable
=============================================================================
