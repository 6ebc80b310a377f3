------------------------------ MODULE InsideLoop ------------------------------
(***************************************************************************)
(* From the server's TUN device to its UDP socket: the inside IO loop, the *)
(* inside IP pools it looks connections up in, and the send queue that     *)
(* collects the datagrams of a batch.  The loop looks a connection up,     *)
(* releases the IP manager's lock and only then takes the connection's, so *)
(* authentication and disconnection of clients interleave; other tasks     *)
(* (ticks, replies) send on the same socket, inside the batch window and   *)
(* outside it.  A packet is its destination, NoIp when it is too short to  *)
(* be IPv4; a datagram is its number, its connection and what it carries.  *)
(***************************************************************************)
EXTENDS Naturals, FiniteSets, SequencesExt

CONSTANTS
  InConns,       \* connections of the server
  Locals,        \* assignments considered of the local address each connected to
  PoolNet,       \* the addresses of ip_pool, naturals: the network's first, the broadcast last
  ReservedIps,   \* client, server, TUN and DNS IPs
  IpMap,         \* ip_map: local address -> subnet of PoolNet
  InsidePackets, \* what the TUN device yields: destinations, or NoIp
  MaxBatch,      \* MAX_IO_BATCH_SIZE
  MaxDatagrams,  \* bound: datagrams accepted
  NoIp, NoInConn

ASSUME InsideBounds ==
  /\ PoolNet \subseteq Nat /\ IsFiniteSet(PoolNet) /\ NoIp \notin PoolNet /\ NoInConn \notin InConns
  /\ InsidePackets \subseteq PoolNet \cup {NoIp} /\ "default" \notin DOMAIN IpMap
  /\ MaxBatch \in Nat /\ MaxDatagrams \in Nat

VARIABLES
  setup,           \* the options server() starts with
  ip_pools,        \* IpManagerInner: ip_pool ("default") and ip_map
  ip_owner,        \* ip_to_conn_map
  client,          \* state and internal_ip of each connection
  inside,          \* the loop: where it is, its packets, the connection it looked up
  window,          \* is a batch window open: SendQueue.queue is Some
  send_queue,      \* the datagrams queued in it
  msgs,            \* what the flush has taken and not sent yet
  accepted,        \* datagrams accepted so far
  socket, dropped  \* datagrams the socket took, in order; datagrams dropped and counted

insideVars == <<setup, ip_pools, ip_owner, client, inside, window, send_queue, msgs, accepted, socket, dropped>>

Pools == {"default"} \cup DOMAIN IpMap
Datagram == [id : 1..MaxDatagrams, conn : InConns, dst : PoolNet \cup {NoIp}, owned : BOOLEAN]

-----------------------------------------------------------------------------
(* IpPool::new and split_subnet: hosts that are not reserved; a mapped     *)
(* subnet takes its own out of the pool.                                   *)
Hosts == {ip \in PoolNet : (\E lo, hi \in PoolNet : lo < ip /\ ip < hi)} \ ReservedIps
split_subnet(p) == IF p = "default"
                   THEN Hosts \ UNION {IpMap[l] : l \in DOMAIN IpMap}
                   ELSE Hosts \cap IpMap[p]

(* Subnets of ip_map that overlap go to whichever the hash map yields      *)
(* first; the ones considered do not.                                      *)
ASSUME SubnetsApart == \A k, l \in DOMAIN IpMap : k # l => IpMap[k] \cap IpMap[l] = {}

(* shuffle_ips: any order of the pool.                                     *)
IpManagerNew == [p \in Pools |-> {[available |-> s, allocated |-> {}] : s \in SetToSeqs(split_subnet(p))}]

PoolOf(c) == IF setup.local[c] \in DOMAIN IpMap THEN setup.local[c] ELSE "default"

(* IpManager::free with free_ip, which refuses an IP not allocated in the  *)
(* pool of the address the client connected to.                            *)
free(c) ==
  LET ip == client[c].internal_ip  p == PoolOf(c) IN
  IF ip = NoIp THEN UNCHANGED <<ip_pools, ip_owner>>
  ELSE /\ ip_pools' = IF ip \in ip_pools[p].allocated
                      THEN [ip_pools EXCEPT ![p].available = Append(@, ip),
                                            ![p].allocated = @ \ {ip}]
                      ELSE ip_pools
       /\ ip_owner' = [ip_owner EXCEPT ![ip] = NoInConn]

-----------------------------------------------------------------------------
(* Connections.                                                            *)

Configs == [gso : BOOLEAN, batch : BOOLEAN, datagram : BOOLEAN, local : Locals]

(* server(): both options are refused, and a stream server has no queue.   *)
LoopKind(o) == IF o.gso THEN "gso" ELSE IF o.batch /\ o.datagram THEN "batched" ELSE "default"
Startable(o) == ~(o.gso /\ o.batch)

InsideInit ==
  /\ setup \in {o \in Configs : Startable(o)}
  /\ \E f \in [Pools -> UNION {IpManagerNew[p] : p \in Pools}] :
       (\A p \in Pools : f[p] \in IpManagerNew[p]) /\ ip_pools = f
  /\ ip_owner = [ip \in PoolNet |-> NoInConn]
  /\ client = [c \in InConns |-> [state |-> "LinkUp", internal_ip |-> NoIp]]
  /\ inside = [pc |-> "recv", pkts |-> <<>>, conn |-> NoInConn]
  /\ window = FALSE /\ send_queue = <<>> /\ msgs = <<>>
  /\ accepted = 0 /\ socket = <<>> /\ dropped = {}

(* Any task of the connection sends; d is its datagram.  UdpSocket::send:  *)
(* into the window when one is open, else to the socket, which may refuse. *)
Datum(c, dst) == [id |-> accepted + 1, conn |-> c, dst |-> dst,
                  owned |-> dst = NoIp \/ (client[c].internal_ip = dst /\ client[c].state = "Online")]

SendDirect(d, taken) ==
  /\ socket' = IF taken THEN Append(socket, d) ELSE socket
  /\ dropped' = IF taken THEN dropped ELSE dropped \cup {d.id}
  /\ UNCHANGED send_queue

UdpSend(d, taken) ==
  /\ accepted' = accepted + 1
  /\ IF window
     THEN taken /\ send_queue' = Append(send_queue, d) /\ UNCHANGED <<socket, dropped>>
     ELSE SendDirect(d, taken)

(* send_gso goes to the socket, window or not.                             *)
UdpSendGso(d, taken) == accepted' = accepted + 1 /\ SendDirect(d, taken)

(* handle_auth_request: the IP is taken before the credentials are looked  *)
(* at; a repeated request finds the IP of the first.  A client that is     *)
(* denied, or for whom there is no IP, is disconnected by                  *)
(* send_auth_failure under the same lock of the connection (Disconnect,    *)
(* from "Refused"); the IP manager's lock is released in between, so other *)
(* tasks may see the denied client's IP taken, and look it up.  Whoever    *)
(* then wants the connection finds it as little Online as after it.        *)
Authenticate(c, granted) ==
  LET p == PoolOf(c)  has == client[c].internal_ip # NoIp  pool == ip_pools[p] IN
  /\ client[c].state \in {"LinkUp", "Online"}
  /\ IF has \/ pool.available = <<>> THEN UNCHANGED <<ip_pools, ip_owner>>
     ELSE /\ ip_pools' = [ip_pools EXCEPT ![p].available = Tail(@),
                                          ![p].allocated = @ \cup {Head(pool.available)}]
          /\ ip_owner' = [ip_owner EXCEPT ![Head(pool.available)] = c]
  /\ IF ~has /\ pool.available = <<>>
     THEN ~granted /\ client' = [client EXCEPT ![c].state = "Refused"]
     ELSE client' = [client EXCEPT
            ![c] = [state |-> IF granted THEN "Online" ELSE "Refused",
                    internal_ip |-> IF has THEN @.internal_ip ELSE Head(pool.available)]]
  /\ UNCHANGED <<setup, inside, window, send_queue, msgs, accepted, socket, dropped>>

(* disconnect: the state, the IP and the goodbye under one lock.           *)
Disconnect(c, taken) ==
  /\ client[c].state # "Disconnected"
  /\ client' = [client EXCEPT ![c] = [state |-> "Disconnected", internal_ip |-> NoIp]]
  /\ free(c)
  /\ IF setup.datagram /\ accepted < MaxDatagrams THEN UdpSend(Datum(c, NoIp), taken)
     ELSE taken /\ UNCHANGED <<send_queue, accepted, socket, dropped>>
  /\ UNCHANGED <<setup, inside, window, msgs>>

(* A connection coming after the old one at the same client: a new one.    *)
Reconnect(c) ==
  /\ client[c].state = "Disconnected" /\ inside.conn # c
  /\ client' = [client EXCEPT ![c].state = "LinkUp"]
  /\ UNCHANGED <<setup, ip_pools, ip_owner, inside, window, send_queue, msgs, accepted, socket, dropped>>

(* A tick, a reply, a key update: sent by another task than the loop's.    *)
OtherTaskSends(c, taken) ==
  /\ client[c].state = "Online" /\ setup.datagram /\ accepted < MaxDatagrams
  /\ UdpSend(Datum(c, NoIp), taken)
  /\ UNCHANGED <<setup, ip_pools, ip_owner, client, inside, window, msgs>>

-----------------------------------------------------------------------------
(* The loops: inside_io_loop_default, _batched and _gso.                   *)

Batched == LoopKind(setup) = "batched"

(* recv_buf, recv_buf_many or recv_gso; the batched loop opens its window. *)
Receive(pkts) ==
  /\ inside.pc = "recv" /\ accepted < MaxDatagrams
  /\ Len(pkts) = 1 \/ Batched
  /\ inside' = [pc |-> "lookup", pkts |-> pkts, conn |-> NoInConn]
  /\ window' = Batched /\ send_queue' = <<>>
  /\ UNCHANGED <<setup, ip_pools, ip_owner, client, msgs, accepted, socket, dropped>>

Advance == [pc |-> IF Len(inside.pkts) > 1 THEN "lookup" ELSE IF Batched THEN "flush" ELSE "recv",
            pkts |-> Tail(inside.pkts), conn |-> NoInConn]

(* find_connection; a packet without a connection, or no packet at all, is *)
(* passed over.                                                            *)
Lookup ==
  LET dst == Head(inside.pkts) IN
  /\ inside.pc = "lookup"
  /\ inside' = IF dst # NoIp /\ ip_owner[dst] # NoInConn
               THEN [inside EXCEPT !.pc = "forward", !.conn = ip_owner[dst]]
               ELSE Advance
  /\ UNCHANGED <<setup, ip_pools, ip_owner, client, window, send_queue, msgs, accepted, socket, dropped>>

(* Forwarding without asking the connection for its state.                 *)
ForwardAnyState(taken, gso_packet) ==
  /\ inside.pc = "forward" /\ accepted < MaxDatagrams
  /\ gso_packet => LoopKind(setup) = "gso"
  /\ IF gso_packet THEN UdpSendGso(Datum(inside.conn, Head(inside.pkts)), taken)
     ELSE UdpSend(Datum(inside.conn, Head(inside.pkts)), taken)
  /\ inside' = Advance
  /\ UNCHANGED <<setup, ip_pools, ip_owner, client, window, msgs>>

(* inside_data_received(_gso): only an online connection sends; an error   *)
(* of another kind may be fatal, and disconnects it (Disconnect).          *)
Forward(taken, gso_packet) ==
  LET c == inside.conn IN
  /\ inside.pc = "forward"
  /\ gso_packet => LoopKind(setup) = "gso"
  /\ IF client[c].state = "Online"
     THEN /\ accepted < MaxDatagrams
          /\ IF gso_packet THEN UdpSendGso(Datum(c, Head(inside.pkts)), taken)
             ELSE UdpSend(Datum(c, Head(inside.pkts)), taken)
     ELSE taken /\ UNCHANGED <<send_queue, accepted, socket, dropped>>
  /\ inside' = Advance
  /\ UNCHANGED <<setup, ip_pools, ip_owner, client, window, msgs>>

(* No datagram may be numbered any more: the packet is left behind.        *)
ForwardNone ==
  /\ inside.pc = "forward" /\ accepted = MaxDatagrams
  /\ inside' = Advance
  /\ UNCHANGED <<setup, ip_pools, ip_owner, client, window, send_queue, msgs, accepted, socket, dropped>>

(* SendBatchGuard::flush closes the window and takes its queue.            *)
TakeQueue ==
  /\ inside.pc = "flush"
  /\ msgs' = send_queue /\ send_queue' = <<>> /\ window' = FALSE
  /\ inside' = [inside EXCEPT !.pc = IF send_queue = <<>> THEN "recv" ELSE "flushing"]
  /\ UNCHANGED <<setup, ip_pools, ip_owner, client, accepted, socket, dropped>>

FlushEnd(rest) == inside' = [inside EXCEPT !.pc = IF rest = <<>> THEN "recv" ELSE "flushing"]

(* After a partial send, the whole batch again.                            *)
ResendsBatch(n) ==
  /\ inside.pc = "flushing"
  /\ socket' = socket \o SubSeq(msgs, 1, n)
  /\ msgs' = IF n = Len(msgs) THEN <<>> ELSE msgs
  /\ FlushEnd(msgs')
  /\ UNCHANGED <<setup, ip_pools, ip_owner, client, window, send_queue, accepted, dropped>>

(* A loop that ends one message early.                                     *)
LeavesLast(n) ==
  /\ inside.pc = "flushing" /\ n < Len(msgs)
  /\ socket' = socket \o SubSeq(msgs, 1, n)
  /\ msgs' = SubSeq(msgs, n + 1, Len(msgs))
  /\ FlushEnd(msgs')
  /\ UNCHANGED <<setup, ip_pools, ip_owner, client, window, send_queue, accepted, dropped>>

(* flush_retrying: sendmmsg takes the first n; the rest is tried again when*)
(* the socket is writable.                                                 *)
FlushSome(n) ==
  /\ inside.pc = "flushing"
  /\ socket' = socket \o SubSeq(msgs, 1, n)
  /\ msgs' = SubSeq(msgs, n + 1, Len(msgs))
  /\ FlushEnd(msgs')
  /\ UNCHANGED <<setup, ip_pools, ip_owner, client, window, send_queue, accepted, dropped>>

(* A hard error is of the first message, which alone is dropped.           *)
FlushError ==
  /\ inside.pc = "flushing"
  /\ dropped' = dropped \cup {Head(msgs).id}
  /\ msgs' = Tail(msgs)
  /\ FlushEnd(msgs')
  /\ UNCHANGED <<setup, ip_pools, ip_owner, client, window, send_queue, accepted, socket>>

(* Drop of the guard: a panic unwinds the window, flush_best_effort tries  *)
(* once, and the loop is over.                                             *)
Unwind(n) ==
  /\ Batched /\ inside.pc \in {"lookup", "forward"} /\ n <= Len(send_queue)
  /\ socket' = socket \o SubSeq(send_queue, 1, n)
  /\ dropped' = dropped \cup {send_queue[i].id : i \in n + 1 .. Len(send_queue)}
  /\ send_queue' = <<>> /\ window' = FALSE
  /\ inside' = [pc |-> "ended", pkts |-> <<>>, conn |-> NoInConn]
  /\ UNCHANGED <<setup, ip_pools, ip_owner, client, msgs, accepted>>

InsideNext ==
  \/ \E c \in InConns, granted \in BOOLEAN : Authenticate(c, granted)
  \/ \E c \in InConns, taken \in BOOLEAN : Disconnect(c, taken) \/ OtherTaskSends(c, taken)
  \/ \E c \in InConns : Reconnect(c)
  \/ \E pkts \in UNION {[1..n -> InsidePackets] : n \in 1..MaxBatch} : Receive(pkts)
  \/ Lookup \/ ForwardNone \/ TakeQueue \/ FlushError
  \/ \E taken, gso_packet \in BOOLEAN : Forward(taken, gso_packet)
  \/ \E n \in 1..Len(msgs) : FlushSome(n)
  \/ \E n \in 0..MaxDatagrams : Unwind(n)

InsideSpec == InsideInit /\ [][InsideNext]_insideVars

-----------------------------------------------------------------------------
Ids(s) == {s[i].id : i \in DOMAIN s}

InsideTypeOK ==
  /\ ip_owner \in [PoolNet -> InConns \cup {NoInConn}]
  /\ client \in [InConns -> [state : {"LinkUp", "Online", "Refused", "Disconnected"},
                             internal_ip : PoolNet \cup {NoIp}]]
  /\ inside.pc \in {"recv", "lookup", "forward", "flush", "flushing", "ended"}
  /\ Range(socket) \cup Range(send_queue) \cup Range(msgs) \subseteq Datagram
  /\ window => Batched /\ inside.pc \in {"lookup", "forward", "flush"}

(* An inside IP is in one place: waiting in the pool it was split into, or *)
(* held by the one connection the IP manager would forward its packets to. *)
(* No reserved IP, network or broadcast address is ever in a pool.         *)
PoolsConserved ==
  \A p \in Pools :
    LET available == ip_pools[p].available  allocated == ip_pools[p].allocated IN
    /\ Range(available) \cup allocated = split_subnet(p)
    /\ Range(available) \cap allocated = {}
    /\ Len(available) = Cardinality(Range(available))
    /\ \A ip \in allocated : /\ ip_owner[ip] # NoInConn
                             /\ PoolOf(ip_owner[ip]) = p
                             /\ client[ip_owner[ip]].internal_ip = ip

(* A packet from the TUN device is sealed only for the connection that     *)
(* holds its destination at that moment, authenticated: the connection     *)
(* looked up may have been disconnected, and its IP given to another.      *)
InsideIsolation == \A d \in Range(socket) \cup Range(send_queue) \cup Range(msgs) : d.owned

(* Every datagram the callers were told is sent is in one place: queued,   *)
(* being flushed, taken by the socket once, or counted as dropped.         *)
OnceEach ==
  /\ Ids(socket) \cup Ids(send_queue) \cup Ids(msgs) \cup dropped = 1..accepted
  /\ Len(socket) + Len(send_queue) + Len(msgs) + Cardinality(dropped) = accepted

(* The socket takes the datagrams of a window in the order they were sent: *)
(* an earlier one still to be flushed is never overtaken from the window.  *)
WindowOrder ==
  /\ \A i, j \in DOMAIN msgs : i < j => msgs[i].id < msgs[j].id
  /\ \A d \in Range(send_queue) : \A e \in Range(socket) \cup Range(msgs) : e.id < d.id

(* Nothing is stranded in the queue: what is queued is sent or dropped.    *)
QueueDrains ==
  \A i \in 1..MaxDatagrams : i \in Ids(send_queue) ~> i \in Ids(socket) \cup dropped

(* Between the TUN and the socket no packet reaches a client it is not     *)
(* for, no inside IP is lost or held twice, and no datagram is lost,       *)
(* repeated or overtaken within its window, whatever clients come and go   *)
(* and whatever else sends meanwhile (inside_io_task, ip_manager.rs,       *)
(* send_queue.rs).                                                         *)
InsideSafe ==
  /\ InsideTypeOK
  /\ PoolsConserved
  /\ InsideIsolation
  /\ OnceEach
  /\ WindowOrder
=============================================================================
