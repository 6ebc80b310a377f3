------------------------------ MODULE UdpReceive ------------------------------
(***************************************************************************)
(* Receiving datagrams, one at a time or in batches, on the server         *)
(* (run_single, run_batch) and on the client (outside_io_task).  The slots *)
(* of a batch are reused: the kernel writes a datagram behind what a slot  *)
(* already holds, into the room that is left.  A datagram is its number and*)
(* its size; a slot's buffer is the sequence of units written, each marked *)
(* with the datagram it is of, and address and control data are marked the *)
(* same way (0 is zeroed storage).                                         *)
(***************************************************************************)
EXTENDS Naturals, FiniteSets, SequencesExt

CONSTANTS
  RxSizes,      \* sizes of datagrams, in units
  RxCapacity,   \* MAX_OUTSIDE_MTU on the server, the configured mtu on the client
  RxBatch,      \* MAX_IO_BATCH_SIZE
  MaxArrivals   \* bound: datagrams sent to the socket

ASSUME RxBounds == RxSizes \subseteq Nat /\ RxCapacity \in Nat /\ RxBatch \in Nat

VARIABLES
  rx_role,      \* whose socket, how it reads, how it is bound
  kernel,       \* the socket's receive queue
  slots,        \* the receive buffers
  rx,           \* the loop: where it is, the slots filled, their metadata, the next to handle
  arrived,      \* sizes of the datagrams that arrived
  handled       \* what data_received was called with, in order, and whether it was counted as cut

rxVars == <<rx_role, kernel, slots, rx, arrived, handled>>

(* needs_pktinfo: a server on the unspecified address learns the local     *)
(* address of each datagram from its control data.  `flags`: the receive   *)
(* call says which datagrams it cut, and the cut ones are counted: recvmsg *)
(* does (run_single), recvmmsg does, recvmsg_x never does and the client's *)
(* single try_recv_buf cannot.                                             *)
Roles == [server : BOOLEAN, batch : BOOLEAN, pktinfo : BOOLEAN, flags : BOOLEAN]
NewSlot == [buf |-> <<>>, addr |-> 0, control |-> 0, truncated |-> FALSE]
SlotCount == IF rx_role.batch THEN RxBatch ELSE 1

RxInit ==
  /\ rx_role \in {r \in Roles : (r.pktinfo => r.server) /\ (~r.batch => r.flags = r.server)}
  /\ kernel = <<>> /\ arrived = <<>> /\ handled = <<>>
  /\ slots = [i \in 1..RxBatch |-> NewSlot]
  /\ rx = [pc |-> "recv", meta |-> <<>>, next |-> 1]

Arrive(size) ==
  /\ Len(arrived) < MaxArrivals
  /\ arrived' = Append(arrived, size)
  /\ kernel' = Append(kernel, Len(arrived) + 1)
  /\ UNCHANGED <<rx_role, slots, rx, handled>>

MinNat(a, b) == IF a < b THEN a ELSE b

(* recvmmsg, recvmsg_x or recvmsg into one slot: the payload up to the     *)
(* room left, source address, control data and, where the call reports it, *)
(* MSG_TRUNC.                                                              *)
Fill(slot, d) ==
  LET room == RxCapacity - Len(slot.buf)  size == arrived[d] IN
  [buf |-> slot.buf \o [i \in 1..MinNat(size, room) |-> d],
   addr |-> d, control |-> d, truncated |-> rx_role.flags /\ size > room]

(* take_peer_addr and find_pktinfo_from_iter.                              *)
Metadata(slot) == [peer |-> slot.addr, local |-> IF rx_role.pktinfo THEN slot.control ELSE 0]

(* One receive call.  A slot without a usable address or IP_PKTINFO        *)
(* (slot `bad` of a server) makes read_multiple_from_socket fail, which    *)
(* ends the loop and the server.                                           *)
ReceiveBatch(n, bad) ==
  LET filled == [i \in 1..n |-> Fill(slots[i], kernel[i])] IN
  /\ rx.pc = "recv" /\ n <= SlotCount /\ n <= Len(kernel)
  /\ bad = 0 \/ (rx_role.server /\ bad <= n)
  /\ kernel' = SubSeq(kernel, n + 1, Len(kernel))
  /\ slots' = [i \in DOMAIN slots |->
                 IF i > n THEN slots[i]
                 ELSE IF rx_role.server /\ (bad = 0 \/ i <= bad) THEN [filled[i] EXCEPT !.addr = 0]
                 ELSE filled[i]]
  /\ rx' = [pc |-> IF bad = 0 THEN "handle" ELSE "ended",
            meta |-> IF bad = 0 THEN [i \in 1..n |-> Metadata(filled[i])] ELSE <<>>, next |-> 1]
  /\ UNCHANGED <<rx_role, arrived, handled>>

(* Any other error of the call.  (WouldBlock waits; on the client EINTR is *)
(* retried and the ICMP errors of a connected socket count as WouldBlock.) *)
ReceiveFails ==
  /\ rx.pc = "recv"
  /\ rx' = [rx EXCEPT !.pc = "ended"]
  /\ UNCHANGED <<rx_role, kernel, slots, arrived, handled>>

(* A reset that leaves the buffer alone.                                   *)
ResetMetadataOnly(slot) == [slot EXCEPT !.control = 0, !.truncated = FALSE]

(* BatchRecvSlot::reset; the client clears the buffer and reserves mtu.    *)
reset(slot) == [slot EXCEPT !.buf = <<>>, !.control = 0, !.truncated = FALSE]

(* data_received gets the bytes and the addresses, never the flag: a cut   *)
(* datagram was counted at most (udp_recv_truncated, a warning on the      *)
(* client) and goes on as if it were whole.  `truncated` records that.     *)
(* The server handles a slot and resets it; the client hands all slots of  *)
(* the batch to the connection, stopping at a fatal error, and then resets *)
(* them all.                                                               *)
Handle(fatal) ==
  LET n == Len(rx.meta) IN
  /\ rx.pc = "handle" /\ (fatal => ~rx_role.server)
  /\ handled' = Append(handled, [data |-> slots[rx.next].buf, truncated |-> slots[rx.next].truncated,
                                 meta |-> rx.meta[rx.next]])
  /\ slots' = IF rx_role.server THEN [slots EXCEPT ![rx.next] = reset(@)]
              ELSE IF rx.next = n /\ ~fatal
              THEN [i \in DOMAIN slots |-> IF i <= n THEN reset(slots[i]) ELSE slots[i]]
              ELSE slots
  /\ rx' = IF fatal THEN [rx EXCEPT !.pc = "ended"]
           ELSE IF rx.next < n THEN [rx EXCEPT !.next = @ + 1]
           ELSE [pc |-> "recv", meta |-> <<>>, next |-> 1]
  /\ UNCHANGED <<rx_role, kernel, arrived>>

RxNext == \/ \E size \in RxSizes : Arrive(size)
          \/ \E n \in 1..RxBatch, bad \in 0..RxBatch : ReceiveBatch(n, bad)
          \/ ReceiveFails
          \/ \E fatal \in BOOLEAN : Handle(fatal)

RxSpec == RxInit /\ [][RxNext]_rxVars
-----------------------------------------------------------------------------
RxTypeOK ==
  /\ rx_role \in Roles /\ rx.pc \in {"recv", "handle", "ended"}
  /\ Range(kernel) \subseteq DOMAIN arrived /\ Range(arrived) \subseteq RxSizes
  /\ \A i \in DOMAIN slots : Len(slots[i].buf) <= RxCapacity

(* Datagrams are handled in the order they arrived, each once: none is     *)
(* left behind in a slot and none is handled again.                        *)
HandledInOrder ==
  /\ \A i \in DOMAIN handled : handled[i].meta.peer = i
  /\ rx.pc = "recv" => [i \in DOMAIN handled |-> i] \o kernel = [i \in DOMAIN arrived |-> i]

(* What is handled is the datagram itself, from its first unit to the last *)
(* that fits, under its own addresses: nothing of a slot's previous use    *)
(* remains.  A cut one, and no other, was counted as cut where the receive *)
(* call reports it; elsewhere nobody learns that it was cut.               *)
HandledIntact ==
  \A i \in DOMAIN handled :
    LET h == handled[i] IN
    /\ h.data = [u \in 1..MinNat(arrived[i], RxCapacity) |-> i]
    /\ h.truncated = (rx_role.flags /\ arrived[i] > RxCapacity)
    /\ rx_role.pktinfo => h.meta.local = i

(* Each datagram is handled once, in order, with its own bytes as far as   *)
(* they fit and its own addresses, in whatever batches it arrives and      *)
(* whatever its slot held before (run_single, run_batch, batch_receive.rs).*)
ReceiveExact ==
  /\ RxTypeOK
  /\ HandledInOrder
  /\ HandledIntact
=============================================================================
