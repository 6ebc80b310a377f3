-------------------------------- MODULE Uring --------------------------------
(***************************************************************************)
(* The io_uring backend of the TUN device: one task turns a loop that      *)
(* submits reads and writes, waits for an event, refills the ring and      *)
(* handles completions; the kernel performs the entries in any order; the  *)
(* application sends and receives through two channels.  Half of the ring  *)
(* is for writes and half for reads, each entry owning a slot.             *)
(***************************************************************************)
EXTENDS Integers, SequencesExt

CONSTANTS RingSize,        \* entries of the ring, and of each channel
          Polls,           \* does the kernel poll the submission queue (sqpoll_idle_time > 0)
          MaxTunPackets,   \* bound on the packets the host sends into the TUN
          MaxSends,        \* bound on the packets the application sends
          MaxRingErrors    \* bound on the reads and writes that fail

ASSUME UringBounds == RingSize \in Nat /\ Polls \subseteq BOOLEAN

VARIABLES
  sqpoll,       \* does the kernel take entries by itself
  step,         \* where the task is in its loop
  sq, performing, cq,  \* user_data of the entries submitted, those the kernel performs; completions
  synced,       \* completions visible since the last cq.sync
  tx_slots, rx_slots,  \* free slots
  tx_bufs,      \* the buffer each write slot owns
  senders,      \* read slots that hold a permit of rx_queue
  tx_queue, rx_queue,  \* the channels
  event_fd,     \* completions signalled since the last read
  tun_in,       \* packets waiting in the TUN
  written, failed, pulled,  \* packets the kernel wrote, failed to write, read
  got,          \* packets the application received
  usent, tunned, errors    \* bounds

uringVars == <<sqpoll, step, sq, performing, cq, synced, tx_slots, rx_slots, tx_bufs, senders, tx_queue,
               rx_queue, event_fd, tun_in, written, failed, pulled, got, usent, tunned, errors>>
ringState == <<sq, performing, cq, synced>>
slotState == <<tx_slots, rx_slots, tx_bufs, senders>>
hostState == <<sqpoll, tun_in, written, failed, pulled, tunned, errors>>
appState  == <<got, usent>>

(* "Using half of total io-uring size for rx and half for tx".             *)
nr_tx_rx_slots == RingSize \div 2

Indexes == 0..(nr_tx_rx_slots - 1)
user_data(rx, idx) == IF rx THEN -idx - 1 ELSE idx
IsRx(u) == u < 0
idx_of(u) == IF IsRx(u) THEN -u - 1 ELSE u
Nothing == 0                     \* packets are positive

SqFull == Len(sq) >= RingSize

UringInit ==
  /\ sqpoll \in Polls /\ step = "submit"
  /\ sq = [i \in 1..nr_tx_rx_slots |-> user_data(TRUE, i - 1)]
  /\ performing = {} /\ cq = <<>> /\ synced = 0
  /\ tx_slots = [i \in 1..nr_tx_rx_slots |-> i - 1] /\ rx_slots = <<>>
  /\ tx_bufs = [i \in Indexes |-> Nothing] /\ senders = Indexes
  /\ tx_queue = <<>> /\ rx_queue = <<>> /\ event_fd = FALSE
  /\ tun_in = <<>> /\ written = <<>> /\ failed = {} /\ pulled = <<>>
  /\ got = <<>> /\ usent = 0 /\ tunned = 0 /\ errors = 0

-----------------------------------------------------------------------------
(* The application, the host and the kernel.                               *)

try_send ==
  /\ usent < MaxSends /\ Len(tx_queue) < RingSize
  /\ usent' = usent + 1 /\ tx_queue' = Append(tx_queue, usent + 1)
  /\ UNCHANGED <<step, ringState, slotState, hostState, rx_queue, event_fd, got>>

recv ==
  /\ rx_queue # <<>>
  /\ got' = Append(got, Head(rx_queue)) /\ rx_queue' = Tail(rx_queue)
  /\ UNCHANGED <<step, ringState, slotState, hostState, tx_queue, event_fd, usent>>

HostSends ==
  /\ tunned < MaxTunPackets
  /\ tunned' = tunned + 1 /\ tun_in' = Append(tun_in, tunned + 1)
  /\ UNCHANGED <<sqpoll, step, ringState, slotState, tx_queue, rx_queue, event_fd, written, failed, pulled, appState, errors>>

KernelTakes ==
  /\ sqpoll /\ sq # <<>>
  /\ performing' = performing \cup {Head(sq)} /\ sq' = Tail(sq)
  /\ UNCHANGED <<step, cq, synced, slotState, hostState, tx_queue, rx_queue, event_fd, appState>>

Completes(u, packet) ==
  /\ u \in performing /\ performing' = performing \ {u}
  /\ cq' = Append(cq, [user_data |-> u, packet |-> packet]) /\ event_fd' = TRUE
  /\ UNCHANGED <<sqpoll, step, sq, synced, slotState, tx_queue, rx_queue, tunned, appState>>

KernelWrites(u, ok) ==
  /\ ~IsRx(u) /\ Completes(u, Nothing)
  /\ IF ok THEN written' = Append(written, tx_bufs[idx_of(u)]) /\ UNCHANGED <<failed, errors>>
     ELSE /\ errors < MaxRingErrors /\ errors' = errors + 1
          /\ failed' = failed \cup {tx_bufs[idx_of(u)]} /\ UNCHANGED written
  /\ UNCHANGED <<tun_in, pulled>>

KernelReads(u) ==
  /\ IsRx(u) /\ tun_in # <<>> /\ Completes(u, Head(tun_in))
  /\ tun_in' = Tail(tun_in) /\ pulled' = Append(pulled, Head(tun_in))
  /\ UNCHANGED <<written, failed, errors>>

ReadEndsEmpty(u) ==
  /\ IsRx(u) /\ errors < MaxRingErrors /\ errors' = errors + 1 /\ Completes(u, Nothing)
  /\ UNCHANGED <<tun_in, pulled, written, failed>>

-----------------------------------------------------------------------------
(* The task.                                                               *)

(* Entries are left to the polling kernel, and without one to nobody.      *)
SubmitsForPollerOnly ==
  /\ step = "submit" /\ step' = "check"
  /\ UNCHANGED <<ringState, slotState, hostState, tx_queue, rx_queue, event_fd, appState>>

Submit ==
  /\ step = "submit" /\ step' = "check"
  /\ IF sqpoll THEN UNCHANGED <<sq, performing>>
     ELSE performing' = performing \cup ToSet(sq) /\ sq' = <<>>
  /\ UNCHANGED <<cq, synced, slotState, hostState, tx_queue, rx_queue, event_fd, appState>>

CheckEmpty ==
  /\ step = "check" /\ synced' = Len(cq)
  /\ step' = IF cq = <<>> /\ tx_queue = <<>> THEN "wait" ELSE "push_tx"
  /\ UNCHANGED <<sq, performing, cq, slotState, hostState, tx_queue, rx_queue, event_fd, appState>>

(* A full queue is submitted first, which empties it unless the kernel     *)
(* polls it.  A buffer is received before its entry is pushed: were the    *)
(* queue still full, the buffer would be dropped.                          *)
Pending == IF SqFull /\ ~sqpoll THEN <<>> ELSE sq
SubmitFull == performing' = IF SqFull /\ ~sqpoll THEN performing \cup ToSet(sq) ELSE performing

push_one_tx_event_to ==
  /\ tx_queue' = Tail(tx_queue)
  /\ IF Len(Pending) >= RingSize THEN UNCHANGED <<sq, tx_slots, tx_bufs>>
     ELSE /\ tx_slots' = Front(tx_slots) /\ sq' = Append(Pending, user_data(FALSE, Last(tx_slots)))
          /\ tx_bufs' = [tx_bufs EXCEPT ![Last(tx_slots)] = Head(tx_queue)]

WaitForTx ==
  /\ step = "wait" /\ tx_queue # <<>> /\ tx_slots # <<>> /\ ~SqFull
  /\ push_one_tx_event_to /\ step' = "sync"
  /\ UNCHANGED <<performing, cq, synced, rx_slots, senders, hostState, rx_queue, event_fd, appState>>

WaitForEvent ==
  /\ step = "wait" /\ event_fd /\ event_fd' = FALSE /\ step' = "sync"
  /\ UNCHANGED <<ringState, slotState, hostState, tx_queue, rx_queue, appState>>

SyncAfterWait ==
  /\ step = "sync" /\ synced' = Len(cq) /\ step' = "push_tx"
  /\ UNCHANGED <<sq, performing, cq, slotState, hostState, tx_queue, rx_queue, event_fd, appState>>

push_tx_events_to ==
  /\ step = "push_tx"
  /\ IF tx_slots # <<>> /\ tx_queue # <<>>
     THEN push_one_tx_event_to /\ SubmitFull /\ step' = IF Len(Pending) >= RingSize THEN "push_rx" ELSE step
     ELSE step' = "push_rx" /\ UNCHANGED <<sq, performing, tx_slots, tx_bufs, tx_queue>>
  /\ UNCHANGED <<cq, synced, rx_slots, senders, hostState, rx_queue, event_fd, appState>>

push_rx_events_to ==
  /\ step = "push_rx"
  /\ IF rx_slots # <<>> /\ Len(Pending) < RingSize
     THEN /\ sq' = Append(Pending, user_data(TRUE, Last(rx_slots))) /\ SubmitFull
          /\ rx_slots' = Front(rx_slots) /\ UNCHANGED step
     ELSE step' = "complete" /\ UNCHANGED <<sq, performing, rx_slots>>
  /\ UNCHANGED <<cq, synced, tx_slots, tx_bufs, senders, hostState, tx_queue, rx_queue, event_fd, appState>>

Done(u) == cq # <<>> /\ synced > 0 /\ step = "complete" /\ Head(cq).user_data = u

(* A write slot that is not given back when the write failed.              *)
KeepsFailedSlot(i) ==
  /\ tx_bufs' = [tx_bufs EXCEPT ![i] = Nothing]
  /\ tx_slots' = IF tx_bufs[i] \in failed THEN tx_slots ELSE Append(tx_slots, i)

FreeTxSlot(i) ==
  /\ tx_bufs' = [tx_bufs EXCEPT ![i] = Nothing]
  /\ tx_slots' = Append(tx_slots, i)

CompleteTx(i) ==
  /\ Done(user_data(FALSE, i)) /\ FreeTxSlot(i)
  /\ cq' = Tail(cq) /\ synced' = synced - 1
  /\ UNCHANGED <<step, sq, performing, rx_slots, senders, hostState, tx_queue, rx_queue, event_fd, appState>>

CompleteEmptyRx(i) ==
  /\ Done(user_data(TRUE, i)) /\ Head(cq).packet = Nothing
  /\ cq' = Tail(cq) /\ synced' = synced - 1 /\ rx_slots' = Append(rx_slots, i)
  /\ UNCHANGED <<step, sq, performing, tx_slots, tx_bufs, senders, hostState, tx_queue, rx_queue, event_fd, appState>>

(* A packet is offered to the channel instead of sent with a permit.       *)
OffersPacket(i, packet) ==
  /\ rx_queue' = IF Len(rx_queue) + Cardinality(senders) >= RingSize THEN rx_queue ELSE Append(rx_queue, packet)
  /\ rx_slots' = Append(rx_slots, i) /\ UNCHANGED <<senders, step>>

(* sender.send, and the await for the next permit, which holds the loop.   *)
SendAndReserve(i, packet) ==
  /\ rx_queue' = Append(rx_queue, packet)
  /\ senders' = senders \ {i} /\ step' = "reserve" /\ UNCHANGED rx_slots

CompleteRx(i) ==
  /\ Done(user_data(TRUE, i)) /\ Head(cq).packet # Nothing
  /\ SendAndReserve(i, Head(cq).packet)
  /\ cq' = Tail(cq) /\ synced' = synced - 1
  /\ UNCHANGED <<sq, performing, tx_slots, tx_bufs, hostState, tx_queue, event_fd, appState>>

Reserve(i) ==
  /\ step = "reserve" /\ i \notin senders /\ Len(rx_queue) + Cardinality(senders) < RingSize
  /\ senders' = senders \cup {i} /\ rx_slots' = Append(rx_slots, i) /\ step' = "complete"
  /\ UNCHANGED <<ringState, tx_slots, tx_bufs, hostState, tx_queue, rx_queue, event_fd, appState>>

TurnEnds ==
  /\ step = "complete" /\ synced = 0 /\ step' = "submit"
  /\ UNCHANGED <<ringState, slotState, hostState, tx_queue, rx_queue, event_fd, appState>>

Entries == {user_data(FALSE, i) : i \in Indexes} \cup {user_data(TRUE, i) : i \in Indexes}

UringTask ==
  \/ Submit \/ CheckEmpty \/ WaitForTx \/ WaitForEvent \/ SyncAfterWait
  \/ push_tx_events_to \/ push_rx_events_to
  \/ \E i \in Indexes : CompleteTx(i) \/ CompleteEmptyRx(i) \/ CompleteRx(i) \/ Reserve(i)
  \/ TurnEnds

UringKernel == KernelTakes \/ (\E u \in performing : KernelWrites(u, TRUE) \/ KernelReads(u))

UringNext ==
  \/ try_send \/ recv \/ HostSends \/ UringTask \/ UringKernel
  \/ \E u \in Entries : KernelWrites(u, FALSE) \/ ReadEndsEmpty(u)

(* The task runs, the kernel performs entries, the application receives.   *)
UringFairness == WF_uringVars(UringTask) /\ WF_uringVars(UringKernel) /\ WF_uringVars(recv)

UringSpec == UringInit /\ [][UringNext]_uringVars /\ UringFairness

-----------------------------------------------------------------------------
Count(s, x) == Cardinality({i \in DOMAIN s : s[i] = x})
InRing(u) == Count(sq, u) + (IF u \in performing THEN 1 ELSE 0) + Cardinality({i \in DOMAIN cq : cq[i].user_data = u})

(* What the SAFETY comments rely on: a slot is either free or in the ring  *)
(* once, so that its buffer is never handed out twice; a write in the ring *)
(* owns a buffer and a read in the ring a permit.                          *)
SlotsOwned ==
  /\ \A i \in Indexes : Count(tx_slots, i) + InRing(user_data(FALSE, i)) = 1
  /\ \A i \in Indexes : Count(rx_slots, i) + InRing(user_data(TRUE, i)) = IF i \in senders THEN 1 ELSE 0
  /\ \A i \in Indexes : (Count(tx_slots, i) = 0) <=> tx_bufs[i] # Nothing

(* Every packet the application could send is written once, or on its way, *)
(* or failed by the kernel; none is dropped between channel and ring.      *)
SendsAccounted ==
  \A p \in 1..usent :
    Count(tx_queue, p) + Count(written, p) + (IF p \in failed THEN 1 ELSE 0)
    + Cardinality({i \in Indexes : tx_bufs[i] = p /\ (Count(sq, i) > 0 \/ i \in performing)}) = 1

(* Every packet taken out of the TUN reaches the application, in the order *)
(* the host sent them, however long the application leaves the channel     *)
(* full: those it has and may have come first, then the completed ones.    *)
ReadsAccounted ==
  LET taken == got \o rx_queue
      read  == {i \in DOMAIN cq : cq[i].packet # Nothing}
  IN /\ \A n \in DOMAIN pulled : pulled[n] = n
     /\ \A n \in DOMAIN taken : taken[n] = n
     /\ {cq[i].packet : i \in read} = (Len(taken) + 1)..Len(pulled)
     /\ \A i, j \in read : i < j => cq[i].packet < cq[j].packet

(* The ring, its slots, its permits and both channels keep within their    *)
(* sizes (the loop of iouring.rs).                                         *)
UringTypeOK ==
  /\ Len(sq) <= RingSize /\ Len(rx_queue) + Cardinality(senders) <= RingSize
  /\ synced <= Len(cq) /\ senders \subseteq Indexes

(* A packet the application sent does not wait in the channel for ever.    *)
SendsDrain == tx_queue # <<>> ~> tx_queue = <<>>

(* "refill rx slots": a packet in the TUN does not wait there for ever.    *)
(* Fails: the slots freed by a turn are refilled after the next wait.      *)
ReadsDrain == tun_in # <<>> ~> tun_in = <<>>

(* Between channels, ring and kernel no slot is used twice or lost, and no *)
(* packet is dropped, repeated or reordered, through failing reads and     *)
(* writes, full channels and every order of completions (iouring_task).    *)
UringSafe ==
  /\ UringTypeOK
  /\ SlotsOwned
  /\ SendsAccounted
  /\ ReadsAccounted
=============================================================================
