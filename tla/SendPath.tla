------------------------------ MODULE SendPath ------------------------------
(***************************************************************************)
(* What a frame goes through between send_frame_or_queue and the socket:   *)
(* the queue of frames a blocked TLS write left behind (connection.rs),    *)
(* the adapter that hides partial stream writes and repeats datagrams      *)
(* (connection/io_adapter.rs), and the path of a GSO superpacket, cut into *)
(* segments (gso.rs) that leave in one UDP_SEGMENT batch.                  *)
(*                                                                         *)
(* One call runs under the connection's lock, so it is one action. What    *)
(* the socket does in it is an input: it takes `room` units (bytes of a    *)
(* stream, datagrams otherwise) and then blocks or fails. Frames are       *)
(* numbered; a unit of a stream is <<frame, position>>.                    *)
(***************************************************************************)
EXTENDS Naturals, FiniteSets, Sequences, SequencesExt

CONSTANTS
  MAX_TLS_PENDING_QUEUE_PACKETS,  \* 64 in the code
  MAX_GSO_SEGS,                   \* 64 in the code
  SeqSpace,       \* values of a TCP sequence number (2^32 in the code)
  FrameSizes,     \* sizes of a frame, in units
  GsoSizes,       \* payload per segment the kernel may announce
  Payloads,       \* payload lengths of a superpacket
  InsideMtu,      \* the largest segment, header included
  MaxFrames,      \* bound: frames offered, the segments of a batch included
  MaxRoom,        \* bound: units the socket takes in one call
  SendSettings    \* kinds of connection: [stream, aggressive, plugins, lane]

\* Frames and announced segments are not empty (a gso_size of 0 is dropped),
\* and ExpressLane carries data on datagram connections alone.
ASSUME SendBounds ==
  /\ MAX_TLS_PENDING_QUEUE_PACKETS \in Nat \ {0} /\ MAX_GSO_SEGS \in Nat /\ SeqSpace \in Nat \ {0}
  /\ FrameSizes \subseteq Nat \ {0} /\ GsoSizes \subseteq Nat \ {0} /\ Payloads \subseteq Nat
  /\ MaxFrames \in Nat /\ MaxRoom \in Nat
  /\ SendSettings \subseteq [stream : BOOLEAN, aggressive : BOOLEAN, plugins : BOOLEAN, lane : BOOLEAN]
  /\ \A s \in SendSettings : ~(s.stream /\ s.lane)

HdrLen == 1       \* length of the inner headers, as calc_hdr_len parses them

VARIABLES
  pendq,      \* tls_pending_queue
  sendBuf,    \* SendBuffer: units of the head still to be sent; 0 when empty
  wireOut,    \* history: what the socket took, in order
  frameNo,    \* number of the last frame offered
  accepted,   \* history: frames send_frame_or_queue put in the queue
  dropped,    \* history: accepted frames that an error or a plugin dropped
  batch,      \* history: the last GSO batch, or NoBatch
  broken,     \* a stream that met an error; every such error is fatal
  conn        \* this behaviour's member of SendSettings

sendVars == <<pendq, sendBuf, wireOut, frameNo, accepted, dropped, batch, broken, conn>>

NoBatch == [segs |-> <<>>, gsoSize |-> 0, buf |-> <<>>, slices |-> <<>>, stale |-> FALSE]
Least(a, b) == IF a < b THEN a ELSE b
Ids(s) == {s[i].id : i \in DOMAIN s}
-----------------------------------------------------------------------------
(* The adapter. acc carries one call: what is on the wire, what is left of *)
(* the socket's room, the queue that remains, the open batch.              *)

Units(f, from, n) == [i \in 1..n |-> <<f.id, from + i - 1>>]

Stop(acc, f) == IF acc.fails THEN [acc EXCEPT !.stop = TRUE, !.err = TRUE, !.lost = @ \cup {f.id}]
                ELSE [acc EXCEPT !.stop = TRUE, !.rest = Append(@, f)]

ForgetsRemainder(acc, f) ==
  LET left == f.size
      n    == Least(acc.room, left)
      sent == [acc EXCEPT !.wire = @ \o Units(f, f.size - left + 1, n), !.room = @ - n,
                          !.held = left - n]
  IN IF n = left THEN sent ELSE Stop(sent, f)

tcp_send(acc, f) ==
  LET left == IF acc.held = 0 THEN f.size ELSE acc.held
      n    == Least(acc.room, left)
      sent == [acc EXCEPT !.wire = @ \o Units(f, f.size - left + 1, n), !.room = @ - n,
                          !.held = left - n]
  IN CASE acc.held = 0 /\ acc.plugin[f.id] = "drop" -> [acc EXCEPT !.lost = @ \cup {f.id}]
       [] acc.held = 0 /\ acc.plugin[f.id] = "error" ->
            [acc EXCEPT !.stop = TRUE, !.err = TRUE, !.lost = @ \cup {f.id}]
       [] OTHER -> IF n = left THEN sent ELSE Stop(sent, f)

\* Three copies in aggressive mode, none when a plugin drops the datagram. A
\* batch that is open takes the bytes instead of the socket.
udp_send(acc, f) ==
  LET copies == IF conn.aggressive THEN 3 ELSE 1
      n      == Least(acc.room, copies)
      sent   == [acc EXCEPT !.wire = @ \o [i \in 1..n |-> f.id], !.room = @ - n]
  IN CASE acc.open -> [acc EXCEPT !.buf = Append(@, f)]
       [] ~acc.open /\ acc.plugin[f.id] = "drop" -> [acc EXCEPT !.lost = @ \cup {f.id}]
       [] ~acc.open /\ acc.plugin[f.id] = "error" ->
            [acc EXCEPT !.stop = TRUE, !.err = TRUE, !.lost = @ \cup {f.id}]
       [] OTHER -> IF n = copies THEN sent ELSE Stop(sent, f)

\* One turn of the loop: the head goes to try_write unless an earlier frame
\* blocked or failed.
try_write(acc, f) ==
  IF acc.stop THEN [acc EXCEPT !.rest = Append(@, f)]
  ELSE IF conn.stream THEN tcp_send(acc, f) ELSE udp_send(acc, f)

WriteAll(acc, queue) ==
  LET turn[i \in 0..Len(queue)] ==
        IF i = 0 THEN [acc EXCEPT !.rest = <<>>, !.stop = FALSE] ELSE try_write(turn[i - 1], queue[i])
  IN turn[Len(queue)]

queue_limit(f) ==
  IF conn.stream /\ f.kind # "tcp" THEN MAX_TLS_PENDING_QUEUE_PACKETS ELSE 1

JumpsQueue(acc, f) ==
  LET room  == Len(acc.queue) < queue_limit(f)
      queue == IF ~conn.stream THEN <<f>> \o acc.queue
               ELSE IF room THEN Append(acc.queue, f) ELSE acc.queue
      after == WriteAll(acc, queue)
  IN [after EXCEPT !.queue = IF conn.stream THEN after.rest
                            ELSE SelectSeq(after.rest, LAMBDA g : g = after.rest[1])]

send_frame_or_queue(acc, f) ==
  LET room  == Len(acc.queue) < queue_limit(f)
      queue == IF room THEN Append(acc.queue, f) ELSE acc.queue
      after == WriteAll(acc, queue)
  IN [after EXCEPT !.queue = after.rest, !.taken = IF room THEN @ \cup {f.id} ELSE @]

\* The state of a call, from the variables and the socket's behaviour.
Call(room, fails, plugin, open) ==
  [queue |-> pendq, rest |-> <<>>, held |-> sendBuf, wire |-> wireOut, room |-> room,
   fails |-> fails, plugin |-> plugin, open |-> open, buf |-> <<>>, stop |-> FALSE,
   err |-> FALSE, lost |-> {}, taken |-> {}]

Return(acc) ==
  /\ pendq' = acc.queue /\ sendBuf' = acc.held /\ wireOut' = acc.wire
  /\ accepted' = accepted \cup acc.taken
  /\ dropped' = dropped \cup acc.lost
  /\ broken' = (conn.stream /\ acc.err)

Verdicts == IF conn.plugins THEN {"accept", "drop", "error"} ELSE {"accept"}
-----------------------------------------------------------------------------
(* gso.rs: the segments of a superpacket.                                  *)

calc_gso_segs(payload, gso_size) == (payload + gso_size - 1) \div gso_size

\* Segment i: its slice of the payload, its sequence number relative to the
\* first, and whether it keeps FIN and PSH.
build_segment(payload, gso_size, i) ==
  LET from == (i - 1) * gso_size
      to   == Least(from + gso_size, payload)
  IN [from |-> from, to |-> to, seq |-> (gso_size * (i - 1)) % SeqSpace,
      flags |-> to = payload]

SegmentsOf(payload, gso_size) ==
  [i \in 1..calc_gso_segs(payload, gso_size) |-> build_segment(payload, gso_size, i)]

FrameOf(seg, id) == [id |-> id, kind |-> "tcp", size |-> HdrLen + (seg.to - seg.from)]

\* udp_send_gso slices the coalesced bytes by the size of the first segment.
\* Offsets of the slices; one that starts past the end is a slice panic.
Ends(buf) == LET end[i \in 0..Len(buf)] == IF i = 0 THEN 0 ELSE end[i - 1] + buf[i].size IN end
Slices(buf, n) ==
  LET size == buf[1].size
  IN [i \in 1..n |-> <<(i - 1) * size, Least(i * size, Ends(buf)[Len(buf)])>>]
Bounds(buf) == [i \in DOMAIN buf |-> <<Ends(buf)[i - 1], Ends(buf)[i]>>]
\* The frames a receiver can decrypt: slices that are exactly one record.
Whole(buf, n) ==
  {buf[i].id : i \in {j \in DOMAIN buf : j <= n /\ Bounds(buf)[j] = Slices(buf, n)[j]}}
IdsAmong(buf, ids) ==
  LET kept[i \in 0..Len(buf)] ==
        IF i = 0 THEN <<>> ELSE IF buf[i].id \in ids THEN Append(kept[i - 1], buf[i].id) ELSE kept[i - 1]
  IN kept[Len(buf)]
-----------------------------------------------------------------------------
SendInit ==
  /\ pendq = <<>> /\ sendBuf = 0 /\ wireOut = <<>> /\ frameNo = 0
  /\ accepted = {} /\ dropped = {} /\ batch = NoBatch /\ broken = FALSE
  /\ conn \in SendSettings

\* Any send of one frame: data, keepalive, pong, configuration, goodbye.
SendFrame(kind, size) ==
  \E room \in 0..MaxRoom, fails \in BOOLEAN :
  \E plugin \in [Ids(pendq) \cup {frameNo + 1} -> Verdicts] :
    /\ ~broken /\ frameNo < MaxFrames
    /\ frameNo' = frameNo + 1
    /\ Return(send_frame_or_queue(Call(room, fails, plugin, FALSE),
                                  [id |-> frameNo + 1, kind |-> kind, size |-> size]))
    /\ batch' = NoBatch
    /\ UNCHANGED conn

\* send_expresslane_data outside a batch: straight to the socket; a datagram
\* the socket does not take is gone.
SendLane(size) ==
  \E room \in 0..MaxRoom, fails \in BOOLEAN, verdict \in Verdicts :
    LET f == [id |-> frameNo + 1, kind |-> "tcp", size |-> size]
        acc == udp_send(Call(room, fails, [i \in {f.id} |-> verdict], FALSE), f)
    IN /\ conn.lane /\ frameNo < MaxFrames
       /\ frameNo' = frameNo + 1
       /\ wireOut' = acc.wire
       /\ batch' = NoBatch
       /\ UNCHANGED <<pendq, sendBuf, accepted, dropped, broken, conn>>

\* The coalescing loop: every segment goes through send_frame_or_queue, or
\* through udp_send when ExpressLane carries the data. `cut` segments are
\* built before build_segment fails; none fails when cut is their number.
Coalesce(acc, f) == IF conn.lane THEN udp_send(acc, f) ELSE send_frame_or_queue(acc, f)
Coalesced(frames, cut) ==
  LET after[i \in 0..cut] == IF i = 0 THEN Call(0, FALSE, [j \in 1..MaxFrames |-> "accept"], TRUE)
                             ELSE Coalesce(after[i - 1], frames[i])
  IN after[cut]

\* send_to_outside_gso, batched: a superpacket of at most MAX_GSO_SEGS
\* segments. The kernel takes the batch or not; the buffer is reset anyway.
SendBatch(payload, gso_size, cut, taken) ==
  LET segs   == SegmentsOf(payload, gso_size)
      n      == Len(segs)
      frames == [i \in 1..n |-> FrameOf(segs[i], frameNo + i)]
      acc    == Coalesced(frames, cut)
      whole  == IF taken /\ cut = n THEN Whole(acc.buf, n) ELSE {}
  IN /\ ~conn.stream /\ n > 0 /\ n <= MAX_GSO_SEGS /\ cut <= n
     /\ HdrLen + gso_size <= InsideMtu
     /\ frameNo + n <= MaxFrames
     /\ frameNo' = frameNo + n
     /\ pendq' = acc.queue
     /\ accepted' = accepted \cup acc.taken
     /\ dropped' = dropped \cup (Ids(acc.buf) \ whole)
     /\ wireOut' = wireOut \o IdsAmong(acc.buf, whole)
     /\ batch' = IF cut = n
                 THEN [segs |-> segs, gsoSize |-> acc.buf[1].size, buf |-> acc.buf,
                       slices |-> Slices(acc.buf, n), stale |-> pendq # <<>> /\ ~conn.lane]
                 ELSE NoBatch
     /\ UNCHANGED <<sendBuf, broken, conn>>

\* Too many segments for one batch, or a stream: one frame per segment, until
\* one fails.
SendSegment(acc, f) ==
  IF acc.err THEN acc
  ELSE IF conn.lane THEN [udp_send(acc, f) EXCEPT !.stop = FALSE] ELSE send_frame_or_queue(acc, f)
SendEach(acc, frames) ==
  LET after[i \in 0..Len(frames)] == IF i = 0 THEN acc ELSE SendSegment(after[i - 1], frames[i])
  IN after[Len(frames)]

SendSegments(payload, gso_size, room, fails) ==
  LET segs   == SegmentsOf(payload, gso_size)
      frames == [i \in DOMAIN segs |-> FrameOf(segs[i], frameNo + i)]
  IN /\ ~broken
     /\ conn.stream \/ Len(segs) > MAX_GSO_SEGS
     /\ HdrLen + gso_size <= InsideMtu
     /\ frameNo + Len(segs) <= MaxFrames
     /\ frameNo' = frameNo + Len(segs)
     /\ Return(SendEach(Call(room, fails, [i \in 1..MaxFrames |-> "accept"], FALSE), frames))
     /\ batch' = NoBatch
     /\ UNCHANGED conn

SendNext ==
  \/ \E kind \in {"tcp", "control"}, size \in FrameSizes : SendFrame(kind, size)
  \/ \E size \in FrameSizes : SendLane(size)
  \/ \E payload \in Payloads, gso_size \in GsoSizes :
       \/ \E cut \in 0..MAX_GSO_SEGS, taken \in BOOLEAN : SendBatch(payload, gso_size, cut, taken)
       \/ \E room \in 0..MaxRoom, fails \in BOOLEAN : SendSegments(payload, gso_size, room, fails)

SendSpec == SendInit /\ [][SendNext]_sendVars
-----------------------------------------------------------------------------
(* A stream never has a hole, a repeat or two frames mixed, however often  *)
(* the socket takes half a frame: each unit is followed by the next of its *)
(* frame or, after the last, by the first of a later frame, and an         *)
(* unfinished frame is at the head of the queue with exactly its rest in   *)
(* the send buffer (tcp_send and the retry of try_write).                  *)
StreamIntact ==
  conn.stream /\ ~broken =>
    /\ \A i \in 1..(Len(wireOut) - 1) :
         LET a == wireOut[i] b == wireOut[i + 1]
         IN (b[1] = a[1] /\ b[2] = a[2] + 1) \/ (b[1] > a[1] /\ b[2] = 1)
    /\ sendBuf # 0 =>
         /\ pendq # <<>>
         /\ \/ sendBuf = pendq[1].size /\ (wireOut = <<>> \/ Last(wireOut)[1] < pendq[1].id)
            \/ wireOut # <<>> /\ Last(wireOut) = <<pendq[1].id, pendq[1].size - sendBuf>>

(* Nothing that was put in the queue disappears in silence: an accepted    *)
(* frame is queued, on the wire, or dropped by a plugin or an error.       *)
AcceptedAccounted ==
  \A id \in accepted \ (dropped \cup Ids(pendq)) :
    IF conn.stream THEN \E i \in DOMAIN wireOut : wireOut[i][1] = id
                   ELSE Contains(wireOut, id)

(* Frames never overtake each other: what is queued is younger than all    *)
(* that left, except for ExpressLane, which does not use the queue, and    *)
(* for the copies of a repeated datagram whose last copies blocked.        *)
NoOvertaking ==
  LET sent(i) == IF conn.stream THEN wireOut[i][1] ELSE wireOut[i]
  IN ~conn.lane =>
       /\ \A i \in 1..(Len(wireOut) - 1) : sent(i) <= sent(i + 1)
       /\ \A f \in ToSet(pendq), i \in DOMAIN wireOut : sent(i) <= f.id
       /\ \A i \in 1..(Len(pendq) - 1) : pendq[i].id < pendq[i + 1].id

(* A batch that opens on an empty queue is cut by the kernel where its     *)
(* segments end, and the segments tile the payload: contiguous slices and  *)
(* sequence numbers (modulo their width), FIN and PSH on the last alone    *)
(* (build_segment, GsoBuffer, udp_send_gso).                               *)
BatchSliced ==
  (batch # NoBatch /\ ~batch.stale) =>
    LET s == batch.segs
    IN /\ batch.slices = Bounds(batch.buf)
       /\ s[1].from = 0 /\ s[1].seq = 0
       /\ \A i \in 1..(Len(s) - 1) :
            /\ s[i + 1].from = s[i].to
            /\ s[i + 1].seq = (s[i].seq + (s[i].to - s[i].from)) % SeqSpace
            /\ ~s[i].flags
       /\ s[Len(s)].flags

(* What the comment on GsoBuffer::put asks of a batch: every segment is at *)
(* most as long as the first, and one that is shorter is the last.         *)
GsoUniform ==
  batch # NoBatch =>
    /\ \A i \in DOMAIN batch.buf : batch.buf[i].size <= batch.gsoSize
    /\ \A i \in 1..(Len(batch.buf) - 1) : batch.buf[i].size = batch.gsoSize

(* The queue never exceeds its limit, and datagrams leave at most their    *)
(* head behind.                                                            *)
SendTypeOK ==
  /\ conn \in SendSettings /\ frameNo \in 0..MaxFrames
  /\ Len(pendq) <= IF conn.stream THEN MAX_TLS_PENDING_QUEUE_PACKETS ELSE 1
  /\ \A f \in ToSet(pendq) : f.id \in 1..frameNo /\ f.size > 0
  /\ sendBuf \in Nat /\ (sendBuf # 0 => conn.stream)
  /\ accepted \subseteq 1..frameNo /\ dropped \subseteq 1..frameNo
  /\ broken \in BOOLEAN /\ (broken => conn.stream)

(* However often the socket blocks, fails or takes half of what it is      *)
(* given, frames leave whole, in order and once, and batches are cut where *)
(* their segments end (send_frame_or_queue, io_adapter.rs, gso.rs).        *)
SendSafe ==
  /\ SendTypeOK
  /\ StreamIntact
  /\ AcceptedAccounted
  /\ NoOvertaking
  /\ BatchSliced
=============================================================================
