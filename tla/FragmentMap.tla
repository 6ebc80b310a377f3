----------------------------- MODULE FragmentMap -----------------------------
(***************************************************************************)
(* Fragmentation and reassembly of inside packets: the sending half of     *)
(* connection.rs (send_fragmented_outside_data), the 16-bit offset word of *)
(* wire/data_frag.rs, and the receiver's LRU of partly received packets    *)
(* (connection/fragment_map.rs). Between them datagrams are lost,          *)
(* reordered and, where the behaviour allows it, duplicated.               *)
(*                                                                         *)
(* Bytes are not modelled; a piece records which bytes of which packet a   *)
(* fragment carries, so that a reassembled packet can be compared with     *)
(* what was sent.                                                          *)
(***************************************************************************)
EXTENDS Naturals, FiniteSets, Sequences, SequencesExt

CONSTANTS
  IdSpaces,      \* numbers of values of a fragment id (2^16 in the code)
  Plpmtus,       \* the path MTU estimates a packet may be fragmented by
  PacketSizes,   \* sizes of the inside packets, all above the data MPS
  Capacities,    \* numbers of entries of the receiver's LRU (4096 by default)
  MaxPackets,    \* bound: packets sent
  Duplicates     \* subset of BOOLEAN: may the network deliver a datagram twice

\* The lengths the 16-bit total length of an IP packet can state.
PacketLengths == {n \in Nat : 0 < n /\ n < 65536}

\* A path MTU leaves room for a fragment, and the capacity is a NonZeroU16.
ASSUME FragBounds ==
  /\ IdSpaces \subseteq Nat \ {0} /\ Capacities \subseteq Nat \ {0} /\ Duplicates \subseteq BOOLEAN
  /\ PacketSizes \subseteq PacketLengths /\ Plpmtus \subseteq {n \in Nat : n >= 15} /\ MaxPackets \in Nat

VARIABLES
  lru,        \* the map: entries [id, frags], least recently used first
  counter,    \* fragment_counter of the sender
  packets,    \* history: the packets sent, as the sequence of their pieces
  flying,     \* fragments in the network
  rebuilt,    \* the pieces of the packet the last step completed, or <<>>
  done,       \* history: the packets rebuilt as they were sent
  setting     \* this behaviour's ids, LRU size and network, fixed at the start

fragVars == <<lru, counter, packets, flying, rebuilt, done, setting>>
-----------------------------------------------------------------------------
(* The wire form (OffsetAndMoreFragments) and the sizes it allows.         *)

OFFSET_UNIT == 8           \* OFFSET_SHIFT = 3
MORE_FRAGMENTS_MASK == 8192
FRAME_OVERHEAD == 7        \* frame kind and DataFrag::WIRE_OVERHEAD

from_parts(offset, more) ==
  (IF more THEN MORE_FRAGMENTS_MASK ELSE 0) + (offset \div OFFSET_UNIT)

into_parts(word) ==
  [offset |-> (word % MORE_FRAGMENTS_MASK) * OFFSET_UNIT,
   more   |-> (word \div MORE_FRAGMENTS_MASK) % 2 = 1]

Unaligned(plpmtu) == plpmtu - FRAME_OVERHEAD

maximum_packet_size_for_plpmtu(plpmtu) ==
  ((plpmtu - FRAME_OVERHEAD) \div OFFSET_UNIT) * OFFSET_UNIT

\* A fragment as the receiver parses it, with the piece of packet it carries.
WireFragment(id, pkt, start, len, more) ==
  LET w == into_parts(from_parts(start, more))
  IN [id |-> id, start |-> w.offset, end |-> w.offset + len, last |-> ~w.more,
      data |-> <<[pkt |-> pkt, id |-> id, from |-> start, to |-> start + len]>>]

\* send_fragmented_outside_data: the packet in chunks of mps, in order.
Fragments(id, pkt, size, mps) ==
  [i \in 1..((size + mps - 1) \div mps) |->
     LET start == (i - 1) * mps
         len   == IF size - start < mps THEN size - start ELSE mps
     IN WireFragment(id, pkt, start, len, start + len < size)]
-----------------------------------------------------------------------------
(* FragmentedPacket: a sequence of contiguous runs, each like a fragment.  *)

Joined(a, b) ==
  [id |-> a.id, start |-> a.start, end |-> b.end, last |-> b.last, data |-> a.data \o b.data]

Overlaps(f, run) == f.end > run.start /\ f.start < run.end
Touches(f, run)  == f.end = run.start \/ run.end = f.start

\* The first run the loop of update stops at; 0 if it runs off the end.
StopsAt(f, runs) ==
  LET stops == {i \in DOMAIN runs : Overlaps(f, runs[i]) \/ Touches(f, runs[i])
                                     \/ f.end < runs[i].start}
  IN IF stops = {} THEN 0 ELSE CHOOSE i \in stops : \A j \in stops : i <= j

\* add_wire_frag, then merge with the following run if the gap is now closed.
AddWireFrag(f, runs, i) ==
  LET before == f.end = runs[i].start
      grown  == IF before THEN Joined(f, runs[i]) ELSE Joined(runs[i], f)
      closes == i < Len(runs) /\ grown.end = runs[i + 1].start
      refused == \/ before /\ f.last
                 \/ ~before /\ runs[i].last
                 \/ closes /\ grown.last
  IN IF refused THEN [ok |-> FALSE, runs |-> runs]
     ELSE IF closes
     THEN [ok |-> TRUE, runs |-> RemoveAt(ReplaceAt(runs, i, Joined(grown, runs[i + 1])), i + 1)]
     ELSE [ok |-> TRUE, runs |-> ReplaceAt(runs, i, grown)]

AcceptOverlap(f, runs) == [ok |-> TRUE, runs |-> runs \o <<f>>]

update(f, runs) ==
  LET i == StopsAt(f, runs)
  IN IF f.end = f.start THEN [ok |-> FALSE, runs |-> runs]
     ELSE CASE i = 0 -> [ok |-> TRUE, runs |-> Append(runs, f)]
            [] i # 0 /\ Overlaps(f, runs[i]) -> [ok |-> FALSE, runs |-> runs]
            [] i # 0 /\ ~Overlaps(f, runs[i]) /\ f.end < runs[i].start ->
                 [ok |-> TRUE, runs |-> InsertAt(runs, i, f)]
            [] OTHER -> AddWireFrag(f, runs, i)

try_complete(runs) == Len(runs) = 1 /\ runs[1].start = 0 /\ runs[1].last
-----------------------------------------------------------------------------
Place(id) == CHOOSE i \in DOMAIN lru : lru[i].id = id
Holds(id) == \E i \in DOMAIN lru : lru[i].id = id

RunsOf(id)  == IF Holds(id) THEN lru[Place(id)].frags ELSE <<>>
Without(id) == IF Holds(id) THEN RemoveAt(lru, Place(id)) ELSE lru

\* get_or_insert_mut: the entry becomes the most recent; a full map that does
\* not hold the id drops its least recent entry.
Evicted(id) ==
  IF Len(Without(id)) < setting.capacity THEN Without(id) ELSE Tail(Without(id))

FragInit ==
  /\ lru = <<>> /\ counter = 0 /\ packets = <<>> /\ flying = {}
  /\ rebuilt = <<>> /\ done = {}
  /\ setting \in [ids : IdSpaces, capacity : Capacities, dups : Duplicates]

next_fragment_id == (counter + 1) % setting.ids

\* send_to_outside with an estimate the packet exceeds.
SendFragmented(size, plpmtu) ==
  LET id    == next_fragment_id
      frags == Fragments(id, Len(packets) + 1, size, maximum_packet_size_for_plpmtu(plpmtu))
  IN /\ Len(packets) < MaxPackets
     /\ counter' = id
     /\ packets' = Append(packets, [i \in DOMAIN frags |-> frags[i].data[1]])
     /\ flying' = flying \cup ToSet(frags)
     /\ rebuilt' = <<>>
     /\ UNCHANGED <<lru, done, setting>>

\* add_fragment, called by handle_outside_data_fragment.
AddFragment(f) ==
  LET r == update(f, RunsOf(f.id))
      complete == r.ok /\ try_complete(r.runs)
  IN /\ lru' = IF r.ok /\ ~complete
               THEN Append(Evicted(f.id), [id |-> f.id, frags |-> r.runs]) ELSE Evicted(f.id)
     /\ rebuilt' = IF complete THEN r.runs[1].data ELSE <<>>
     /\ done' = done \cup {p \in DOMAIN packets : packets[p] = rebuilt'}

\* The network delivers in any order; a lost fragment is one never delivered.
Deliver(f) ==
  /\ f \in flying
  /\ AddFragment(f)
  /\ \/ flying' = flying \ {f}
     \/ setting.dups /\ flying' = flying
  /\ UNCHANGED <<counter, packets, setting>>

FragNext ==
  \/ \E size \in PacketSizes, plpmtu \in Plpmtus : SendFragmented(size, plpmtu)
  \/ \E f \in flying : Deliver(f)

FragSpec == FragInit /\ [][FragNext]_fragVars
-----------------------------------------------------------------------------
NotComeRound == Len(packets) <= setting.ids

(* A rebuilt packet is made of pieces with one id that tile it: they start *)
(* at byte 0, follow each other without gap or overlap, and the last one   *)
(* ends a packet. Holds whatever is lost, reordered or sent twice, and     *)
(* even when the 16-bit id has come round again (add_fragment).            *)
RebuiltTiles ==
  rebuilt # <<>> =>
    /\ rebuilt[1].from = 0
    /\ \A i \in 1..(Len(rebuilt) - 1) :
         rebuilt[i + 1].from = rebuilt[i].to /\ rebuilt[i + 1].id = rebuilt[i].id
    /\ \E p \in DOMAIN packets : Last(rebuilt) = Last(packets[p])

(* As long as ids have not come round, a rebuilt packet is one that was    *)
(* sent, whole: pieces of two packets never meet, whatever was evicted.    *)
RebuiltWhole ==
  NotComeRound /\ rebuilt # <<>> => rebuilt \in ToSet(packets)

(* As long as ids have not come round, the runs of a partly received       *)
(* packet are sorted and apart: the claim in the comments of update that   *)
(* merging with the next run only is enough, in every order of arrival.    *)
RunsApart ==
  NotComeRound =>
    \A e \in ToSet(lru) : \A i \in 1..(Len(e.frags) - 1) :
      e.frags[i].end < e.frags[i + 1].start

(* Nothing that fully arrived is lost: without duplicates, with room for   *)
(* every packet and before ids come round, a packet all of whose fragments *)
(* arrived has been rebuilt, whatever the order of their arrival.          *)
ArrivedRebuilt ==
  (~setting.dups /\ Len(packets) <= setting.capacity /\ NotComeRound) =>
    \A p \in DOMAIN packets :
      (\A f \in flying : f.data[1].pkt # p) => p \in done

(* The map never exceeds its capacity and holds one entry per id.          *)
FragTypeOK ==
  /\ setting \in [ids : IdSpaces, capacity : Capacities, dups : Duplicates]
  /\ Len(lru) <= setting.capacity
  /\ \A i, j \in DOMAIN lru : lru[i].id = lru[j].id => i = j
  /\ \A e \in ToSet(lru) : e.id \in 0..(setting.ids - 1) /\ e.frags # <<>>
  /\ counter \in 0..(setting.ids - 1) /\ Len(packets) <= MaxPackets
  /\ done \subseteq DOMAIN packets

(* Reassembly is exact in every order of arrival: what is rebuilt was      *)
(* sent, and what arrived in full is rebuilt, as far as ids, duplicates    *)
(* and the capacity of the map allow (add_fragment).                       *)
FragmentsRejoined ==
  /\ FragTypeOK
  /\ RebuiltTiles
  /\ RebuiltWhole
  /\ RunsApart
  /\ ArrivedRebuilt
=============================================================================
