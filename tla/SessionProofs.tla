---------------------------- MODULE SessionProofs ----------------------------
(***************************************************************************)
(* Proofs about session ids: through every interleaving of floats, key     *)
(* updates, overlapping rotations, acknowledgements and disconnects a      *)
(* client is found by its session id, nobody else is, and what has ended   *)
(* is forgotten.  For any number of connections and tasks.                 *)
(***************************************************************************)
EXTENDS ManagerProofs

Entries(c) == {s \in SessionIds : by_session_id[s] = c}
Pending(c) == {s \in SessionIds : pending_session_id_rotations[s] = c}

\* The places of the acknowledgements in a queue of events.
AckSet(q) == {i \in 1..Len(q) : q[i].kind = "Ack"}

\* The acknowledged rotations form a chain of ids: each starts where an earlier
\* one ended or in a set S of ids, and s is the end of the chain.
Ordered(q) == \A i, j \in AckSet(q) : i < j => q[i].new <= q[j].old
Linked(q, S) == \A i \in AckSet(q) : \/ q[i].old \in S
                                     \/ \E j \in AckSet(q) : j < i /\ q[j].new = q[i].old
Reached(q, S, s) == s \in S \/ \E i \in AckSet(q) : q[i].new = s
Ends(q, s) == \A i \in AckSet(q) : \/ q[i].new = s
                                   \/ \E j \in AckSet(q) : i < j /\ q[j].old = q[i].new
Covers(q, S, s) == \A x \in S : x = s \/ \E i \in AckSet(q) : q[i].old = x

\* The id drawn last is among the pending rotations, or about to be.
Announced(c) ==
  conn[c].pending_session_id # EMPTY =>
    \/ conn[c].pending_session_id \in Pending(c)
    \/ event_task[c] = "insert" /\ events[c][1].new = conn[c].pending_session_id
    \/ \E t \in Tasks : /\ task[t].pc = "insert" /\ task[t].conn = c
                        /\ task[t].session = conn[c].pending_session_id

\* The chain of a connection that nobody disconnects starts in the session map
\* and ends in the connection's id.  Each rotation is among the pending ones, or
\* about to be, until it is finalized.
Chain(c) ==
  /\ Entries(c) # {}
  /\ Ordered(events[c])
  /\ Linked(events[c], Entries(c))
  /\ Reached(events[c], Entries(c), conn[c].session_id)
  /\ \A i \in AckSet(events[c]) :
       \/ events[c][i].new \in Pending(c)
       \/ event_task[c] = "insert" /\ events[c][1].new = events[c][i].new
       \/ event_task[c] = "finalize" /\ i = 1
  /\ Announced(c)
ChainInv == \A c \in Conns \ removed : Born(c) => Chain(c)

\* The session map has no id of a connection but its own and those its pending
\* acknowledgements start from; of a removed one, none but a younger id.
Tidy(c) ==
  /\ Covers(events[c], Entries(c), conn[c].session_id)
  /\ Ends(events[c], conn[c].session_id)
  /\ c \in removed => \A s \in Entries(c) : \E first \in SessionIds \ {s} : owner[first] = c
EntriesInv == \A c \in Conns : Tidy(c)

-----------------------------------------------------------------------------
\* Facts about queues of events.

LEMMA AckPlaces ==
    ASSUME NEW q \in Seq(Event)
    PROVE  /\ Len(q) \in Nat /\ AckSet(q) \subseteq Nat
           /\ \A i \in AckSet(q) : /\ i >= 1 /\ i <= Len(q) /\ q[i].kind = "Ack"
                                   /\ q[i].old \in Nat /\ q[i].new \in Nat
           /\ \A i \in 1..Len(q) : q[i].kind = "Ack" => i \in AckSet(q)
<1>1. Len(q) \in Nat /\ \A i \in 1..Len(q) : q[i] \in Event
    OBVIOUS
<1>2. \A e \in Event : e.old \in Nat /\ e.new \in Nat
    BY DEF Event, SessionIds, EMPTY
<1> QED BY <1>1, <1>2 DEF AckSet

LEMMA TailAcks ==
    ASSUME NEW q \in Seq(Event), q # <<>>
    PROVE  /\ \A i \in AckSet(Tail(q)) : i + 1 \in AckSet(q) /\ Tail(q)[i] = q[i + 1] /\ i + 1 # 1
           /\ \A i \in AckSet(q) : i # 1 => \E k \in AckSet(Tail(q)) : i = k + 1 /\ Tail(q)[k] = q[i]
<1>1. /\ Tail(q) \in Seq(Event) /\ Len(Tail(q)) = Len(q) - 1 /\ Len(q) \in Nat \ {0}
      /\ \A i \in 1..Len(Tail(q)) : i + 1 \in 1..Len(q) /\ Tail(q)[i] = q[i + 1]
    BY TailFacts
<1>2. ASSUME NEW i \in AckSet(q), i # 1 PROVE \E k \in AckSet(Tail(q)) : i = k + 1 /\ Tail(q)[k] = q[i]
    <2>1. i \in 1..Len(q) /\ q[i].kind = "Ack"
        BY DEF AckSet
    <2>2. i - 1 \in 1..Len(Tail(q)) /\ (i - 1) + 1 = i
        BY <1>1, <1>2, <2>1
    <2>3. Tail(q)[i - 1] = q[i]
        BY <1>1, <2>2
    <2>4. i - 1 \in AckSet(Tail(q))
        BY <2>1, <2>2, <2>3 DEF AckSet
    <2> QED BY <2>2, <2>3, <2>4
<1>3. ASSUME NEW i \in AckSet(Tail(q)) PROVE i + 1 \in AckSet(q) /\ Tail(q)[i] = q[i + 1] /\ i + 1 # 1
    BY <1>1 DEF AckSet
<1> QED BY <1>2, <1>3

\* Two queues with the same acknowledgements.
SameAcks(q, r) == AckSet(q) = AckSet(r) /\ \A i \in AckSet(q) : r[i] = q[i]

LEMMA SameAcksKeep ==
    ASSUME NEW q, NEW r, SameAcks(q, r), NEW S, NEW s
    PROVE  /\ Ordered(q) => Ordered(r)
           /\ Linked(q, S) => Linked(r, S)
           /\ Reached(q, S, s) => Reached(r, S, s)
           /\ Ends(q, s) => Ends(r, s)
           /\ Covers(q, S, s) => Covers(r, S, s)
BY DEF SameAcks, Ordered, Linked, Reached, Ends, Covers

\* More ids in the map break no chain.
LEMMA MoreEntries ==
    ASSUME NEW q, NEW S, NEW T, S \subseteq T, NEW s
    PROVE  (Linked(q, S) => Linked(q, T)) /\ (Reached(q, S, s) => Reached(q, T, s))
BY DEF Linked, Reached

\* The first event of a chain is done: its new id is in the map.
LEMMA TailChain ==
    ASSUME NEW q \in Seq(Event), q # <<>>, NEW S, NEW T, NEW s, Ordered(q), Linked(q, S), Reached(q, S, s),
           1 \in AckSet(q) => q[1].new \in T,
           \A i \in AckSet(q) : i # 1 /\ q[i].old \in S => q[i].old \in T,
           s \in S => s \in T
    PROVE  Ordered(Tail(q)) /\ Linked(Tail(q), T) /\ Reached(Tail(q), T, s)
<1>1. /\ \A i \in AckSet(Tail(q)) : i \in Nat /\ i + 1 \in AckSet(q) /\ Tail(q)[i] = q[i + 1] /\ i + 1 # 1
      /\ \A i \in AckSet(q) : i # 1 => \E k \in AckSet(Tail(q)) : i = k + 1 /\ Tail(q)[k] = q[i]
    BY TailAcks, TailFacts, AckPlaces
<1>2. Ordered(Tail(q))
    <2> SUFFICES ASSUME NEW i \in AckSet(Tail(q)), NEW j \in AckSet(Tail(q)), i < j
                 PROVE  Tail(q)[i].new <= Tail(q)[j].old
        BY DEF Ordered
    <2>1. i + 1 < j + 1
        BY <1>1
    <2> QED BY <1>1, <2>1 DEF Ordered
<1>3. Linked(Tail(q), T)
    <2> SUFFICES ASSUME NEW i \in AckSet(Tail(q)), Tail(q)[i].old \notin T
                 PROVE  \E j \in AckSet(Tail(q)) : j < i /\ Tail(q)[j].new = Tail(q)[i].old
        BY DEF Linked
    <2>1. i + 1 \in AckSet(q) /\ Tail(q)[i] = q[i + 1] /\ i + 1 # 1 /\ i \in Nat
        BY <1>1
    <2>2. PICK m \in AckSet(q) : m < i + 1 /\ q[m].new = q[i + 1].old
        BY <2>1 DEF Linked
    <2>3. m # 1
        BY <2>1, <2>2
    <2>4. PICK k \in AckSet(Tail(q)) : m = k + 1 /\ Tail(q)[k] = q[m]
        BY <1>1, <2>3
    <2>5. k < i
        BY <1>1, <2>1, <2>2, <2>4
    <2> QED BY <2>1, <2>2, <2>4, <2>5
<1>4. Reached(Tail(q), T, s)
    BY <1>1 DEF Reached
<1> QED BY <1>2, <1>3, <1>4

LEMMA TailEnds ==
    ASSUME NEW q \in Seq(Event), q # <<>>, NEW S, NEW T, NEW s, Ends(q, s), Covers(q, S, s),
           \A x \in T : (x \in S /\ (1 \in AckSet(q) => x # q[1].old)) \/ (1 \in AckSet(q) /\ x = q[1].new)
    PROVE  Ends(Tail(q), s) /\ Covers(Tail(q), T, s)
<1>1. /\ \A i \in AckSet(Tail(q)) : i \in Nat /\ i + 1 \in AckSet(q) /\ Tail(q)[i] = q[i + 1] /\ i + 1 # 1
      /\ \A i \in AckSet(q) : i \in Nat /\ i >= 1
      /\ \A i \in AckSet(q) : i # 1 => \E k \in AckSet(Tail(q)) : i = k + 1 /\ Tail(q)[k] = q[i]
    BY TailAcks, TailFacts, AckPlaces
<1>2. Ends(Tail(q), s)
    <2> SUFFICES ASSUME NEW i \in AckSet(Tail(q)), Tail(q)[i].new # s
                 PROVE  \E j \in AckSet(Tail(q)) : i < j /\ Tail(q)[j].old = Tail(q)[i].new
        BY DEF Ends
    <2>1. i + 1 \in AckSet(q) /\ Tail(q)[i] = q[i + 1] /\ i \in Nat
        BY <1>1
    <2>2. PICK m \in AckSet(q) : i + 1 < m /\ q[m].old = q[i + 1].new
        BY <2>1 DEF Ends
    <2>3. m # 1
        BY <1>1, <2>1, <2>2
    <2>4. PICK k \in AckSet(Tail(q)) : m = k + 1 /\ Tail(q)[k] = q[m]
        BY <1>1, <2>3
    <2>5. i < k
        BY <1>1, <2>1, <2>2, <2>4
    <2> QED BY <2>1, <2>2, <2>4, <2>5
<1>3. ASSUME NEW x \in T, x # s PROVE \E i \in AckSet(Tail(q)) : Tail(q)[i].old = x
    <2>1. CASE x \in S /\ (1 \in AckSet(q) => x # q[1].old)
        <3>1. PICK m \in AckSet(q) : q[m].old = x
            BY <1>3, <2>1 DEF Covers
        <3>2. m # 1
            BY <2>1, <3>1
        <3> QED BY <1>1, <3>1, <3>2
    <2>2. CASE 1 \in AckSet(q) /\ x = q[1].new
        <3>1. PICK m \in AckSet(q) : 1 < m /\ q[m].old = q[1].new
            BY <1>3, <2>2 DEF Ends
        <3>2. m # 1
            BY <1>1, <3>1
        <3> QED BY <1>1, <2>2, <3>1, <3>2
    <2> QED BY <1>3, <2>1, <2>2
<1> QED BY <1>2, <1>3 DEF Covers

\* An acknowledgement of the rotation from old to new joins the end of a chain.
Joins(q, r, n, old, new) ==
  /\ AckSet(r) = AckSet(q) \cup {n} /\ \A i \in AckSet(q) : r[i] = q[i] /\ i < n /\ q[i].new <= old
  /\ r[n].old = old /\ r[n].new = new

LEMMA JoinsChain ==
    ASSUME NEW q \in Seq(Event), NEW r \in Seq(Event), NEW n \in Nat, NEW S, NEW old \in Nat, NEW new \in Nat,
           Joins(q, r, n, old, new)
    PROVE  /\ Ordered(q) => Ordered(r)
           /\ Linked(q, S) /\ Reached(q, S, old) => Linked(r, S) /\ Reached(r, S, new)
           /\ Ends(q, old) /\ Covers(q, S, old) => Ends(r, new) /\ Covers(r, S, new)
<1>0. \A i \in AckSet(q) : i \in Nat /\ i # n /\ ~(n < i)
    BY AckPlaces DEF Joins
<1>1. Ordered(q) => Ordered(r)
    BY <1>0 DEF Ordered, Joins
<1>2. Linked(q, S) /\ Reached(q, S, old) => Linked(r, S) /\ Reached(r, S, new)
    BY DEF Linked, Reached, Joins
<1>3. Ends(q, old) => Ends(r, new)
    BY DEF Ends, Joins
<1>4. Covers(q, S, old) => Covers(r, S, new)
    BY DEF Covers, Joins
<1> QED BY <1>1, <1>2, <1>3, <1>4

-----------------------------------------------------------------------------
\* Chain(c) and Tidy(c) after a step, from what they say of the values then.
LEMMA ChainAfter ==
    ASSUME NEW c \in Conns, Entries(c)' # {}, Ordered(events'[c]), Linked(events'[c], Entries(c)'),
           Reached(events'[c], Entries(c)', conn'[c].session_id),
           \A i \in AckSet(events'[c]) :
             \/ events'[c][i].new \in Pending(c)'
             \/ event_task'[c] = "insert" /\ events'[c][1].new = events'[c][i].new
             \/ event_task'[c] = "finalize" /\ i = 1,
           Announced(c)'
    PROVE  Chain(c)'
<1>1. /\ Ordered(events[c])' /\ Linked(events[c], Entries(c))' /\ Reached(events[c], Entries(c), conn[c].session_id)'
    BY DEF Ordered, Linked, Reached, AckSet
<1>2. \A i \in AckSet(events[c])' :
        \/ events'[c][i].new \in Pending(c)'
        \/ event_task'[c] = "insert" /\ events'[c][1].new = events'[c][i].new
        \/ event_task'[c] = "finalize" /\ i = 1
    BY DEF AckSet
<1> QED BY <1>1, <1>2 DEF Chain

LEMMA TidyAfter ==
    ASSUME NEW c \in Conns, Covers(events'[c], Entries(c)', conn'[c].session_id), Ends(events'[c], conn'[c].session_id),
           c \in removed' => \A s \in Entries(c)' : \E first \in SessionIds \ {s} : owner'[first] = c
    PROVE  Tidy(c)'
<1>1. Covers(events[c], Entries(c), conn[c].session_id)' /\ Ends(events[c], conn[c].session_id)'
    BY DEF Covers, Ends, AckSet
<1> QED BY <1>1 DEF Tidy

\* Steps that take nothing from the chain of c.
Spares(c) ==
  /\ conn'[c].session_id = conn[c].session_id /\ conn'[c].pending_session_id = conn[c].pending_session_id
  /\ events'[c] = events[c] /\ event_task'[c] = event_task[c]
  /\ Entries(c) \subseteq Entries(c)' /\ Pending(c) \subseteq Pending(c)'
  /\ \A t \in Tasks : task[t].pc = "insert" /\ task[t].conn = c =>
       task'[t] = task[t] \/ task[t].session \in Pending(c)'

LEMMA SparedChain == ASSUME NEW c \in Conns, Chain(c), Spares(c) PROVE Chain(c)'
<1>1. Ordered(events'[c]) /\ Entries(c)' # {}
    BY DEF Chain, Spares
<1>2. Linked(events'[c], Entries(c)') /\ Reached(events'[c], Entries(c)', conn'[c].session_id)
    BY MoreEntries DEF Chain, Spares
<1>3. \A i \in AckSet(events'[c]) :
        \/ events'[c][i].new \in Pending(c)'
        \/ event_task'[c] = "insert" /\ events'[c][1].new = events'[c][i].new
        \/ event_task'[c] = "finalize" /\ i = 1
    BY DEF Chain, Spares
<1>4. Announced(c)'
    BY DEF Chain, Spares, Announced
<1> QED BY <1>1, <1>2, <1>3, <1>4, ChainAfter

\* Steps that leave c as tidy as it was.
Neat(c) ==
  /\ conn'[c].session_id = conn[c].session_id /\ events'[c] = events[c] /\ Entries(c)' \subseteq Entries(c)
  /\ c \in removed' => c \in removed
  /\ \A s \in SessionIds : owner[s] = c => owner'[s] = c

LEMMA NeatTidy == ASSUME NEW c \in Conns, Tidy(c), Neat(c) PROVE Tidy(c)'
<1>1. Covers(events'[c], Entries(c)', conn'[c].session_id) /\ Ends(events'[c], conn'[c].session_id)
    BY DEF Tidy, Neat, Covers
<1>2. c \in removed' => \A s \in Entries(c)' : \E first \in SessionIds \ {s} : owner'[first] = c
    BY DEF Tidy, Neat
<1> QED BY <1>1, <1>2, TidyAfter

\* Steps that touch no session id at all.
Calm ==
  /\ UNCHANGED <<by_session_id, pending_session_id_rotations, events, event_task, owner, removed>>
  /\ \A c \in Conns : /\ conn'[c].session_id = conn[c].session_id
                      /\ conn'[c].pending_session_id = conn[c].pending_session_id
                      /\ conn'[c].state # "Unborn" => Born(c)
  /\ \A t \in Tasks : task[t].pc = "insert" => task'[t] = task[t]

LEMMA CalmKeeps == ASSUME ChainInv, EntriesInv, Calm PROVE ChainInv' /\ EntriesInv'
<1>1. ASSUME NEW c \in Conns PROVE Spares(c) /\ Neat(c)
    BY DEF Calm, Spares, Neat, Entries, Pending
<1>2. ChainInv'
    <2> SUFFICES ASSUME NEW c \in Conns \ removed', conn'[c].state # "Unborn" PROVE Chain(c)'
        BY DEF ChainInv, Born
    <2>1. c \in Conns \ removed /\ Born(c)
        BY DEF Calm
    <2> QED BY <1>1, <2>1, SparedChain DEF ChainInv
<1>3. EntriesInv'
    BY <1>1, NeatTidy DEF EntriesInv
<1> QED BY <1>2, <1>3

\* Steps that touch the session ids of one connection.
Apart(c) ==
  /\ removed \subseteq removed'
  /\ \A d \in Conns \ {c} :
       /\ conn'[d].session_id = conn[d].session_id /\ conn'[d].pending_session_id = conn[d].pending_session_id
       /\ conn'[d].state # "Unborn" => Born(d)
       /\ events'[d] = events[d] /\ event_task'[d] = event_task[d]
       /\ d \in removed' => d \in removed
       /\ \A s \in SessionIds : /\ owner[s] = d <=> owner'[s] = d
                                /\ owner[s] = d => /\ by_session_id'[s] = by_session_id[s]
                                                   /\ pending_session_id_rotations'[s] = pending_session_id_rotations[s]
       /\ \A t \in Tasks : task[t].pc = "insert" /\ task[t].conn = d => task'[t] = task[t]

LEMMA ApartKeeps ==
    ASSUME BookInv, BookInv', ChainInv, EntriesInv, NEW c \in Conns, Apart(c),
           c \notin removed' /\ conn'[c].state # "Unborn" => Chain(c)', Tidy(c)'
    PROVE  ChainInv' /\ EntriesInv'
<1>0. NoConn \notin Conns
    BY ManagerAssumption
<1>1. ASSUME NEW d \in Conns \ {c} PROVE Spares(d) /\ Neat(d)
    <2>1. \A s \in SessionIds : by_session_id[s] = d \/ pending_session_id_rotations[s] = d => owner[s] = d
        BY <1>0 DEF BookInv, NoCrossTalk
    <2>2. \A s \in SessionIds : by_session_id'[s] = d => owner'[s] = d
        BY <1>0 DEF BookInv, NoCrossTalk
    <2>3. Entries(d)' = Entries(d) /\ Pending(d) \subseteq Pending(d)'
        BY <2>1, <2>2 DEF Apart, Entries, Pending
    <2> QED BY <2>3 DEF Apart, Spares, Neat
<1>2. ChainInv'
    <2> SUFFICES ASSUME NEW d \in Conns \ removed', conn'[d].state # "Unborn" PROVE Chain(d)'
        BY DEF ChainInv, Born
    <2>1. CASE d # c
        <3>1. d \in Conns \ removed /\ Born(d)
            BY <2>1 DEF Apart
        <3> QED BY <1>1, <2>1, <3>1, SparedChain DEF ChainInv
    <2> QED BY <2>1
<1>3. EntriesInv'
    BY <1>1, NeatTidy DEF EntriesInv
<1> QED BY <1>2, <1>3

\* One task moves at a time.
LEMMA GotoMoves == ASSUME NEW t, NEW pc, Goto(t, pc) PROVE \E x : task' = [task EXCEPT ![t] = x]
BY Zenon DEF Goto
LEMMA DoneMoves == ASSUME NEW t, Done(t) PROVE task' = task \/ \E x : task' = [task EXCEPT ![t] = x]
BY Zenon DEF Done
LEMMA TakeMoves == ASSUME NEW r, NEW c, NEW a, NEW s, Take(r, c, a, s) PROVE \E x : task' = [task EXCEPT ![r] = x]
BY Zenon DEF Take
LEMMA SpawnMoves ==
    ASSUME NEW w, NEW c, Spawn(w, c) PROVE task[w].pc = "idle" /\ \E x : task' = [task EXCEPT ![w] = x]
BY Zenon DEF Spawn

LEMMA EndsMoves ==
    ASSUME NEW t, StreamEnds(t)
    PROVE  /\ task[t].pc = "process" /\ \E x : task' = [task EXCEPT ![t] = x]
           /\ UNCHANGED <<conn, by_session_id, pending_session_id_rotations, events, event_task, owner, removed>>
<1>1. task[t].pc = "process" /\ \E x : task' = [task EXCEPT ![t] = x]
    BY Zenon DEF StreamEnds
<1>2. UNCHANGED <<datagram, conn, maps, pending_session_id_rotations, ips, events, event_task, sessions,
                  owner, removed, closed>>
    BY Zenon DEF StreamEnds
<1> QED BY <1>1, <1>2 DEF maps

\* The steps that touch no session id.
LEMMA CalmSteps ==
    ASSUME BookInv,
           \/ \E r \in Receivers : \/ FloatConn(r) \/ FloatMap(r) \/ StreamEnds(r)
                                   \/ /\ task[r].pc = "process"
                                      /\ ProcessNothing(r) \/ ProcessFatal(r) \/ ProcessHandshake(r) \/ ProcessAuthFails(r)
                                   \/ /\ task[r].pc = "idle"
                                      /\ \E a \in Addrs, s \in 0..sessions : LookupFound(r, a, s) \/ LookupPending(r, a, s)
           \/ \E t \in Tasks : LwDisconnect(t)
           \/ \E w \in Workers, c \in Conns : SpawnDisconnect(w, c) \/ Stale(w, c)
           \/ \E c \in Conns : TimedOut(c)
           \/ UNCHANGED vars
    PROVE  Calm
<1>0. /\ conn \in [Conns -> ConnState] /\ task \in [Tasks -> TaskState]
      /\ Receivers \subseteq Tasks /\ Workers \subseteq Tasks
    BY DEF BookInv, TypeOK, Tasks
<1> DEFINE Same == UNCHANGED <<by_session_id, pending_session_id_rotations, events, event_task, owner, removed>>
           Ids == \A c \in Conns : /\ conn'[c].session_id = conn[c].session_id
                                   /\ conn'[c].pending_session_id = conn[c].pending_session_id
                                   /\ conn'[c].state # "Unborn" => Born(c)
           Moves == \A t \in Tasks : task[t].pc = "insert" => task'[t] = task[t]
<1>1. ASSUME NEW c \in Conns, Born(c), conn' = [conn EXCEPT ![c] = Disconnected(conn[c])] PROVE Ids
    <2>1. Disconnected(conn[c]) \in ConnState /\ SameIds(c, Disconnected(conn[c]))
        BY <1>1, DisconnectedTyped
    <2> QED BY <1>0, <1>1, <2>1 DEF SameIds, Born
<1>2. ASSUME NEW t \in Tasks, task[t].pc # "insert", task' = task \/ \E x : task' = [task EXCEPT ![t] = x] PROVE Moves
    BY <1>0, <1>2
<1>3. ASSUME NEW r \in Receivers, FloatConn(r) \/ FloatMap(r) \/ StreamEnds(r) PROVE Calm
    <2>1. Same
        <3>1. CASE FloatConn(r)
            BY <3>1 DEF FloatConn, maps
        <3>2. CASE FloatMap(r)
            BY <3>2 DEF FloatMap
        <3>3. CASE StreamEnds(r)
            BY <3>3, EndsMoves
        <3> QED BY <1>3, <3>1, <3>2, <3>3
    <2>2. Moves
        <3>1. CASE FloatConn(r)
            BY <1>0, <3>1 DEF FloatConn
        <3>2. CASE FloatMap(r)
            BY <1>0, <1>2, <3>2, GotoMoves DEF FloatMap
        <3>3. CASE StreamEnds(r)
            BY <1>0, <1>2, <3>3, EndsMoves
        <3> QED BY <1>3, <3>1, <3>2, <3>3
    <2>3. Ids
        <3>1. CASE FloatConn(r)
            <4>1. task[r].conn \in Conns /\ Born(task[r].conn)
                BY <1>0, <3>1 DEF FloatConn, BookInv, TasksBorn, Fits
            <4> QED BY <1>0, <3>1, <4>1 DEF FloatConn, Born, ConnState
        <3>2. CASE FloatMap(r)
            BY <3>2 DEF FloatMap, Born
        <3>3. CASE StreamEnds(r)
            BY <3>3, EndsMoves DEF Born
        <3> QED BY <1>3, <3>1, <3>2, <3>3
    <2> QED BY <2>1, <2>2, <2>3 DEF Calm
<1>4. ASSUME NEW r \in Receivers, task[r].pc = "process", ProcessNothing(r) \/ ProcessFatal(r) PROVE Calm
    <2>1. Same /\ conn' = conn
        BY <1>4 DEF ProcessNothing, ProcessFatal, maps
    <2>2. Moves
        BY <1>0, <1>2, <1>4, GotoMoves, DoneMoves DEF ProcessNothing, ProcessFatal
    <2> QED BY <2>1, <2>2 DEF Calm, Born
<1>5. ASSUME NEW r \in Receivers, task[r].pc = "process", ProcessHandshake(r) PROVE Calm
    <2>1. Same
        BY <1>5 DEF ProcessHandshake, maps
    <2>2. Moves
        BY <1>0, <1>2, <1>5, DoneMoves DEF ProcessHandshake
    <2>3. Ids
        <3>1. task[r].conn \in Conns /\ Born(task[r].conn)
            BY <1>0, <1>5 DEF BookInv, TasksBorn, Fits
        <3> QED BY <1>0, <1>5, <3>1 DEF ProcessHandshake, Born, ConnState
    <2> QED BY <2>1, <2>2, <2>3 DEF Calm
<1>6. ASSUME NEW r \in Receivers, task[r].pc = "process", ProcessAuthFails(r) PROVE Calm
    <2>1. Same
        BY <1>6 DEF ProcessAuthFails, maps
    <2>2. Moves
        BY <1>0, <1>2, <1>6, GotoMoves DEF ProcessAuthFails
    <2>3. Ids
        <3>1. task[r].conn \in Conns /\ Born(task[r].conn)
            BY <1>0, <1>6 DEF BookInv, TasksBorn, Fits
        <3> QED BY <1>1, <1>6, <3>1 DEF ProcessAuthFails
    <2> QED BY <2>1, <2>2, <2>3 DEF Calm
<1>7. ASSUME NEW r \in Receivers, task[r].pc = "idle", NEW a \in Addrs, NEW s \in 0..sessions,
             LookupFound(r, a, s) \/ LookupPending(r, a, s)
      PROVE  Calm
    <2>1. Same /\ conn' = conn
        BY <1>7 DEF LookupFound, LookupPending, maps
    <2>2. Moves
        BY <1>0, <1>2, <1>7, TakeMoves DEF LookupFound, LookupPending
    <2> QED BY <2>1, <2>2 DEF Calm, Born
<1>8. ASSUME NEW t \in Tasks, LwDisconnect(t) PROVE Calm
    <2>1. Same
        BY <1>8 DEF LwDisconnect, maps
    <2>2. Moves
        BY <1>0, <1>8 DEF LwDisconnect
    <2>3. Ids
        <3>1. task[t].conn \in Conns /\ Born(task[t].conn)
            BY <1>0, <1>8 DEF LwDisconnect, BookInv, TasksBorn, Fits
        <3> QED BY <1>1, <1>8, <3>1 DEF LwDisconnect
    <2> QED BY <2>1, <2>2, <2>3 DEF Calm
<1>9. ASSUME NEW w \in Workers, NEW c \in Conns, SpawnDisconnect(w, c) PROVE Calm
    <2>1. Same /\ conn' = conn
        BY <1>9 DEF SpawnDisconnect, maps
    <2>2. Moves
        BY <1>0, <1>2, <1>9, SpawnMoves DEF SpawnDisconnect
    <2> QED BY <2>1, <2>2 DEF Calm, Born
<1>10. ASSUME NEW w \in Workers, NEW c \in Conns, Stale(w, c) PROVE Calm
    <2>1. Same
        BY <1>10 DEF Stale, maps
    <2>2. Moves
        BY <1>0, <1>2, <1>10, SpawnMoves DEF Stale
    <2>3. Ids
        BY <1>0, <1>10 DEF Stale, Born, ConnState
    <2> QED BY <2>1, <2>2, <2>3 DEF Calm
<1>11. ASSUME NEW c \in Conns, TimedOut(c) PROVE Calm
    <2>1. Same /\ task' = task
        BY <1>11 DEF TimedOut, maps
    <2>2. Ids
        BY <1>1, <1>11, AliveBorn DEF TimedOut
    <2> QED BY <2>1, <2>2 DEF Calm
<1>12. CASE UNCHANGED vars
    BY <1>12 DEF vars, maps, Calm, Born
<1> QED BY <1>3, <1>4, <1>5, <1>6, <1>7, <1>8, <1>9, <1>10, <1>11, <1>12

-----------------------------------------------------------------------------
\* A connection the session map leads to exists.
LEMMA EntriesAlive == ASSUME BookInv, NEW c \in Conns, Entries(c) # {} PROVE Alive(c)
BY DEF Entries, Alive, Img, BookInv, TypeOK

\* Only entries of connections that are gone are dropped from the pending ones.
LEMMA DropKeeps ==
    ASSUME BookInv, ChainInv, EntriesInv,
           \A s \in SessionIds : \/ pending_session_id_rotations'[s] = pending_session_id_rotations[s]
                                \/ ~Alive(pending_session_id_rotations[s]),
           UNCHANGED <<datagram, conn, maps, ips, task, events, event_task, sessions, owner, removed, closed>>
    PROVE  ChainInv' /\ EntriesInv'
<1>1. ASSUME NEW c \in Conns PROVE Neat(c)
    BY DEF Neat, Entries, maps
<1>2. ASSUME NEW c \in Conns \ removed, Born(c) PROVE Chain(c)'
    <2>1. Chain(c)
        BY <1>2 DEF ChainInv
    <2>2. Alive(c)
        BY <2>1, EntriesAlive DEF Chain
    <2>3. Pending(c) \subseteq Pending(c)'
        BY <2>2 DEF Pending
    <2>4. Spares(c)
        BY <2>3 DEF Spares, Entries, maps
    <2> QED BY <2>1, <2>4, SparedChain
<1>3. EntriesInv'
    BY <1>1, NeatTidy DEF EntriesInv
<1>4. ChainInv'
    BY <1>2 DEF ChainInv, Born
<1> QED BY <1>3, <1>4

LEMMA RejectKeeps ==
    ASSUME BookInv, ChainInv, EntriesInv, NEW a \in Addrs, NEW s \in 0..sessions, Reject(a, s)
    PROVE  ChainInv' /\ EntriesInv'
<1>1. \A u \in SessionIds : \/ pending_session_id_rotations'[u] = pending_session_id_rotations[u]
                            \/ ~Alive(pending_session_id_rotations[u])
    <2>1. CASE Found(a, s) # NoConn
        BY <2>1 DEF Reject
    <2>2. CASE Found(a, s) = NoConn
        <3>1. by_socket_addr[a] = NoConn
            BY <2>2 DEF Found
        <3>2. pending_session_id_rotations[s] # NoConn => ~Alive(pending_session_id_rotations[s])
            BY <2>2 DEF Reject, Rejects
        <3>3. pending_session_id_rotations' = [pending_session_id_rotations EXCEPT ![s] = NoConn]
            BY <2>2 DEF Reject
        <3> QED BY <3>2, <3>3 DEF BookInv, TypeOK
    <2> QED BY <2>1, <2>2
<1> QED BY <1>1, DropKeeps DEF Reject

LEMMA CleanupKeeps == ASSUME BookInv, ChainInv, EntriesInv, CleanupPending PROVE ChainInv' /\ EntriesInv'
<1>1. \A u \in SessionIds : \/ pending_session_id_rotations'[u] = pending_session_id_rotations[u]
                            \/ ~Alive(pending_session_id_rotations[u])
    BY DEF CleanupPending, BookInv, TypeOK
<1> QED BY <1>1, DropKeeps DEF CleanupPending

\* A new connection starts a chain of one id.
LEMMA NewKeeps ==
    ASSUME BookInv, BookInv', ChainInv, EntriesInv, NEW r \in Receivers, NEW c \in Conns, NEW a \in Addrs,
           NewConnection(r, c, a), task[r].pc = "idle"
    PROVE  ChainInv' /\ EntriesInv'
<1>0. /\ sessions \in Nat /\ MaxSessions \in Nat /\ NoConn \notin Conns /\ ~Born(c) /\ r \in Tasks
      /\ conn \in [Conns -> ConnState] /\ task \in [Tasks -> TaskState]
    BY ManagerAssumption DEF BookInv, TypeOK, NewConnection, Born, Tasks
<1>1. PICK n \in SessionIds : n = sessions + 1
    BY <1>0 DEF NewConnection, SessionIds
<1>2. /\ owner[n] = NoConn /\ by_session_id[n] = NoConn
    BY <1>0, <1>1 DEF BookInv, TypeOK, OwnersBorn, NoCrossTalk, SessionIds
<1>3. /\ owner'[n] = c /\ \A s \in SessionIds \ {n} : owner'[s] = owner[s]
      /\ by_session_id'[n] = c /\ \A s \in SessionIds \ {n} : by_session_id'[s] = by_session_id[s]
      /\ conn'[c].state = "Connecting" /\ conn'[c].session_id = n /\ conn'[c].pending_session_id = EMPTY
      /\ \A d \in Conns \ {c} : conn'[d] = conn[d]
    BY <1>1 DEF NewConnection, BookInv, TypeOK
<1>4. UNCHANGED <<pending_session_id_rotations, events, event_task, removed>>
    BY DEF NewConnection
<1>5. \A t \in Tasks : task[t].pc = "insert" => task'[t] = task[t]
    <2>1. \E x : task' = [task EXCEPT ![r] = x]
        BY Zenon DEF NewConnection
    <2> QED BY <1>0, <2>1
<1>6. Apart(c)
    BY <1>0, <1>2, <1>3, <1>4, <1>5 DEF Apart, Born
<1>7. \A s \in SessionIds : by_session_id[s] # c
    BY <1>0 DEF BookInv, NoCrossTalk, OwnersBorn
<1>8. Entries(c)' = {n}
    BY <1>3, <1>7 DEF Entries
<1>9. events'[c] = <<>> /\ AckSet(events'[c]) = {}
    <2>1. events'[c] = <<>> /\ Len(<<>>) = 0
        BY <1>0, <1>4 DEF BookInv, ConnsBorn
    <2> QED BY <2>1 DEF AckSet
<1>10. c \notin removed'
    BY <1>0, <1>4 DEF BookInv, MappedBorn
<1>11. Chain(c)'
    <2>1. /\ Ordered(events'[c]) /\ Linked(events'[c], Entries(c)') /\ Reached(events'[c], Entries(c)', conn'[c].session_id)
        BY <1>3, <1>8, <1>9 DEF Ordered, Linked, Reached
    <2>2. Announced(c)'
        BY <1>3 DEF Announced
    <2> QED BY <1>8, <1>9, <2>1, <2>2, ChainAfter
<1>12. Tidy(c)'
    <2>1. Covers(events'[c], Entries(c)', conn'[c].session_id) /\ Ends(events'[c], conn'[c].session_id)
        BY <1>3, <1>8, <1>9 DEF Covers, Ends
    <2> QED BY <1>10, <2>1, TidyAfter
<1> QED BY <1>6, <1>11, <1>12, ApartKeeps

\* A rotation begins: the id that was drawn is announced by the task that drew it.
LEMMA RotateKeeps ==
    ASSUME BookInv, BookInv', ChainInv, EntriesInv, NEW t \in Receivers, Rotate(t)
    PROVE  ChainInv' /\ EntriesInv'
<1>0. /\ t \in Tasks /\ task[t].pc = "rotate" /\ task \in [Tasks -> TaskState] /\ NoConn \notin Conns
    BY ManagerAssumption DEF Rotate, Tasks, BookInv, TypeOK
<1>1. PICK c \in Conns : c = task[t].conn /\ Born(c)
    BY <1>0 DEF BookInv, TasksBorn, Fits
<1>2. UNCHANGED <<datagram, by_session_id, pending_session_id_rotations, events, event_task, removed>>
    BY DEF Rotate, maps
<1>3. CASE Done(t) /\ UNCHANGED <<conn, sessions, owner>>
    <2>1. \A u \in Tasks : task[u].pc = "insert" => task'[u] = task[u]
        BY <1>0, <1>3, DoneMoves
    <2>2. Calm
        BY <1>2, <1>3, <2>1 DEF Calm, Born
    <2> QED BY <2>2, CalmKeeps
<1>4. CASE Draw(c) /\ task' = [task EXCEPT ![t].pc = "insert", ![t].session = sessions + 1]
    <2>1. /\ sessions + 1 \in SessionIds /\ owner[sessions + 1] = NoConn /\ owner'[sessions + 1] = c
          /\ \A s \in SessionIds \ {sessions + 1} : owner'[s] = owner[s]
          /\ conn'[c].pending_session_id = sessions + 1 /\ conn'[c].session_id = conn[c].session_id
          /\ conn'[c].state = conn[c].state /\ \A d \in Conns \ {c} : conn'[d] = conn[d]
        BY <1>1, <1>2, <1>4, DrawFacts
    <2>2. /\ \A u \in Tasks \ {t} : task'[u] = task[u]
          /\ task'[t].pc = "insert" /\ task'[t].conn = c /\ task'[t].session = sessions + 1
        BY <1>0, <1>1, <1>4 DEF TaskState
    <2>3. \A u \in Tasks : task[u].pc = "insert" => task'[u] = task[u]
        BY <1>0, <2>2
    <2>4. Apart(c)
        BY <1>0, <1>2, <2>1, <2>3 DEF Apart, Born
    <2>5. ASSUME c \notin removed PROVE Chain(c)'
        <3>1. Chain(c) /\ Entries(c)' = Entries(c) /\ Pending(c)' = Pending(c)
            BY <1>1, <1>2, <2>5 DEF ChainInv, Entries, Pending
        <3>2. Announced(c)'
            BY <1>0, <2>1, <2>2 DEF Announced
        <3> QED BY <1>2, <2>1, <3>1, <3>2, ChainAfter DEF Chain
    <2>6. Neat(c)
        BY <1>0, <1>2, <2>1 DEF Neat, Entries
    <2>7. Tidy(c)'
        BY <2>6, NeatTidy DEF EntriesInv
    <2> QED BY <1>2, <2>4, <2>5, <2>7, ApartKeeps
<1> QED BY <1>1, <1>3, <1>4 DEF Rotate

LEMMA RotateInsertKeeps ==
    ASSUME BookInv, BookInv', ChainInv, EntriesInv, NEW t \in Receivers, RotateInsert(t)
    PROVE  ChainInv' /\ EntriesInv'
<1>0. /\ t \in Tasks /\ task[t].pc = "insert" /\ task \in [Tasks -> TaskState] /\ NoConn \notin Conns
    BY ManagerAssumption DEF RotateInsert, Tasks, BookInv, TypeOK
<1>1. PICK c \in Conns, s \in SessionIds : c = task[t].conn /\ s = task[t].session /\ owner[s] = c
    BY <1>0 DEF BookInv, TasksBorn, Fits, Drawn
<1>2. /\ pending_session_id_rotations'[s] = c
      /\ \A u \in SessionIds \ {s} : pending_session_id_rotations'[u] = pending_session_id_rotations[u]
      /\ UNCHANGED <<conn, by_session_id, events, event_task, owner, removed>>
    BY <1>1 DEF RotateInsert, InsertPending, BookInv, TypeOK, maps
<1>3. \A u \in Tasks \ {t} : task'[u] = task[u]
    BY <1>0, DoneMoves DEF RotateInsert
<1>4. ASSUME NEW d \in Conns PROVE Spares(d) /\ Neat(d)
    <2>1. pending_session_id_rotations[s] # d \/ d = c
        BY <1>0, <1>1 DEF BookInv, NoCrossTalk
    <2>2. Pending(d) \subseteq Pending(d)' /\ (d = c => s \in Pending(d)')
        BY <1>2, <2>1 DEF Pending
    <2> QED BY <1>1, <1>2, <1>3, <2>2 DEF Spares, Neat, Entries
<1>5. ChainInv' /\ EntriesInv'
    BY <1>2, <1>4, SparedChain, NeatTidy DEF ChainInv, EntriesInv, Born
<1> QED BY <1>5

-----------------------------------------------------------------------------
\* The event task of c touches no other connection.
OnlyIdsOf(c) ==
  \A s \in SessionIds : owner[s] # c => /\ by_session_id'[s] = by_session_id[s]
                                       /\ pending_session_id_rotations'[s] = pending_session_id_rotations[s]

LEMMA EventApart ==
    ASSUME BookInv, NEW c \in Conns, NEW q, NEW e,
           events' = [events EXCEPT ![c] = q], event_task' = [event_task EXCEPT ![c] = e],
           OnlyIdsOf(c), conn' = conn, task' = task, owner' = owner, removed' = removed
    PROVE  Apart(c) /\ events'[c] = q /\ event_task'[c] = e
BY DEF OnlyIdsOf, Apart, BookInv, TypeOK, Born

LEMMA EventDroppedKeeps ==
    ASSUME BookInv, BookInv', ChainInv, EntriesInv, NEW c \in Conns, EventDropped(c)
    PROVE  ChainInv' /\ EntriesInv'
<1>1. PICK q \in Seq(Event) : q = events[c]
    BY DEF BookInv, TypeOK
<1>2. /\ event_task[c] = "idle" /\ q # <<>> /\ (~Alive(c) \/ Head(q).kind = "KeyUpdate")
      /\ events' = [events EXCEPT ![c] = Tail(q)]
      /\ UNCHANGED <<conn, by_session_id, pending_session_id_rotations, task, event_task, owner, removed>>
    BY <1>1 DEF EventDropped, maps
<1>3. event_task' = [event_task EXCEPT ![c] = "idle"]
    BY <1>2 DEF BookInv, TypeOK
<1>4. Apart(c) /\ events'[c] = Tail(q) /\ event_task'[c] = "idle"
    <2>1. OnlyIdsOf(c)
        BY <1>2 DEF OnlyIdsOf
    <2> QED BY <1>2, <1>3, <2>1, EventApart
<1>5. Alive(c) => 1 \notin AckSet(q)
    BY <1>2, TailFacts, AckPlaces
<1>6. Entries(c)' = Entries(c) /\ Pending(c)' = Pending(c)
    BY <1>2 DEF Entries, Pending
<1>7. ASSUME c \notin removed', conn'[c].state # "Unborn" PROVE Chain(c)'
    <2>1. Chain(c)
        BY <1>2, <1>7 DEF ChainInv, Born
    <2>2. 1 \notin AckSet(q)
        BY <1>5, <2>1, EntriesAlive DEF Chain
    <2>3. /\ Ordered(q) /\ Linked(q, Entries(c)) /\ Reached(q, Entries(c), conn[c].session_id)
        BY <1>1, <2>1 DEF Chain
    <2>4. /\ Ordered(Tail(q)) /\ Linked(Tail(q), Entries(c)) /\ Reached(Tail(q), Entries(c), conn[c].session_id)
        BY <1>2, <2>2, <2>3, TailChain
    <2>5. \A i \in AckSet(Tail(q)) : Tail(q)[i].new \in Pending(c)
        BY <1>1, <1>2, <2>1, TailAcks DEF Chain
    <2>6. Announced(c)'
        BY <1>2, <1>4, <1>6, <2>1 DEF Chain, Announced
    <2>7. Entries(c) # {}
        BY <2>1 DEF Chain
    <2> QED BY <1>2, <1>4, <1>6, <2>4, <2>5, <2>6, <2>7, ChainAfter
<1>8. Tidy(c)'
    <2>1. Tidy(c)
        BY DEF EntriesInv
    <2>2. \A x \in Entries(c) : 1 \in AckSet(q) => x # q[1].old
        BY <1>5, EntriesAlive
    <2>3. Ends(q, conn[c].session_id) /\ Covers(q, Entries(c), conn[c].session_id)
        BY <1>1, <2>1 DEF Tidy
    <2>4. Ends(Tail(q), conn[c].session_id) /\ Covers(Tail(q), Entries(c), conn[c].session_id)
        BY <1>2, <2>2, <2>3, TailEnds
    <2> QED BY <1>2, <1>4, <1>6, <2>1, <2>4, TidyAfter DEF Tidy
<1> QED BY <1>4, <1>7, <1>8, ApartKeeps

LEMMA EventKeyUpdateKeeps ==
    ASSUME BookInv, BookInv', ChainInv, EntriesInv, NEW c \in Conns, EventKeyUpdate(c)
    PROVE  ChainInv' /\ EntriesInv'
<1>0. NoConn \notin Conns
    BY ManagerAssumption
<1>1. PICK q \in Seq(Event) : q = events[c] /\ q # <<>> /\ Born(c) /\ Draw(c) /\ event_task[c] = "idle"
                              /\ Head(q).kind = "KeyUpdate"
    BY DEF EventKeyUpdate, BookInv, TypeOK, ConnsBorn
<1>2. UNCHANGED <<datagram, by_session_id, pending_session_id_rotations, task, removed>>
    BY DEF EventKeyUpdate, maps
<1>3. /\ sessions + 1 \in SessionIds /\ owner[sessions + 1] = NoConn /\ owner'[sessions + 1] = c
      /\ \A s \in SessionIds \ {sessions + 1} : owner'[s] = owner[s]
      /\ conn'[c].pending_session_id = sessions + 1 /\ conn'[c].session_id = conn[c].session_id
      /\ conn'[c].state = conn[c].state /\ \A d \in Conns \ {c} : conn'[d] = conn[d]
    BY <1>1, <1>2, DrawFacts
<1>4. PICK e \in Event : /\ e.kind = "KeyUpdate" /\ e.new = sessions + 1
                         /\ events' = [events EXCEPT ![c] = <<e>> \o Tail(q)]
                         /\ event_task' = [event_task EXCEPT ![c] = "insert"]
    <2>1. [kind |-> "KeyUpdate", old |-> EMPTY, new |-> sessions + 1] \in Event
        BY <1>3 DEF Event
    <2>2. /\ events' = [events EXCEPT ![c] = <<[kind |-> "KeyUpdate", old |-> EMPTY, new |-> sessions + 1]>> \o Tail(q)]
          /\ event_task' = [event_task EXCEPT ![c] = "insert"]
        BY <1>1 DEF EventKeyUpdate
    <2> QED BY <2>1, <2>2
<1>5. PICK r \in Seq(Event) : /\ r = <<e>> \o Tail(q) /\ Len(r) = Len(q) /\ r[1] = e
                              /\ \A i \in 2..Len(q) : r[i] = q[i]
    BY <1>1, ReplacedHead
<1>6. /\ events'[c] = r /\ event_task'[c] = "insert"
      /\ \A d \in Conns \ {c} : events'[d] = events[d] /\ event_task'[d] = event_task[d]
    BY <1>4, <1>5 DEF BookInv, TypeOK
<1>7. Apart(c)
    BY <1>0, <1>2, <1>3, <1>6 DEF Apart, Born
<1>8. SameAcks(q, r)
    <2>1. Len(q) \in Nat \ {0} /\ q[1].kind = "KeyUpdate"
        BY <1>1, TailFacts
    <2>2. \A i \in 1..Len(q) : i = 1 \/ i \in 2..Len(q)
        BY <2>1
    <2> QED BY <1>4, <1>5, <2>1, <2>2 DEF SameAcks, AckSet
<1>9. Entries(c)' = Entries(c) /\ Pending(c)' = Pending(c)
    BY <1>2 DEF Entries, Pending
<1>10. ASSUME c \notin removed' PROVE Chain(c)'
    <2>1. Chain(c)
        BY <1>1, <1>2, <1>10 DEF ChainInv
    <2>2. /\ Ordered(r) /\ Linked(r, Entries(c)) /\ Reached(r, Entries(c), conn[c].session_id)
        BY <1>1, <1>8, <2>1, SameAcksKeep DEF Chain
    <2>3. \A i \in AckSet(r) : r[i].new \in Pending(c)
        BY <1>1, <1>8, <2>1 DEF Chain, SameAcks
    <2>4. Announced(c)'
        BY <1>3, <1>4, <1>5, <1>6 DEF Announced
    <2>5. Entries(c) # {}
        BY <2>1 DEF Chain
    <2> QED BY <1>3, <1>6, <1>9, <2>2, <2>3, <2>4, <2>5, ChainAfter
<1>11. Tidy(c)'
    <2>1. Tidy(c)
        BY DEF EntriesInv
    <2>2. Ends(r, conn[c].session_id) /\ Covers(r, Entries(c), conn[c].session_id)
        BY <1>1, <1>8, <2>1, SameAcksKeep DEF Tidy
    <2>3. c \in removed' => \A s \in Entries(c) : \E first \in SessionIds \ {s} : owner'[first] = c
        BY <1>0, <1>2, <1>3, <2>1 DEF Tidy
    <2> QED BY <1>3, <1>6, <1>9, <2>2, <2>3, TidyAfter
<1> QED BY <1>7, <1>10, <1>11, ApartKeeps

LEMMA EventInsertKeeps ==
    ASSUME BookInv, BookInv', ChainInv, EntriesInv, NEW c \in Conns, EventInsert(c)
    PROVE  ChainInv' /\ EntriesInv'
<1>1. PICK q \in Seq(Event) : q = events[c] /\ q # <<>> /\ q[1].kind = "KeyUpdate" /\ event_task[c] = "insert"
    BY DEF EventInsert, BookInv, TypeOK, EventsDrawn
<1>2. PICK s \in SessionIds : s = q[1].new /\ owner[s] = c
    BY <1>1 DEF BookInv, EventsDrawn, Drawn
<1>3. Head(q) = q[1] /\ 1 \notin AckSet(q)
    BY <1>1, TailFacts, AckPlaces
<1>4. /\ events' = [events EXCEPT ![c] = Tail(q)] /\ event_task' = [event_task EXCEPT ![c] = "idle"]
      /\ pending_session_id_rotations' = [pending_session_id_rotations EXCEPT ![s] = c]
      /\ UNCHANGED <<conn, by_session_id, task, owner, removed>>
    BY <1>1, <1>2, <1>3 DEF EventInsert, InsertPending, maps
<1>5. /\ pending_session_id_rotations'[s] = c
      /\ \A u \in SessionIds \ {s} : pending_session_id_rotations'[u] = pending_session_id_rotations[u]
    BY <1>4 DEF BookInv, TypeOK
<1>6. Apart(c) /\ events'[c] = Tail(q) /\ event_task'[c] = "idle"
    <2>1. OnlyIdsOf(c)
        BY <1>2, <1>4, <1>5 DEF OnlyIdsOf
    <2>2. /\ events' = [events EXCEPT ![c] = Tail(q)] /\ event_task' = [event_task EXCEPT ![c] = "idle"]
          /\ conn' = conn /\ task' = task /\ owner' = owner /\ removed' = removed
        BY <1>4
    <2> QED BY <2>1, <2>2, EventApart
<1>7. Entries(c)' = Entries(c) /\ Pending(c) \subseteq Pending(c)' /\ s \in Pending(c)'
    BY <1>4, <1>5 DEF Entries, Pending
<1>8. ASSUME c \notin removed', conn'[c].state # "Unborn" PROVE Chain(c)'
    <2>1. Chain(c)
        BY <1>4, <1>8 DEF ChainInv, Born
    <2>2. /\ Ordered(q) /\ Linked(q, Entries(c)) /\ Reached(q, Entries(c), conn[c].session_id)
        BY <1>1, <2>1 DEF Chain
    <2>3. /\ Ordered(Tail(q)) /\ Linked(Tail(q), Entries(c)) /\ Reached(Tail(q), Entries(c), conn[c].session_id)
        BY <1>1, <1>3, <2>2, TailChain
    <2>4. \A i \in AckSet(q) : q[i].new \in Pending(c)'
        BY <1>1, <1>2, <1>7, <2>1 DEF Chain
    <2>5. \A i \in AckSet(Tail(q)) : Tail(q)[i].new \in Pending(c)'
        BY <1>1, <2>4, TailAcks
    <2>6. Announced(c)'
        BY <1>1, <1>2, <1>4, <1>6, <1>7, <2>1 DEF Chain, Announced
    <2>7. Entries(c) # {}
        BY <2>1 DEF Chain
    <2> QED BY <1>4, <1>6, <1>7, <2>3, <2>5, <2>6, <2>7, ChainAfter
<1>9. Tidy(c)'
    <2>1. Tidy(c)
        BY DEF EntriesInv
    <2>2. Ends(q, conn[c].session_id) /\ Covers(q, Entries(c), conn[c].session_id)
        BY <1>1, <2>1 DEF Tidy
    <2>3. Ends(Tail(q), conn[c].session_id) /\ Covers(Tail(q), Entries(c), conn[c].session_id)
        BY <1>1, <1>3, <2>2, TailEnds
    <2> QED BY <1>4, <1>6, <1>7, <2>1, <2>3, TidyAfter DEF Tidy
<1> QED BY <1>6, <1>8, <1>9, ApartKeeps

\* Finalizing drops the pending entry of the first acknowledgement only: later
\* ones, and the id drawn last, are younger.
LEMMA EventFinalizeKeeps ==
    ASSUME BookInv, BookInv', ChainInv, EntriesInv, NEW c \in Conns, EventFinalize(c)
    PROVE  ChainInv' /\ EntriesInv'
<1>1. PICK q \in Seq(Event) : /\ q = events[c] /\ q # <<>> /\ q[1] = Head(q) /\ q[1].kind = "Ack"
                              /\ event_task[c] = "idle" /\ Born(c)
    BY TailFacts DEF EventFinalize, BookInv, TypeOK, ConnsBorn
<1>2. 1 \in AckSet(q) /\ AckSet(q) \subseteq Nat /\ \A i \in AckSet(q) : i >= 1 /\ i \in 1..Len(q) /\ q[i].kind = "Ack"
    <2>1. 1 \in 1..Len(q)
        BY <1>1, TailFacts
    <2> QED BY <1>1, <2>1, AckPlaces
<1>3. \A i \in AckSet(q) : /\ q[i].old \in SessionIds /\ q[i].new \in SessionIds /\ owner[q[i].new] = c
                            /\ q[i].old < q[i].new /\ q[i].new <= conn[c].session_id
    BY <1>1, <1>2 DEF BookInv, EventsDrawn, Drawn
<1>4. PICK s \in SessionIds : s = q[1].new /\ owner[s] = c
    BY <1>2, <1>3
<1>5. /\ event_task' = [event_task EXCEPT ![c] = "finalize"]
      /\ pending_session_id_rotations' = [pending_session_id_rotations EXCEPT ![s] = NoConn]
      /\ UNCHANGED <<conn, by_session_id, task, events, owner, removed>>
    BY <1>1, <1>4 DEF EventFinalize, maps
<1>6. \A u \in SessionIds \ {s} : pending_session_id_rotations'[u] = pending_session_id_rotations[u]
    BY <1>5 DEF BookInv, TypeOK
<1>7. events' = [events EXCEPT ![c] = q]
    BY <1>1, <1>5 DEF BookInv, TypeOK
<1>8. Apart(c) /\ events'[c] = q /\ event_task'[c] = "finalize"
    <2>1. OnlyIdsOf(c)
        BY <1>4, <1>5, <1>6 DEF OnlyIdsOf
    <2>2. /\ events' = [events EXCEPT ![c] = q] /\ event_task' = [event_task EXCEPT ![c] = "finalize"]
          /\ conn' = conn /\ task' = task /\ owner' = owner /\ removed' = removed
        BY <1>5, <1>7
    <2> QED BY <2>1, <2>2, EventApart
<1>9. Entries(c)' = Entries(c) /\ \A u \in Pending(c) : u # s => u \in Pending(c)'
    BY <1>5, <1>6 DEF Entries, Pending
<1>10. ASSUME c \notin removed PROVE Chain(c)'
    <2>1. Chain(c)
        BY <1>1, <1>10 DEF ChainInv
    <2>2. \A i \in AckSet(q) : i = 1 \/ q[i].new # s
        <3> SUFFICES ASSUME NEW i \in AckSet(q), i # 1 PROVE q[i].new # s
            OBVIOUS
        <3>1. 1 < i
            BY <1>2
        <3>2. s <= q[i].old /\ q[i].old < q[i].new
            BY <1>1, <1>2, <1>3, <1>4, <2>1, <3>1 DEF Chain, Ordered
        <3> QED BY <1>3, <3>2 DEF SessionIds
    <2>3. \A i \in AckSet(q) : q[i].new \in Pending(c)' \/ i = 1
        BY <1>1, <1>9, <2>1, <2>2 DEF Chain
    <2>4. Announced(c)'
        <3>1. conn[c].pending_session_id # EMPTY => conn[c].pending_session_id # s
            <4>1. conn[c].session_id \in SessionIds /\ (conn[c].pending_session_id # EMPTY =>
                    /\ conn[c].pending_session_id \in SessionIds
                    /\ conn[c].session_id < conn[c].pending_session_id)
                BY <1>1 DEF BookInv, ConnsBorn, Drawn
            <4>2. s <= conn[c].session_id
                BY <1>2, <1>3, <1>4
            <4> QED BY <4>1, <4>2 DEF SessionIds
        <3> QED BY <1>1, <1>5, <1>9, <2>1, <3>1 DEF Chain, Announced
    <2>5. /\ Entries(c) # {} /\ Ordered(q) /\ Linked(q, Entries(c)) /\ Reached(q, Entries(c), conn[c].session_id)
        BY <1>1, <2>1 DEF Chain
    <2> QED BY <1>5, <1>8, <1>9, <2>3, <2>4, <2>5, ChainAfter
<1>11. Neat(c)
    BY <1>5, <1>8, <1>9 DEF Neat
<1>12. Tidy(c)'
    BY <1>11, NeatTidy DEF EntriesInv
<1> QED BY <1>5, <1>8, <1>10, <1>12, ApartKeeps

\* Finalizing moves the start of the chain to the next id.
LEMMA EventRemapKeeps ==
    ASSUME BookInv, BookInv', ChainInv, EntriesInv, NEW c \in Conns, EventRemap(c)
    PROVE  ChainInv' /\ EntriesInv'
<1>1. PICK q \in Seq(Event) : /\ q = events[c] /\ q # <<>> /\ q[1].kind = "Ack" /\ Born(c)
                              /\ event_task[c] = "finalize"
    BY RemapFacts DEF EventRemap
<1>2. PICK old \in SessionIds, new \in SessionIds :
        /\ old = q[1].old /\ new = q[1].new /\ owner[old] = c /\ owner[new] = c /\ old < new
        /\ by_session_id[old] \in {NoConn, c}
        /\ by_session_id[old] = NoConn => by_session_id' = by_session_id
        /\ by_session_id[old] = c => /\ by_session_id'[old] = NoConn /\ by_session_id'[new] = c
                                     /\ \A s \in SessionIds \ {old, new} : by_session_id'[s] = by_session_id[s]
    BY <1>1, RemapFacts DEF Drawn
<1>3. /\ 1 \in AckSet(q) /\ AckSet(q) \subseteq Nat
      /\ \A i \in AckSet(q) : i >= 1 /\ q[i].old \in Nat /\ q[i].new \in Nat /\ i \in 1..Len(q) /\ q[i].kind = "Ack"
    <2>1. 1 \in 1..Len(q)
        BY <1>1, TailFacts
    <2> QED BY <1>1, <2>1, AckPlaces
<1>4. /\ events' = [events EXCEPT ![c] = Tail(q)] /\ event_task' = [event_task EXCEPT ![c] = "idle"]
      /\ conn' = conn /\ task' = task /\ owner' = owner /\ removed' = removed
      /\ pending_session_id_rotations' = pending_session_id_rotations
    BY <1>1 DEF EventRemap
<1>5. OnlyIdsOf(c)
    BY <1>2, <1>4 DEF OnlyIdsOf
<1>6. Apart(c) /\ events'[c] = Tail(q) /\ event_task'[c] = "idle"
    BY <1>4, <1>5, EventApart
<1>7. Pending(c)' = Pending(c)
    BY <1>4 DEF Pending
<1>8. c # NoConn /\ old # new
    BY <1>2, ManagerAssumption DEF SessionIds
<1>9. /\ by_session_id[old] = c => Entries(c)' = (Entries(c) \ {old}) \cup {new}
      /\ by_session_id[old] = NoConn => Entries(c)' = Entries(c) /\ old \notin Entries(c)
    BY <1>2, <1>8 DEF Entries
<1>10. ASSUME c \notin removed PROVE Chain(c)'
    <2>1. Chain(c)
        BY <1>1, <1>10 DEF ChainInv
    <2>2. /\ Ordered(q) /\ Linked(q, Entries(c)) /\ Reached(q, Entries(c), conn[c].session_id)
        BY <1>1, <2>1 DEF Chain
    <2>3. old \in Entries(c)
        BY <1>2, <1>3, <2>2 DEF Linked
    <2>4. Entries(c)' = (Entries(c) \ {old}) \cup {new}
        BY <1>9, <2>3 DEF Entries
    <2>5. \A i \in AckSet(q) : i # 1 => q[i].old # old
        <3> SUFFICES ASSUME NEW i \in AckSet(q), i # 1 PROVE q[i].old # old
            OBVIOUS
        <3>1. 1 < i
            BY <1>3
        <3>2. new <= q[i].old
            BY <1>2, <1>3, <2>2, <3>1 DEF Ordered
        <3> QED BY <1>2, <1>3, <3>2 DEF SessionIds
    <2>6. conn[c].session_id # old
        <3>1. new <= conn[c].session_id /\ conn[c].session_id \in SessionIds
            BY <1>1, <1>2, <1>3 DEF BookInv, EventsDrawn, ConnsBorn, Drawn
        <3> QED BY <1>2, <3>1 DEF SessionIds
    <2>7. /\ q[1].new \in Entries(c)'
          /\ \A i \in AckSet(q) : i # 1 /\ q[i].old \in Entries(c) => q[i].old \in Entries(c)'
          /\ conn[c].session_id \in Entries(c) => conn[c].session_id \in Entries(c)'
        BY <1>2, <2>4, <2>5, <2>6
    <2>8. /\ Ordered(Tail(q)) /\ Linked(Tail(q), Entries(c)') /\ Reached(Tail(q), Entries(c)', conn[c].session_id)
        BY <1>1, <2>2, <2>7, TailChain
    <2>9. \A i \in AckSet(q) : i # 1 => q[i].new \in Pending(c)
        BY <1>1, <2>1 DEF Chain
    <2>10. \A i \in AckSet(Tail(q)) : Tail(q)[i].new \in Pending(c)
        BY <1>1, <2>9, TailAcks
    <2>11. Announced(c)'
        BY <1>1, <1>4, <1>6, <1>7, <2>1 DEF Chain, Announced
    <2> QED BY <1>4, <1>6, <1>7, <2>7, <2>8, <2>10, <2>11, ChainAfter
<1>11. Tidy(c)'
    <2>1. Tidy(c)
        BY DEF EntriesInv
    <2>2. Ends(q, conn[c].session_id) /\ Covers(q, Entries(c), conn[c].session_id)
        BY <1>1, <2>1 DEF Tidy
    <2>3. \A x \in Entries(c)' : (x \in Entries(c) /\ x # q[1].old) \/ x = q[1].new
        BY <1>2, <1>9
    <2>4. Ends(Tail(q), conn[c].session_id) /\ Covers(Tail(q), Entries(c)', conn[c].session_id)
        BY <1>1, <1>3, <2>2, <2>3, TailEnds
    <2>5. c \in removed' => \A s \in Entries(c)' : \E first \in SessionIds \ {s} : owner'[first] = c
        BY <1>2, <1>4, <1>8, <2>1, <2>3 DEF Tidy
    <2> QED BY <1>4, <1>6, <2>4, <2>5, TidyAfter
<1> QED BY <1>4, <1>6, <1>10, <1>11, ApartKeeps

\* remove_connection takes the current id; what is left is another id.
LEMMA RemoveKeeps ==
    ASSUME BookInv, BookInv', ChainInv, EntriesInv, NEW t \in Tasks, RemoveConnection(t)
    PROVE  ChainInv' /\ EntriesInv'
<1>0. NoConn \notin Conns /\ task \in [Tasks -> TaskState]
    BY ManagerAssumption DEF BookInv, TypeOK
<1>1. PICK c \in Conns : c = task[t].conn /\ Born(c) /\ task[t].pc = "remove"
    BY DEF RemoveConnection, BookInv, TasksBorn, Fits
<1>2. PICK s \in SessionIds : s = conn[c].session_id /\ owner[s] = c
    BY <1>1 DEF BookInv, ConnsBorn, Drawn
<1>3. /\ by_session_id'[s] = NoConn /\ \A u \in SessionIds \ {s} : by_session_id'[u] = by_session_id[u]
      /\ removed' = removed \cup {c}
      /\ conn' = conn /\ pending_session_id_rotations' = pending_session_id_rotations /\ events' = events
      /\ event_task' = event_task /\ owner' = owner
    BY <1>1, <1>2 DEF RemoveConnection, BookInv, TypeOK
<1>4. \A u \in Tasks : task[u].pc = "insert" => task'[u] = task[u]
    BY <1>0, <1>1 DEF RemoveConnection
<1>5. Apart(c)
    BY <1>2, <1>3, <1>4 DEF Apart, Born
<1>6. Entries(c)' = Entries(c) \ {s}
    BY <1>0, <1>3 DEF Entries
<1>7. Tidy(c)'
    <2>1. Tidy(c)
        BY DEF EntriesInv
    <2>2. Covers(events[c], Entries(c)', s) /\ Ends(events[c], s)
        BY <1>2, <1>6, <2>1 DEF Tidy, Covers
    <2>3. \A u \in Entries(c)' : \E first \in SessionIds \ {u} : owner'[first] = c
        BY <1>2, <1>3, <1>6
    <2> QED BY <1>2, <1>3, <2>2, <2>3, TidyAfter
<1> QED BY <1>3, <1>5, <1>7, ApartKeeps

\* A task that announces an id is the UDP loop, so it handles no packet.
LEMMA NoInsertWhileProcessing ==
    ASSUME BookInv, NEW t \in Receivers, task[t].pc = "process"
    PROVE  \/ ~datagram /\ task[t].session = EMPTY
           \/ \A u \in Tasks : task[u].pc # "insert"
<1>1. t \in Tasks /\ Turns
    BY DEF Tasks, BookInv
<1>2. CASE ~datagram
    BY <1>1, <1>2 DEF Turns
<1>3. CASE datagram
    <2> SUFFICES ASSUME NEW u \in Tasks, task[u].pc = "insert" PROVE FALSE
        BY DEF Tasks
    <2>1. u \in Receivers
        BY <1>1 DEF Turns, Tasks
    <2>2. u = t
        BY <1>1, <1>3, <2>1 DEF Turns, Busy
    <2> QED BY <2>2
<1> QED BY <1>2, <1>3

\* A packet's frames: the client may have adopted the announced id, and then
\* the acknowledgement joins the chain.
LEMMA FramesKeeps ==
    ASSUME BookInv, BookInv', ChainInv, EntriesInv, NEW t \in Receivers, task[t].pc = "process", NEW c \in Conns,
           NEW y \in ConnState, NEW key \in KeyEvents, Frames(t, c, y, key)
    PROVE  ChainInv' /\ EntriesInv'
<1>0. t \in Tasks /\ task \in [Tasks -> TaskState]
    BY DEF BookInv, TypeOK, Tasks
<1>1. PICK s \in SessionIds \cup {EMPTY} : s = task[t].session
    BY <1>0 DEF BookInv, TypeOK, TaskState
<1>2. Born(c) /\ conn[c].session_id \in SessionIds
    BY DEF Frames, Born, BookInv, ConnsBorn, Drawn
<1>3. /\ by_session_id' = by_session_id /\ pending_session_id_rotations' = pending_session_id_rotations
      /\ event_task' = event_task /\ owner' = owner /\ removed' = removed /\ y.state = "Online"
      /\ y.session_id = Acked(conn[c], s).session_id /\ y.pending_session_id = Acked(conn[c], s).pending_session_id
      /\ conn' = [conn EXCEPT ![c] = y]
      /\ events' = [events EXCEPT ![c] = events[c] \o key \o AckEvent(conn[c], s)] /\ AfterFrames(t)
    BY <1>1 DEF Frames, maps
<1>4. PICK q \in Seq(Event), ack \in Seq(Event) : q = events[c] /\ ack = AckEvent(conn[c], s)
    BY <1>2, AckedFacts DEF BookInv, TypeOK
<1>5. Len(ack) = 0 \/ Len(ack) = 1
    BY <1>2, <1>4, AckedFacts
<1>6. PICK r \in Seq(Event) :
        /\ r = q \o key \o ack /\ Len(q) \in Nat /\ Len(r) \in Nat /\ Len(r) >= Len(q) + Len(ack)
        /\ \A i \in 1..Len(q) : r[i] = q[i]
        /\ \A i \in (Len(q) + 1)..Len(r) : r[i].kind = "Ack" => Len(ack) = 1 /\ i = Len(r)
        /\ Len(ack) = 1 => r[Len(r)] = ack[1]
    BY <1>5, AppendedEvents
<1>7. /\ events'[c] = r /\ \A d \in Conns \ {c} : events'[d] = events[d]
      /\ conn'[c] = y /\ \A d \in Conns \ {c} : conn'[d] = conn[d]
    BY <1>3, <1>4, <1>6 DEF BookInv, TypeOK
<1>8. \A u \in Tasks : task[u].pc = "insert" => task'[u] = task[u]
    <2>1. task' = task \/ \E x : task' = [task EXCEPT ![t] = x]
        <3>1. CASE task[t].floated
            BY <1>3, <3>1, Zenon DEF AfterFrames
        <3>2. CASE ~task[t].floated
            BY <1>3, <3>2, DoneMoves DEF AfterFrames
        <3> QED BY <3>1, <3>2
    <2> QED BY <1>0, <2>1
<1>9. Apart(c)
    BY <1>3, <1>7, <1>8 DEF Apart, Born
<1>10. Entries(c)' = Entries(c) /\ Pending(c)' = Pending(c)
    BY <1>3 DEF Entries, Pending
<1>11. \A i \in AckSet(q) : i \in AckSet(r) /\ r[i] = q[i] /\ i <= Len(q)
    <2>1. \A i \in 1..Len(q) : i \in 1..Len(r) /\ r[i] = q[i]
        BY <1>5, <1>6
    <2> QED BY <1>6, <2>1 DEF AckSet
<1>12. \A i \in AckSet(r) : i \in AckSet(q) \/ (Len(ack) = 1 /\ i = Len(r))
    <2>1. \A i \in 1..Len(r) : i \in 1..Len(q) \/ i \in (Len(q) + 1)..Len(r)
        BY <1>6
    <2> QED BY <1>6, <2>1 DEF AckSet
<1>13. q # <<>> => r[1] = q[1]
    BY <1>6
<1>14. Tidy(c)
    BY DEF EntriesInv
<1>15. CASE ~Acks(conn[c], s)
    <2>1. y.session_id = conn[c].session_id /\ y.pending_session_id = conn[c].pending_session_id /\ Len(ack) = 0
        BY <1>2, <1>3, <1>4, <1>15, AckedFacts
    <2>2. SameAcks(q, r)
        <3>1. \A i \in AckSet(r) : i \in AckSet(q)
            BY <1>12, <2>1
        <3>2. AckSet(q) = AckSet(r)
            BY <1>11, <3>1, Zenon
        <3> QED BY <1>11, <3>2 DEF SameAcks
    <2>3. ASSUME c \notin removed' PROVE Chain(c)'
        <3>1. Chain(c)
            BY <1>2, <1>3, <2>3 DEF ChainInv
        <3>2. /\ Ordered(r) /\ Linked(r, Entries(c)) /\ Reached(r, Entries(c), conn[c].session_id)
            BY <1>4, <2>2, <3>1, SameAcksKeep DEF Chain
        <3>3. event_task[c] = "insert" => r[1] = q[1]
            BY <1>4, <1>13 DEF BookInv, EventsDrawn
        <3>4. \A i \in AckSet(r) :
                \/ r[i].new \in Pending(c)
                \/ event_task[c] = "insert" /\ r[1].new = r[i].new
                \/ event_task[c] = "finalize" /\ i = 1
            BY <1>4, <2>2, <3>1, <3>3 DEF Chain, SameAcks
        <3>5. Announced(c)'
            BY <1>3, <1>4, <1>7, <1>8, <1>10, <2>1, <3>1, <3>3 DEF Chain, Announced
        <3>6. Entries(c) # {}
            BY <3>1 DEF Chain
        <3> QED BY <1>3, <1>7, <1>10, <2>1, <3>2, <3>4, <3>5, <3>6, ChainAfter
    <2>4. Tidy(c)'
        <3>1. Ends(r, conn[c].session_id) /\ Covers(r, Entries(c), conn[c].session_id)
            BY <1>4, <1>14, <2>2, SameAcksKeep DEF Tidy
        <3> QED BY <1>3, <1>7, <1>10, <1>14, <2>1, <3>1, TidyAfter DEF Tidy
    <2> QED BY <1>9, <2>3, <2>4, ApartKeeps
<1>16. CASE Acks(conn[c], s)
    <2>1. /\ y.session_id = s /\ y.pending_session_id = EMPTY /\ s = conn[c].pending_session_id /\ s # EMPTY
          /\ Len(ack) = 1 /\ ack[1].kind = "Ack" /\ ack[1].old = conn[c].session_id /\ ack[1].new = s
        BY <1>2, <1>3, <1>4, <1>16, AckedFacts
    <2>2. PICK old \in Nat, new \in Nat, n \in Nat :
            /\ old = conn[c].session_id /\ new = s /\ n = Len(r) /\ n > Len(q) /\ n >= 1
        <3>1. conn[c].session_id \in Nat /\ s \in Nat
            BY <1>2 DEF SessionIds, EMPTY
        <3>2. PICK n \in Nat, m \in Nat : n = Len(r) /\ m = Len(q)
            BY <1>6
        <3>3. n >= m + 1
            BY <1>6, <2>1, <3>2
        <3>4. n > m /\ n >= 1
            BY <3>3
        <3> QED BY <3>1, <3>2, <3>4
    <2>3. r[n].kind = "Ack" /\ r[n].old = old /\ r[n].new = new
        BY <1>6, <2>1, <2>2
    <2>4. AckSet(r) = AckSet(q) \cup {n}
        <3>1. n \in AckSet(r)
            BY <2>2, <2>3 DEF AckSet
        <3> QED BY <1>11, <1>12, <2>2, <3>1
    <2>5. \A i \in AckSet(q) : r[i] = q[i] /\ i < n /\ q[i].new <= old
        <3>1. \A i \in AckSet(q) : i \in 1..Len(q) /\ q[i].kind = "Ack"
            BY DEF AckSet
        <3>2. \A i \in AckSet(q) : q[i].new <= old
            BY <1>4, <2>2, <3>1 DEF BookInv, EventsDrawn
        <3> QED BY <1>6, <1>11, <2>2, <3>1, <3>2, SMTT(30)
    <2>6. Joins(q, r, n, old, new)
        BY <2>3, <2>4, <2>5 DEF Joins
    <2>7. ASSUME c \notin removed' PROVE Chain(c)'
        <3>1. Chain(c)
            BY <1>2, <1>3, <2>7 DEF ChainInv
        <3>2. Ordered(q) /\ Linked(q, Entries(c)) /\ Reached(q, Entries(c), old)
            BY <1>4, <2>2, <3>1 DEF Chain
        <3>3. Ordered(r) /\ Linked(r, Entries(c)) /\ Reached(r, Entries(c), new)
            BY <2>6, <3>2, JoinsChain
        <3>4. event_task[c] = "insert" => r[1] = q[1]
            BY <1>4, <1>13 DEF BookInv, EventsDrawn
        <3>5. s \in Pending(c) \/ (event_task[c] = "insert" /\ r[1].new = s)
            <4>1. \A u \in Tasks : task[u].pc # "insert"
                BY <1>1, <2>1, NoInsertWhileProcessing
            <4> QED BY <1>4, <2>1, <3>1, <3>4, <4>1 DEF Chain, Announced
        <3>6. \A i \in AckSet(r) :
                \/ r[i].new \in Pending(c)
                \/ event_task[c] = "insert" /\ r[1].new = r[i].new
                \/ event_task[c] = "finalize" /\ i = 1
            <4>1. \A i \in AckSet(q) :
                    \/ r[i].new \in Pending(c)
                    \/ event_task[c] = "insert" /\ r[1].new = r[i].new
                    \/ event_task[c] = "finalize" /\ i = 1
                BY <1>4, <2>5, <3>1, <3>4 DEF Chain
            <4> QED BY <2>2, <2>3, <2>4, <3>5, <4>1
        <3>7. Announced(c)'
            BY <1>7, <2>1 DEF Announced
        <3>8. Entries(c) # {}
            BY <3>1 DEF Chain
        <3> QED BY <1>3, <1>7, <1>10, <2>1, <2>2, <3>3, <3>6, <3>7, <3>8, ChainAfter
    <2>8. Tidy(c)'
        <3>1. Ends(q, old) /\ Covers(q, Entries(c), old)
            BY <1>4, <1>14, <2>2 DEF Tidy
        <3>4. Ends(r, new) /\ Covers(r, Entries(c), new)
            BY <2>6, <3>1, JoinsChain
        <3> QED BY <1>3, <1>7, <1>10, <1>14, <2>1, <2>2, <3>4, TidyAfter DEF Tidy
    <2> QED BY <1>9, <2>7, <2>8, ApartKeeps
<1> QED BY <1>15, <1>16

\* Every step keeps the chains and the session map's entries.
LEMMA SessionStep == ASSUME BookInv, ChainInv, EntriesInv, [Next]_vars PROVE ChainInv' /\ EntriesInv'
<1>0. BookInv'
    BY BookStep
<1>1. ASSUME NEW r \in Receivers, Receive(r) PROVE ChainInv' /\ EntriesInv'
    <2>1. PICK a \in Addrs, s \in 0..sessions :
            \/ LookupFound(r, a, s)
            \/ LookupPending(r, a, s)
            \/ Reject(a, s)
            \/ \E c \in Conns : NewConnection(r, c, a)
        BY <1>1 DEF Receive
    <2>2. task[r].pc = "idle"
        BY <1>1 DEF Receive
    <2>3. CASE LookupFound(r, a, s) \/ LookupPending(r, a, s)
        <3>1. Calm
            BY <2>2, <2>3, CalmSteps
        <3> QED BY <3>1, CalmKeeps
    <2>4. CASE Reject(a, s)
        BY <2>4, RejectKeeps
    <2>5. ASSUME NEW c \in Conns, NewConnection(r, c, a) PROVE ChainInv' /\ EntriesInv'
        BY <1>0, <2>2, <2>5, NewKeeps
    <2> QED BY <2>1, <2>3, <2>4, <2>5
<1>2. ASSUME NEW r \in Receivers, Accept(r) PROVE ChainInv' /\ EntriesInv'
    BY <1>0, <1>2, NewKeeps DEF Accept
<1>3. ASSUME NEW r \in Receivers, Process(r) PROVE ChainInv' /\ EntriesInv'
    <2>1. task[r].pc = "process"
        BY <1>3 DEF Process
    <2>2. CASE ProcessNothing(r) \/ ProcessFatal(r) \/ ProcessHandshake(r) \/ ProcessAuthFails(r)
        <3>1. Calm
            BY <2>1, <2>2, CalmSteps
        <3> QED BY <3>1, CalmKeeps
    <2>3. CASE ProcessAuth(r)
        <3>1. PICK c \in Conns, y \in ConnState : Frames(r, c, y, <<>>)
            BY <2>1, <2>3, AuthFrames
        <3>2. <<>> \in KeyEvents
            BY DEF KeyEvents
        <3> QED BY <1>0, <2>1, <3>1, <3>2, FramesKeeps
    <2>4. CASE ProcessData(r)
        <3>1. PICK c \in Conns, y \in ConnState, key \in KeyEvents : Frames(r, c, y, key)
            BY <2>1, <2>4, DataFrames
        <3> QED BY <1>0, <2>1, <3>1, FramesKeeps
    <2> QED BY <1>3, <2>2, <2>3, <2>4 DEF Process
<1>4. ASSUME NEW r \in Receivers, Rotate(r) \/ RotateInsert(r) PROVE ChainInv' /\ EntriesInv'
    BY <1>0, <1>4, RotateKeeps, RotateInsertKeeps
<1>5. ASSUME NEW t \in Tasks, RemoveConnection(t) PROVE ChainInv' /\ EntriesInv'
    BY <1>0, <1>5, RemoveKeeps
<1>6. ASSUME NEW c \in Conns, EventDropped(c) \/ EventKeyUpdate(c) \/ EventInsert(c) PROVE ChainInv' /\ EntriesInv'
    BY <1>0, <1>6, EventDroppedKeeps, EventKeyUpdateKeeps, EventInsertKeeps
<1>7. ASSUME NEW c \in Conns, EventFinalize(c) \/ EventRemap(c) PROVE ChainInv' /\ EntriesInv'
    BY <1>0, <1>7, EventFinalizeKeeps, EventRemapKeeps
<1>8. CASE CleanupPending
    BY <1>8, CleanupKeeps
<1>9. ASSUME \/ \E r \in Receivers : FloatConn(r) \/ FloatMap(r) \/ StreamEnds(r)
             \/ \E t \in Tasks : LwDisconnect(t)
             \/ \E w \in Workers, c \in Conns : SpawnDisconnect(w, c) \/ Stale(w, c)
             \/ \E c \in Conns : TimedOut(c)
             \/ UNCHANGED vars
      PROVE  ChainInv' /\ EntriesInv'
    <2>1. Calm
        BY <1>9, CalmSteps
    <2> QED BY <2>1, CalmKeeps
<1> QED BY <1>1, <1>2, <1>3, <1>4, <1>5, <1>6, <1>7, <1>8, <1>9 DEF Next

LEMMA SessionInit == ASSUME Init PROVE ChainInv /\ EntriesInv
<1>1. ChainInv
    BY DEF Init, ChainInv, Born
<1>2. ASSUME NEW c \in Conns PROVE Tidy(c)
    <2>1. events[c] = <<>> /\ Entries(c) = {} /\ c \notin removed
        BY ManagerAssumption DEF Init, Entries
    <2>2. AckSet(events[c]) = {}
        BY <2>1 DEF AckSet
    <2> QED BY <2>1, <2>2 DEF Tidy, Covers, Ends
<1> QED BY <1>1, <1>2 DEF EntriesInv

\* The chain of a connection leads from its id to the connection.
LEMMA ChainReaches ==
    ASSUME BookInv, NEW c \in Conns, Chain(c), NEW s, s = conn[c].session_id, s \in SessionIds
    PROVE  \/ by_session_id[s] = c
           \/ pending_session_id_rotations[s] = c
           \/ event_task[c] # "idle" /\ Head(events[c]).new = s
<1>1. PICK q \in Seq(Event) : q = events[c]
    BY DEF BookInv, TypeOK
<1>2. event_task[c] \in {"insert", "finalize"} => q # <<>>
    BY <1>1 DEF BookInv, EventsDrawn
<1>3. event_task[c] \in {"insert", "finalize"} => Head(events[c]) = q[1]
    BY <1>1, <1>2
<1>4. CASE s \in Entries(c)
    BY <1>4 DEF Entries
<1>5. ASSUME NEW i \in AckSet(q), q[i].new = s
      PROVE  \/ pending_session_id_rotations[s] = c
             \/ event_task[c] # "idle" /\ Head(events[c]).new = s
    BY <1>1, <1>3, <1>5 DEF Chain, Pending
<1> QED BY <1>1, <1>4, <1>5 DEF Chain, Reached

\* MapsExact: through every interleaving of floats, TLS key updates, overlapping
\* rotations, acknowledgements and disconnects, an Online connection that nobody
\* disconnects is found by its session id, and no id leads to a connection it
\* was not drawn for (find_or_create_datagram_connection_with,
\* begin_session_id_rotation, finalize_session_id_rotation).
THEOREM SessionsExact == Spec => []MapsExact
<1>1. ASSUME BookInv, ChainInv PROVE MapsExact
    <2>1. ASSUME NEW c \in Conns \ removed, conn[c].state = "Online"
          PROVE  LET s == conn[c].session_id IN
                 \/ by_session_id[s] = c
                 \/ pending_session_id_rotations[s] = c
                 \/ event_task[c] # "idle" /\ Head(events[c]).new = s
        <3>1. Born(c)
            BY <2>1 DEF Born
        <3>2. Chain(c)
            BY <1>1, <3>1 DEF ChainInv
        <3>3. conn[c].session_id \in SessionIds
            BY <1>1, <3>1 DEF BookInv, ConnsBorn, Drawn
        <3> QED BY <1>1, <3>2, <3>3, ChainReaches
    <2> QED BY <1>1, <2>1 DEF MapsExact, SessionReachable, BookInv
<1> QED BY <1>1, BookHolds, SessionInit, SessionStep, PTL DEF Spec

\* EndedForgotten: once a connection's disconnect() returned, no task works on it
\* and its events are handled, no inside IP leads to it, and no session id but
\* one the client acknowledged before the end (Connection::disconnect,
\* remove_connection, handle_events).
THEOREM EndsAreForgotten == Spec => []EndedForgotten
<1>1. ASSUME BookInv, EntriesInv, IpsConserved PROVE EndedForgotten
    <2>1. ASSUME NEW c \in Conns, c \in closed, conn[c].state = "Disconnected", events[c] = <<>>
          PROVE  /\ c \notin Img(ip_to_conn_map)
                 /\ \A s \in SessionIds : by_session_id[s] = c =>
                      s = conn[c].session_id /\ \E first \in SessionIds \ {s} : owner[first] = c
        <3>1. c \notin Img(ip_to_conn_map)
            <4>1. ASSUME NEW ip \in IPs, ip_to_conn_map[ip] = c PROVE FALSE
                <5>1. ip \in allocated_ips /\ NoConn # ip
                    BY <1>1, <4>1, ManagerAssumption DEF IpsConserved
                <5>2. conn[c].internal_ip = ip
                    BY <1>1, <4>1, <5>1 DEF IpsConserved
                <5> QED BY <1>1, <2>1, <5>1, <5>2 DEF IpsConserved
            <4>2. DOMAIN ip_to_conn_map = IPs
                BY <1>1 DEF BookInv, TypeOK
            <4> QED BY <4>1, <4>2 DEF Img
        <3>2. Tidy(c) /\ c \in removed
            BY <1>1, <2>1 DEF EntriesInv, BookInv
        <3>3. AckSet(events[c]) = {}
            BY <2>1 DEF AckSet
        <3>4. \A s \in Entries(c) : s = conn[c].session_id /\ \E first \in SessionIds \ {s} : owner[first] = c
            BY <3>2, <3>3 DEF Tidy, Covers
        <3> QED BY <3>1, <3>4 DEF Entries
    <2> QED BY <2>1 DEF EndedForgotten
<1> QED BY <1>1, BookHolds, InsideIpsConserved, SessionInit, SessionStep, PTL DEF Spec
=============================================================================
