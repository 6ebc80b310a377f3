-------------------------- MODULE ExpresslaneHealth --------------------------
(***************************************************************************)
(* When does an end give up its ExpressLane path? Each keepalive reply     *)
(* carries the peer's cumulative packet counters; check_expresslane_health *)
(* (connection.rs) turns them into per-window deltas, compares what one    *)
(* end sent with what the other received, and feeds two leaky buckets. The *)
(* consequences of degrading are modelled in Expresslane.tla (Degrade).    *)
(*                                                                         *)
(* One end is modelled, its peer only as the counters it reports. Counters *)
(* are modulo CounterSpace (2^64 in the code). Traffic of the measured end *)
(* goes on while a reply is under way, so that the two ends' counters are  *)
(* read at different times.                                                *)
(***************************************************************************)
EXTENDS Integers, Sequences, FiniteSets, SequencesExt

CONSTANTS
  MIN_PACKETS_FOR_LOSS_CHECK,       \* 10 in the code
  EXPRESSLANE_DEGRADE_STRIKES,      \* 3 in the code
  EXPRESSLANE_MISSING_STATS_LIMIT,  \* 3 in the code
  CounterSpace,    \* number of values of a counter
  Bursts,          \* packets an end sends between two reports
  InFlights,       \* packets sent while a report is under way
  MaxReplies,      \* bound: keepalive replies
  Paths            \* kinds of path: [lossless, ordered, readable, calm]

(* A window's traffic does not lap the counters.                           *)
ASSUME HealthBounds ==
  /\ MIN_PACKETS_FOR_LOSS_CHECK \in Nat /\ EXPRESSLANE_DEGRADE_STRIKES \in Nat /\ EXPRESSLANE_DEGRADE_STRIKES > 1
  /\ EXPRESSLANE_MISSING_STATS_LIMIT \in Nat \ {0} /\ CounterSpace \in Nat /\ MaxReplies \in Nat
  /\ Bursts \subseteq Nat /\ InFlights \subseteq Nat
  /\ Paths \subseteq [lossless : BOOLEAN, ordered : BOOLEAN, readable : BOOLEAN, calm : BOOLEAN]
  /\ \E b \in Bursts : /\ \A burst \in Bursts : burst <= b
                       /\ MaxReplies * b + MIN_PACKETS_FOR_LOSS_CHECK < CounterSpace

VARIABLES
  sent,      \* packets each end sent: [me, peer]
  recv,      \* packets of it the other end received
  replies,   \* pongs under way: [no, sent, recv, stats]
  answered,  \* number of replies the peer has made
  last,      \* the counters of the last window: [meSent, meRecv, peerSent, peerRecv]
  strikes,   \* [in, out]: inbound_strikes, outbound_strikes
  missing,   \* [peer, here]: missing_peer_reports, missing_local_readings
  degraded,  \* ExpresslaneState::Degraded
  windows,   \* history: what the inbound windows showed, TRUE for drops
  path       \* this behaviour's member of Paths

healthVars == <<sent, recv, replies, answered, last, strikes, missing, degraded, windows, path>>

Minus(a, b) == (a + CounterSpace - b) % CounterSpace      \* wrapping_sub

HealthInit ==
  /\ sent = [me |-> 0, peer |-> 0] /\ recv = [me |-> 0, peer |-> 0]
  /\ replies = {} /\ answered = 0
  /\ last = [meSent |-> 0, meRecv |-> 0, peerSent |-> 0, peerRecv |-> 0]
  /\ strikes = [in |-> 0, out |-> 0] /\ missing = [peer |-> 0, here |-> 0]
  /\ degraded = FALSE /\ windows = <<>>
  /\ path \in Paths

\* How many of n packets arrive: all of them, or none when the path is bad.
Arriving(n) == IF path.lossless THEN {n} ELSE {0, n}

\* handle_ping at the peer (encode_expresslane_metrics_payload), after both
\* ends have sent a burst.
Report(mine, theirs, stats) ==
  \E a \in Arriving(mine), b \in Arriving(theirs) :
    /\ answered < MaxReplies /\ ~degraded
    /\ path.readable => stats
    /\ path.ordered => replies = {}
    /\ sent' = [me |-> sent.me + mine, peer |-> sent.peer + theirs]
    /\ recv' = [me |-> recv.me + a, peer |-> recv.peer + b]
    /\ answered' = answered + 1
    /\ replies' = replies \cup {[no |-> answered + 1, sent |-> sent'.peer % CounterSpace,
                                 recv |-> recv'.me % CounterSpace, stats |-> stats]}
    /\ UNCHANGED <<last, strikes, missing, degraded, windows, path>>

\* More than half of a window of at least the minimum is missing.
has_packet_drops(s, r) ==
  /\ s >= MIN_PACKETS_FOR_LOSS_CHECK
  /\ s > r /\ 2 * (s - r) > s

ClearsOnGood(n, s, r) ==
  IF has_packet_drops(s, r) THEN [strikes |-> n + 1, degrade |-> n + 1 >= EXPRESSLANE_DEGRADE_STRIKES]
  ELSE [strikes |-> 0, degrade |-> FALSE]

advance_strikes(n, s, r) ==
  IF has_packet_drops(s, r)
  THEN [strikes |-> n + 1, degrade |-> n + 1 >= EXPRESSLANE_DEGRADE_STRIKES]
  ELSE [strikes |-> IF n = 0 THEN 0 ELSE n - 1, degrade |-> FALSE]

\* check_expresslane_health without a reading of the peer or of its own.
NoReading(p, readable) ==
  LET side == IF ~p.stats THEN "peer" ELSE "here"
  IN /\ ~p.stats \/ ~readable
     /\ missing' = IF side = "peer" THEN [missing EXCEPT !.peer = @ + 1]
                   ELSE [peer |-> 0, here |-> missing.here + 1]
     /\ degraded' = (missing'[side] >= EXPRESSLANE_MISSING_STATS_LIMIT)
     /\ UNCHANGED <<last, strikes, windows>>

\* The comparison proper: both directions over the last window.
Compare(p) ==
  LET now == [meSent |-> sent'.me % CounterSpace, meRecv |-> recv.peer % CounterSpace,
              peerSent |-> p.sent, peerRecv |-> p.recv]
      in  == advance_strikes(strikes.in, Minus(now.peerSent, last.peerSent),
                             Minus(now.meRecv, last.meRecv))
      out == advance_strikes(strikes.out, Minus(now.meSent, last.meSent),
                             Minus(now.peerRecv, last.peerRecv))
  IN /\ missing' = [peer |-> 0, here |-> 0]
     /\ last' = now
     /\ windows' = Append(windows, in.strikes > strikes.in)
     /\ strikes' = [in |-> in.strikes, out |-> IF in.degrade THEN strikes.out ELSE out.strikes]
     /\ degraded' = (in.degrade \/ out.degrade)

\* The reply arrives after the measured end has sent `more` packets.
check_expresslane_health(p, more, readable) ==
  /\ p \in replies /\ ~degraded
  /\ path.readable => readable
  /\ path.calm => more <= MIN_PACKETS_FOR_LOSS_CHECK
  /\ replies' = replies \ {p}
  /\ sent' = [sent EXCEPT !.me = @ + more]
  /\ \E a \in Arriving(more) : recv' = [recv EXCEPT !.me = @ + a]
  /\ NoReading(p, readable) \/ (p.stats /\ readable /\ Compare(p))
  /\ UNCHANGED <<answered, path>>

\* A keepalive reply is lost.
LoseReply(p) ==
  /\ p \in replies /\ replies' = replies \ {p}
  /\ UNCHANGED <<sent, recv, answered, last, strikes, missing, degraded, windows, path>>

HealthNext ==
  \/ \E mine, theirs \in Bursts, stats \in BOOLEAN : Report(mine, theirs, stats)
  \/ \E p \in replies :
       \/ \E more \in InFlights, readable \in BOOLEAN : check_expresslane_health(p, more, readable)
       \/ LoseReply(p)

HealthSpec == HealthInit /\ [][HealthNext]_healthVars
-----------------------------------------------------------------------------
(* A path that loses nothing is kept, although the two ends' counters are  *)
(* read at different times: packets sent while a report is under way can   *)
(* look like loss, but never twice in a row while they are no more than    *)
(* the least a window is judged by.  With more of them it can be given up. *)
HealthyKept == path.lossless /\ path.ordered /\ path.readable /\ path.calm => ~degraded

(* How many more of the windows since the i-th showed drops than did not.  *)
Since(w, i, drops) == {j \in i..Len(w) : w[j] = drops}
Excess(w, i) == Cardinality(Since(w, i, TRUE)) - Cardinality(Since(w, i, FALSE))

(* The bucket drains instead of clearing: if any run of windows up to now  *)
(* shows EXPRESSLANE_DEGRADE_STRIKES more inbound drops than clean windows *)
(* then the path has been given up, and a lower excess never does it.      *)
StrikesExact ==
  /\ \A i \in DOMAIN windows : Excess(windows, i) <= strikes.in
  /\ strikes.in > 0 => \E i \in DOMAIN windows : Excess(windows, i) = strikes.in
  /\ strikes.in >= EXPRESSLANE_DEGRADE_STRIKES => degraded

(* Counters and bounds.                                                    *)
HealthTypeOK ==
  /\ path \in Paths /\ degraded \in BOOLEAN
  /\ strikes \in [in : 0..EXPRESSLANE_DEGRADE_STRIKES, out : 0..EXPRESSLANE_DEGRADE_STRIKES]
  /\ missing \in [peer : 0..EXPRESSLANE_MISSING_STATS_LIMIT, here : 0..EXPRESSLANE_MISSING_STATS_LIMIT]
  /\ last \in [{"meSent", "meRecv", "peerSent", "peerRecv"} -> 0..(CounterSpace - 1)]

(* A lossy path is given up after exactly the strikes it has earned, and a *)
(* lossless one never (check_expresslane_health, advance_strikes).         *)
HealthExact ==
  /\ HealthTypeOK
  /\ HealthyKept
  /\ StrikesExact
=============================================================================
