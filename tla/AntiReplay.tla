------------------------------ MODULE AntiReplay ------------------------------
(***************************************************************************)
(* What an ExpressLane receiver promises about packet counters: a counter  *)
(* is delivered at most once, and a verdict depends on nothing but the set *)
(* of counters delivered so far and the span W behind the highest of them. *)
(* ReplayWindow, the bitmap the code keeps, is shown to implement this.    *)
(***************************************************************************)
EXTENDS Naturals

CONSTANTS W,        \* how far behind the highest delivered counter is admitted
          Counters  \* the counters that may arrive

VARIABLES delivered, \* the counters handed to the inside so far
          verdict    \* the last decision: [counter, ok]

vars == <<delivered, verdict>>

NoVerdict == [counter |-> 0, ok |-> FALSE]

Init == delivered = {} /\ verdict = NoVerdict

(* A counter is fresh when it is real, not delivered yet, and no delivered *)
(* counter is W or more ahead of it.                                       *)
Fresh(c) == /\ c > 0
            /\ c \notin delivered
            /\ \A d \in delivered : d < c + W

Accept(c) == /\ Fresh(c)
             /\ delivered' = delivered \cup {c}
             /\ verdict' = [counter |-> c, ok |-> TRUE]

Reject(c) == /\ ~Fresh(c)
             /\ verdict' = [counter |-> c, ok |-> FALSE]
             /\ UNCHANGED delivered

Next == \E c \in Counters : Accept(c) \/ Reject(c)

Spec == Init /\ [][Next]_vars
=============================================================================
