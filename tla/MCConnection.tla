---------------------------- MODULE MCConnection ----------------------------
(* Connection on small instances: one client, one server, and surroundings  *)
(* that each bring out one kind of trouble.                                 *)
EXTENDS Connection

\* Reordering, a loss, refusals, timers that run out at any moment.
Rough == [datagram |-> TRUE, grants |-> {TRUE, FALSE}, stops |-> TRUE, timely |-> FALSE,
          lost |-> 1, faults |-> 0, resends |-> 1, updates |-> 1, pings |-> 0, copies |-> 1]

\* A stream, one write of which fails.
Stream == [datagram |-> FALSE, grants |-> {TRUE, FALSE}, stops |-> TRUE, timely |-> FALSE,
           lost |-> 0, faults |-> 1, resends |-> 0, updates |-> 1, pings |-> 2, copies |-> 1]

\* A network that loses two datagrams.
Lossy == [datagram |-> TRUE, grants |-> {TRUE}, stops |-> FALSE, timely |-> TRUE,
          lost |-> 2, faults |-> 0, resends |-> 3, updates |-> 2, pings |-> 1, copies |-> 2]

RoughOnly == {Rough}
Fair == {Stream, Lossy}
=============================================================================
