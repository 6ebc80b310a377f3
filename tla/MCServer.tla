------------------------------ MODULE MCServer ------------------------------
(***************************************************************************)
(* The server around its connections, part by part: each behaviour         *)
(* exercises one part (`focus`) while the others rest in an initial state  *)
(* of theirs.  Two clients share a pool of two addresses, one of which     *)
(* belongs to a subnet of its own.                                         *)
(***************************************************************************)
EXTENDS InsideLoop, UdpReceive, ServerStats

VARIABLE focus

vars == <<insideVars, rxVars, statVars, focus>>

MCLocals == {[c \in InConns |-> "l1"], [c \in InConns |-> "l2"]}
MCPackets == {2, 3, NoIp}
MCIpMap == [l \in {"l1"} |-> {2}]

InsideRest == /\ InsideInit
              /\ setup = [gso |-> FALSE, batch |-> FALSE, datagram |-> FALSE, local |-> [c \in InConns |-> "l1"]]
RxRest     == RxInit /\ rx_role = [server |-> TRUE, batch |-> FALSE, pktinfo |-> FALSE, flags |-> TRUE]

Init ==
  \/ focus = "inside" /\ InsideInit /\ RxRest /\ StatInit
  \/ focus = "receive" /\ RxInit /\ InsideRest /\ StatInit
  \/ focus = "stats" /\ StatInit /\ InsideRest /\ RxRest

InsideOnly == focus = "inside" /\ UNCHANGED <<rxVars, statVars, focus>>
RxOnly     == focus = "receive" /\ UNCHANGED <<insideVars, statVars, focus>>
StatOnly   == focus = "stats" /\ UNCHANGED <<insideVars, rxVars, focus>>

Next ==
  \/ \E c \in InConns, granted \in BOOLEAN : InsideOnly /\ Authenticate(c, granted)
  \/ \E c \in InConns, taken \in BOOLEAN : InsideOnly /\ Disconnect(c, taken)
  \/ \E c \in InConns, taken \in BOOLEAN : InsideOnly /\ OtherTaskSends(c, taken)
  \/ \E c \in InConns : InsideOnly /\ Reconnect(c)
  \/ \E pkts \in UNION {[1..n -> InsidePackets] : n \in 1..MaxBatch} : InsideOnly /\ Receive(pkts)
  \/ InsideOnly /\ Lookup
  \/ InsideOnly /\ ForwardNone
  \/ \E taken, gso_packet \in BOOLEAN : InsideOnly /\ Forward(taken, gso_packet)
  \/ InsideOnly /\ TakeQueue
  \/ \E n \in 1..Len(msgs) : InsideOnly /\ FlushSome(n)
  \/ InsideOnly /\ FlushError
  \/ \E n \in 0..MaxDatagrams : InsideOnly /\ Unwind(n)
  \/ \E size \in RxSizes : RxOnly /\ Arrive(size)
  \/ \E n \in 1..RxBatch, bad \in 0..RxBatch : RxOnly /\ ReceiveBatch(n, bad)
  \/ RxOnly /\ ReceiveFails
  \/ \E fatal \in BOOLEAN : RxOnly /\ Handle(fatal)
  \/ \E c \in StatConns, data \in BOOLEAN : StatOnly /\ Received(c, data)
  \/ \E c \in StatConns : StatOnly /\ Sent(c)
  \/ \E c \in StatConns : StatOnly /\ Offloaded(c)
  \/ \E c \in StatConns : StatOnly /\ RotateSid(c)
  \/ \E read, tx \in SUBSET StatConns : StatOnly /\ Poll(read, tx)
  \/ \E c \in StatConns : StatOnly /\ Evict(c)
  \/ StatOnly /\ StatTick

(* The loop's task runs on; the socket becomes writable again and takes at *)
(* least one message.                                                      *)
Fairness ==
  /\ WF_vars(InsideOnly /\ Lookup) /\ WF_vars(InsideOnly /\ ForwardNone) /\ WF_vars(InsideOnly /\ TakeQueue)
  /\ WF_vars(InsideOnly /\ \E taken, gso_packet \in BOOLEAN : Forward(taken, gso_packet))
  /\ WF_vars(InsideOnly /\ \E n \in 1..Len(msgs) : FlushSome(n))

Spec == Init /\ [][Next]_vars /\ Fairness

=============================================================================
