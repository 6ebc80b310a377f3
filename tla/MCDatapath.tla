----------------------------- MODULE MCDatapath -----------------------------
(***************************************************************************)
(* The data path of one connection, part by part: each behaviour exercises *)
(* one of path MTU discovery, fragmentation, the send path, the codec      *)
(* negotiation, the health check and the ExpressLane key exchange with an  *)
(* AEAD that may refuse keys (`focus`), while the others rest in an        *)
(* initial state of theirs.                                                *)
(***************************************************************************)
EXTENDS Dplpmtud, FragmentMap, SendPath, Codec, ExpresslaneHealth, Expresslane

VARIABLE focus

datapathVars == <<pmtudVars, fragVars, sendVars, codecVars, healthVars, vars, focus>>

Mixed == [e \in Endpoints |-> IF e = Client THEN 2 ELSE 1]
ClientRotates == [e \in Endpoints |-> IF e = Client THEN 2 ELSE 1]

Kinds ==
  {[stream |-> TRUE,  aggressive |-> FALSE, plugins |-> FALSE, lane |-> FALSE],
   [stream |-> TRUE,  aggressive |-> FALSE, plugins |-> TRUE,  lane |-> FALSE],
   [stream |-> FALSE, aggressive |-> FALSE, plugins |-> TRUE,  lane |-> FALSE],
   [stream |-> FALSE, aggressive |-> TRUE,  plugins |-> FALSE, lane |-> FALSE],
   [stream |-> FALSE, aggressive |-> FALSE, plugins |-> FALSE, lane |-> TRUE]}

GoodPath == [lossless |-> TRUE, ordered |-> TRUE, readable |-> TRUE, calm |-> TRUE]
BusyPath == [GoodPath EXCEPT !.calm = FALSE]
PathKinds ==
  {GoodPath, BusyPath, [BusyPath EXCEPT !.lossless = FALSE], [BusyPath EXCEPT !.ordered = FALSE],
   [BusyPath EXCEPT !.readable = FALSE]}

PmtudRest  == PmtudInit /\ ~timely /\ pathSize = MaxPlpmtu
FragRest   == FragInit /\ setting = [ids |-> 2, capacity |-> 2, dups |-> FALSE]
SendRest   == SendInit /\ conn.lane
CodecRest  == CodecInit /\ authorized
HealthRest == HealthInit /\ path = GoodPath

DatapathInit ==
  \/ focus = "pmtud"  /\ PmtudInit /\ FragRest /\ SendRest /\ CodecRest /\ HealthRest /\ Init
  \/ focus = "frag"   /\ FragInit /\ PmtudRest /\ SendRest /\ CodecRest /\ HealthRest /\ Init
  \/ focus = "send"   /\ SendInit /\ PmtudRest /\ FragRest /\ CodecRest /\ HealthRest /\ Init
  \/ focus = "codec"  /\ CodecInit /\ PmtudRest /\ FragRest /\ SendRest /\ HealthRest /\ Init
  \/ focus = "health" /\ HealthInit /\ PmtudRest /\ FragRest /\ SendRest /\ CodecRest /\ Init
  \/ focus = "lane"   /\ Init /\ PmtudRest /\ FragRest /\ SendRest /\ CodecRest /\ HealthRest

PmtudOnly  == focus = "pmtud"  /\ UNCHANGED <<fragVars, sendVars, codecVars, healthVars, vars, focus>>
FragOnly   == focus = "frag"   /\ UNCHANGED <<pmtudVars, sendVars, codecVars, healthVars, vars, focus>>
SendOnly   == focus = "send"   /\ UNCHANGED <<pmtudVars, fragVars, codecVars, healthVars, vars, focus>>
CodecOnly  == focus = "codec"  /\ UNCHANGED <<pmtudVars, fragVars, sendVars, healthVars, vars, focus>>
HealthOnly == focus = "health" /\ UNCHANGED <<pmtudVars, fragVars, sendVars, codecVars, vars, focus>>
LaneOnly   == focus = "lane"   /\ UNCHANGED <<pmtudVars, fragVars, sendVars, codecVars, healthVars, focus>>

DatapathNext ==
  \/ PmtudOnly /\ GoOnline
  \/ PmtudOnly /\ GoOffline
  \/ PmtudOnly /\ TimerElapses
  \/ PmtudOnly /\ PmtudTick
  \/ \E p \in pongs : PmtudOnly /\ PongReceived(p)
  \/ \E p \in probes : PmtudOnly /\ Cross(p)
  \/ \E p \in probes \cup pongs : PmtudOnly /\ PmtudLose(p)
  \/ \E s \in PathSizes : PmtudOnly /\ PathChanges(s)
  \/ \E size \in PacketSizes, plpmtu \in Plpmtus : FragOnly /\ SendFragmented(size, plpmtu)
  \/ \E f \in flying : FragOnly /\ Deliver(f)
  \/ \E kind \in {"tcp", "control"}, size \in FrameSizes : SendOnly /\ SendFrame(kind, size)
  \/ \E size \in FrameSizes : SendOnly /\ SendLane(size)
  \/ \E payload \in Payloads, gso_size \in GsoSizes, cut \in 0..MAX_GSO_SEGS, taken \in BOOLEAN :
       SendOnly /\ SendBatch(payload, gso_size, cut, taken)
  \/ \E payload \in Payloads, gso_size \in GsoSizes, room \in 0..MaxRoom, fails \in BOOLEAN :
       SendOnly /\ SendSegments(payload, gso_size, room, fails)
  \/ \E enable \in BOOLEAN : CodecOnly /\ set_encoding(enable)
  \/ CodecOnly /\ downgrade_inside_pkt_codec_if_stalled
  \/ \E id \in 1..MaxRequests : CodecOnly /\ codec_tick(id)
  \/ \E m \in requests : CodecOnly /\ process_encoding_request_pkt(m)
  \/ \E m \in requests : CodecOnly /\ LoseRequest(m)
  \/ \E m \in responses : CodecOnly /\ process_encoding_response_pkt(m)
  \/ \E m \in responses : CodecOnly /\ LoseResponse(m)
  \/ \E mine, theirs \in Bursts, stats \in BOOLEAN : HealthOnly /\ Report(mine, theirs, stats)
  \/ \E p \in replies, more \in InFlights, readable \in BOOLEAN :
       HealthOnly /\ check_expresslane_health(p, more, readable)
  \/ \E p \in replies : HealthOnly /\ LoseReply(p)
  \/ \E e \in Endpoints : LaneOnly /\ Rotate(e)
  \/ \E e \in Endpoints : LaneOnly /\ IntervalElapses(e)
  \/ \E e \in Endpoints : LaneOnly /\ Tick(e)
  \/ \E e \in Endpoints : LaneOnly /\ Receive(e)
  \/ \E e \in Endpoints : LaneOnly /\ Degrade(e)
  \/ \E e \in Endpoints : LaneOnly /\ SendData(e)
  \/ \E packet \in data : LaneOnly /\ DataLeaves(packet)
  \/ \E m \in msgs : LaneOnly /\ Lose(m)

\* PmtudFairness and CodecFairness, each for the behaviours that exercise it.
Fairness ==
  /\ WF_datapathVars(PmtudOnly /\ GoOnline) /\ WF_datapathVars(PmtudOnly /\ TimerElapses)
  /\ WF_datapathVars(PmtudOnly /\ PmtudTick)
  /\ WF_datapathVars(\E p \in pongs : PmtudOnly /\ PongReceived(p))
  /\ WF_datapathVars(\E p \in probes : PmtudOnly /\ Cross(p))
  /\ \A id \in 1..MaxRequests : WF_datapathVars(CodecOnly /\ codec_tick(id))

DatapathSpec == DatapathInit /\ [][DatapathNext]_datapathVars /\ Fairness

(* Discovery converges in the behaviours that exercise it (dplpmtud.rs).   *)
DiscoveryConverges == focus = "pmtud" => Converges

(* What the connection asks of its peer comes to an end: discovery finds   *)
(* the path's size, and every request for the codec is answered, replaced  *)
(* or given up.                                                            *)
DatapathSettles ==
  /\ DiscoveryConverges
  /\ RequestResolved
=============================================================================
