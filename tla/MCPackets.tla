------------------------------- MODULE MCPackets -------------------------------
(***************************************************************************)
(* How packets enter and leave an endpoint, part by part: each behaviour   *)
(* exercises one of the replay window of ExpressLane and its receive       *)
(* threads, its send half, the frames that TLS hands over, the client's    *)
(* keepalive task, the io_uring of the TUN and the way of an inside packet *)
(* (`focus`), while the others rest in an initial state of theirs.         *)
(***************************************************************************)
EXTENDS ReplayWindow, FrameStream, Keepalive, Uring, LaneSeal, InsidePath

VARIABLE focus

packetVars == <<vars, frameVars, keepaliveVars, uringVars, laneVars, pathVars, focus>>

\* One frame of every kind, empty and full fields, bytes that could pass for a kind.
Samples ==
 {[kind |-> "NoOp"],
  [kind |-> "Goodbye"],
  [kind |-> "AuthFailure"],
  [kind |-> "Ping", id |-> 300, data |-> <<12>>],
  [kind |-> "Pong", id |-> 0, data |-> <<>>],
  [kind |-> "Data", data |-> <<>>],
  [kind |-> "EncodedData", data |-> <<12, 5>>],
  [kind |-> "ServerConfig", data |-> <<1>>],
  [kind |-> "DataFrag", id |-> 258, offset |-> 2048, more_fragments |-> TRUE, data |-> <<7>>],
  [kind |-> "EncodedDataFrag", id |-> 1, offset |-> 65528, more_fragments |-> FALSE, data |-> <<>>],
  [kind |-> "EncodingRequest", id |-> <<1, 2>>, enable |-> TRUE],
  [kind |-> "EncodingResponse", id |-> <<1, 2>>, enable |-> FALSE],
  [kind |-> "ExpresslaneConfig", version |-> 1, enabled |-> TRUE, ack |-> FALSE, counter |-> <<0, 9>>, key |-> <<255, 7>>],
  [kind |-> "AuthRequest", method |-> "UserPass", user |-> <<65>>, password |-> <<66, 67>>],
  [kind |-> "AuthRequest", method |-> "Token", data |-> <<65, 66>>],
  [kind |-> "AuthRequest", method |-> "VersionedToken", version |-> <<1, 2>>, data |-> <<65>>],
  [kind |-> "AuthRequest", method |-> "CustomCallback", data |-> <<200>>],
  [kind |-> "AuthSuccessWithConfigV4", strings |-> << <<49>>, <<50, 51>>, <<>>, <<52>> >>, session |-> <<9, 0>>]}
Headers == {<<1, 1>>, <<1, 3>>, <<2, 0>>}

\* Addresses whose words reach both ends of the one's complement range.
PTunIp     == <<1, 2>>
PTunDns    == <<1, 15>>
PClientIp  == <<3, 0>>
PServerDns == <<15, 15>>
PPoolIp    == <<0, 7>>
PHosts     == {PTunDns, PServerDns, <<9, 4>>}
PChains    == {<<>>, <<"pad1", "even", "pad2">>, <<"reject", "pad1">>}

WindowRest    == Init
FrameRest     == FrameInit /\ link = [datagram |-> FALSE, server |-> FALSE, version |-> <<1, 3>>, newer |-> FALSE]
KeepaliveRest == KeepaliveInit /\ continuous /\ timely
UringRest     == UringInit /\ sqpoll = FALSE
LaneRest      == LaneInit /\ lane_version = 2
PathRest      == PathInit /\ way = [chain |-> <<>>, offload |-> FALSE, clamps |-> FALSE]

PacketsInit ==
  \/ focus = "window"    /\ Init          /\ FrameRest /\ KeepaliveRest /\ UringRest /\ LaneRest /\ PathRest
  \/ focus = "frames"    /\ FrameInit     /\ WindowRest /\ KeepaliveRest /\ UringRest /\ LaneRest /\ PathRest
  \/ focus = "keepalive" /\ KeepaliveInit /\ WindowRest /\ FrameRest /\ UringRest /\ LaneRest /\ PathRest
  \/ focus = "uring"     /\ UringInit     /\ WindowRest /\ FrameRest /\ KeepaliveRest /\ LaneRest /\ PathRest
  \/ focus = "lane"      /\ LaneInit      /\ WindowRest /\ FrameRest /\ KeepaliveRest /\ UringRest /\ PathRest
  \/ focus = "path"      /\ PathInit      /\ WindowRest /\ FrameRest /\ KeepaliveRest /\ UringRest /\ LaneRest

WindowOnly    == focus = "window"    /\ UNCHANGED <<frameVars, keepaliveVars, uringVars, laneVars, pathVars, focus>>
FrameOnly     == focus = "frames"    /\ UNCHANGED <<vars, keepaliveVars, uringVars, laneVars, pathVars, focus>>
KeepaliveOnly == focus = "keepalive" /\ UNCHANGED <<vars, frameVars, uringVars, laneVars, pathVars, focus>>
UringOnly     == focus = "uring"     /\ UNCHANGED <<vars, frameVars, keepaliveVars, laneVars, pathVars, focus>>
LaneOnly      == focus = "lane"      /\ UNCHANGED <<vars, frameVars, keepaliveVars, uringVars, pathVars, focus>>
PathOnly      == focus = "path"      /\ UNCHANGED <<vars, frameVars, keepaliveVars, uringVars, laneVars, focus>>

PacketsNext ==
  \/ \E w \in Workers : WindowOnly /\ OpenFails(w)
  \/ \E w \in Workers : WindowOnly /\ Commit(w)
  \/ WindowOnly /\ \E w \in Workers, p \in Packets : PreviewReject(w, p)
  \/ WindowOnly /\ \E w \in Workers, p \in Packets : PreviewPass(w, p)
  \/ FrameOnly /\ \E f \in FrameSamples \cup {Newer} : WriteFrame(f)
  \/ \E i \in 1..MaxFramesSent : FrameOnly /\ ArriveDatagram(i)
  \/ \E i \in 1..MaxFramesSent : FrameOnly /\ LoseDatagram(i)
  \/ \E n \in 1..Len(inflight) : FrameOnly /\ ArriveBytes(n)
  \/ FrameOnly /\ TryRead
  \/ FrameOnly /\ HandleFrame
  \/ FrameOnly /\ FrameError
  \/ KeepaliveOnly /\ HandleOnline
  \/ KeepaliveOnly /\ HandleOutsideActivity
  \/ KeepaliveOnly /\ HandleReplyReceived
  \/ KeepaliveOnly /\ HandleNetworkChange
  \/ KeepaliveOnly /\ HandleTracerDeltaExceeded
  \/ KeepaliveOnly /\ HandleSuspend
  \/ KeepaliveOnly /\ SendNeeded
  \/ KeepaliveOnly /\ SendInterval
  \/ KeepaliveOnly /\ TimePasses
  \/ KeepaliveOnly /\ TimeoutElapses
  \/ KeepaliveOnly /\ Cancel
  \/ KeepaliveOnly /\ GoOnline
  \/ KeepaliveOnly /\ PongArrives
  \/ KeepaliveOnly /\ Traffic
  \/ KeepaliveOnly /\ OutsideActivity
  \/ KeepaliveOnly /\ ForwardEvent
  \/ KeepaliveOnly /\ PathDown
  \/ \E m \in AppMessages : KeepaliveOnly /\ Call(m)
  \/ UringOnly /\ try_send
  \/ UringOnly /\ recv
  \/ UringOnly /\ HostSends
  \/ UringOnly /\ KernelTakes
  \/ \E u \in Entries, ok \in BOOLEAN : UringOnly /\ KernelWrites(u, ok)
  \/ \E u \in Entries : UringOnly /\ KernelReads(u)
  \/ \E u \in Entries : UringOnly /\ ReadEndsEmpty(u)
  \/ UringOnly /\ Submit
  \/ UringOnly /\ CheckEmpty
  \/ UringOnly /\ WaitForTx
  \/ UringOnly /\ WaitForEvent
  \/ UringOnly /\ SyncAfterWait
  \/ UringOnly /\ push_tx_events_to
  \/ UringOnly /\ push_rx_events_to
  \/ \E i \in Indexes : UringOnly /\ CompleteTx(i)
  \/ \E i \in Indexes : UringOnly /\ CompleteEmptyRx(i)
  \/ \E i \in Indexes : UringOnly /\ CompleteRx(i)
  \/ \E i \in Indexes : UringOnly /\ Reserve(i)
  \/ UringOnly /\ TurnEnds
  \/ \E key \in LaneKeys \cup {INVALID} : LaneOnly /\ update_next_self_key(key)
  \/ LaneOnly /\ promote_self_key
  \/ \E v \in Versions : LaneOnly /\ set_version(v)
  \/ \E w \in Sealers, encoded \in BOOLEAN : LaneOnly /\ reserve_counter(w, encoded)
  \/ \E w \in Sealers : LaneOnly /\ ReadVersion(w)
  \/ \E w \in Sealers : LaneOnly /\ NoKey(w)
  \/ \E w \in Sealers : LaneOnly /\ keys_read(w)
  \/ \E w \in Sealers : LaneOnly /\ take(w)
  \/ \E w \in Sealers : LaneOnly /\ BuildFails(w)
  \/ \E w \in Sealers : LaneOnly /\ give_back(w)
  \/ \E w \in Sealers : LaneOnly /\ append_frame(w)
  \/ \E w \in Sealers : LaneOnly /\ EncryptFails(w)
  \/ PathOnly /\ \E dst \in Hosts, kind \in Kinds, word \in 0..Ones, size \in {1, InsideMtu} :
                    \E mss \in MssOf(kind) : HostWrites(dst, kind, mss, word, size)
  \/ \E word \in {0, Ones} : PathOnly /\ RemoteAnswers(word)
  \/ PathOnly /\ Configure
  \/ PathOnly /\ ClientForwards
  \/ PathOnly /\ ClientDrops
  \/ PathOnly /\ ClientReplies
  \/ PathOnly /\ Lost
  \/ PathOnly /\ ServerSendsInside
  \/ PathOnly /\ ServerForwards
  \/ PathOnly /\ ClientSendsInside
  \/ PathOnly /\ Consumed

\* Fairness of Keepalive and Uring, for the behaviours that exercise them.
PacketsFairness ==
  /\ WF_packetVars(KeepaliveOnly /\ Handle) /\ WF_packetVars(KeepaliveOnly /\ SendNeeded)
  /\ WF_packetVars(KeepaliveOnly /\ SendInterval) /\ WF_packetVars(KeepaliveOnly /\ TimeoutElapses)
  /\ WF_packetVars(KeepaliveOnly /\ ForwardEvent) /\ WF_packetVars(KeepaliveOnly /\ OutsideActivity)
  /\ WF_packetVars(UringOnly /\ UringTask) /\ WF_packetVars(UringOnly /\ UringKernel) /\ WF_packetVars(UringOnly /\ recv)

PacketsSpec == PacketsInit /\ [][PacketsNext]_packetVars /\ PacketsFairness
=============================================================================
