----------------------------- MODULE FrameChannel -----------------------------
(***************************************************************************)
(* What a connection promises about the frames of its peer: each is handed *)
(* over whole, once and in order.  A frame may be left behind (the peer is *)
(* gone, an error ended the connection), but none is passed over.          *)
(* FrameStream, the bytes and the buffer of the code, implements this.     *)
(***************************************************************************)
EXTENDS Sequences, Naturals

CONSTANT Frames

VARIABLES sent,     \* the frames given to the channel
          received  \* the frames handed over

channelVars == <<sent, received>>

ChannelInit == sent = <<>> /\ received = <<>>

ChannelSend(f) == sent' = Append(sent, f) /\ UNCHANGED received

ChannelReceive ==
  /\ Len(received) < Len(sent)
  /\ received' = Append(received, sent[Len(received) + 1])
  /\ UNCHANGED sent

ChannelNext == (\E f \in Frames : ChannelSend(f)) \/ ChannelReceive

ChannelSpec == ChannelInit /\ [][ChannelNext]_channelVars
=============================================================================
