----------------------------- MODULE ReplayWindow -----------------------------
(***************************************************************************)
(* The receive half of an ExpressLane session: the sliding replay window   *)
(* and the worker threads that drive it.  Every method takes `&self`, so   *)
(* any number of workers run `try_from_wire` (or its twin `decrypt_into`)  *)
(* on one window: each locks the window to preview the counter, unlocks it *)
(* to run the AEAD, and locks it again to commit.                          *)
(*                                                                         *)
(* The array of 64-bit blocks is the function bitmap from slot numbers to  *)
(* BOOLEAN; a counter's slot is the counter modulo W.  Framing, IVs and    *)
(* payloads are abstracted: a packet is its counter, and whether some      *)
(* installed peer key authenticates it.                                    *)
(***************************************************************************)
EXTENDS Naturals, FiniteSets

CONSTANTS W,          \* WINDOW_SIZE
          Workers,    \* threads receiving on the session
          MaxCounter  \* bound on the counters that arrive

ASSUME WindowAssumption == W \in Nat \ {0} /\ MaxCounter \in Nat

VARIABLES high,      \* highest counter committed so far
          bitmap,    \* one bit per slot
          opening,   \* opening[w]: the packet worker w passed to the AEAD, or NoPacket
          packets_received, \* frames returned to the caller
          delivered, \* counters of the packets returned to the caller (history)
          verdict    \* the window's last decision (history)

vars == <<high, bitmap, opening, packets_received, delivered, verdict>>

Counters == 0..MaxCounter
Slots    == 0..(W - 1)
Packets  == [counter : Counters, authentic : BOOLEAN]
NoPacket == [counter |-> 0, authentic |-> FALSE]

-----------------------------------------------------------------------------
index(c) == c % W

(* Why a counter is turned away: the zero sentinel, too old, or seen.      *)
would_reject(c) ==
  \/ c = 0
  \/ /\ c <= high
     /\ \/ high - c >= W
        \/ bitmap[index(c)]

(* The slots a forward move to c slides across, c's own slot excluded.     *)
ClearFrom(c) == IF c >= W /\ c - (W - 1) > high + 1 THEN c - (W - 1) ELSE high + 1

CrossedShort(c) == {index(d) : d \in (ClearFrom(c) + 1)..(c - 1)} \* mutant: off by one

Crossed(c) == {index(d) : d \in ClearFrom(c)..(c - 1)}

(* The bitmap after the slide and before c's own bit is set.               *)
Slid(c) ==
  IF c <= high THEN bitmap
  ELSE [s \in Slots |->
          bitmap[s] /\ c - high < W /\ s \notin Crossed(c)]

(* commit of a counter that passes the repeated check.                     *)
Record(c) ==
  /\ bitmap' = [Slid(c) EXCEPT ![index(c)] = TRUE]
  /\ high'   = IF c > high THEN c ELSE high

-----------------------------------------------------------------------------
Init ==
  /\ high = 0
  /\ bitmap = [s \in Slots |-> FALSE]
  /\ opening = [w \in Workers |-> NoPacket]
  /\ packets_received = 0
  /\ delivered = {}
  /\ verdict = [counter |-> 0, ok |-> FALSE]

(* A frame reaches worker w and the preview turns it away.                 *)
PreviewReject(w, p) ==
  /\ opening[w] = NoPacket
  /\ would_reject(p.counter)
  /\ verdict' = [counter |-> p.counter, ok |-> FALSE]
  /\ UNCHANGED <<high, bitmap, opening, packets_received, delivered>>

PreviewCommits(w, p) ==                                          \* mutant: records before the AEAD
  /\ opening[w] = NoPacket
  /\ ~would_reject(p.counter)
  /\ Record(p.counter)
  /\ opening' = [opening EXCEPT ![w] = p]
  /\ UNCHANGED <<packets_received, delivered, verdict>>

(* The preview admits the frame; the window's lock is released.            *)
PreviewPass(w, p) ==
  /\ opening[w] = NoPacket
  /\ ~would_reject(p.counter)
  /\ opening' = [opening EXCEPT ![w] = p]
  /\ UNCHANGED <<high, bitmap, packets_received, delivered, verdict>>

(* Neither peer key opens the frame: the window is left as it was.         *)
OpenFails(w) ==
  /\ opening[w] # NoPacket
  /\ ~opening[w].authentic
  /\ opening' = [opening EXCEPT ![w] = NoPacket]
  /\ UNCHANGED <<high, bitmap, packets_received, delivered, verdict>>

CommitBlind(w) ==                                                \* mutant: trusts the preview
  LET c == opening[w].counter IN
  /\ opening[w] # NoPacket
  /\ opening[w].authentic
  /\ Record(c)
  /\ packets_received' = packets_received + 1
  /\ delivered' = delivered \cup {c}
  /\ verdict' = [counter |-> c, ok |-> TRUE]
  /\ opening' = [opening EXCEPT ![w] = NoPacket]

(* The frame authenticated, and commit decides again under the lock.       *)
Commit(w) ==
  LET c == opening[w].counter IN
  /\ opening[w] # NoPacket
  /\ opening[w].authentic
  /\ \/ /\ would_reject(c)
        /\ verdict' = [counter |-> c, ok |-> FALSE]
        /\ UNCHANGED <<high, bitmap, packets_received, delivered>>
     \/ /\ ~would_reject(c)
        /\ Record(c)
        /\ packets_received' = packets_received + 1
        /\ delivered' = delivered \cup {c}
        /\ verdict' = [counter |-> c, ok |-> TRUE]
  /\ opening' = [opening EXCEPT ![w] = NoPacket]

Next == \E w \in Workers : \/ OpenFails(w)
                           \/ Commit(w)
                           \/ \E p \in Packets : PreviewReject(w, p) \/ PreviewPass(w, p)

Spec == Init /\ [][Next]_vars

-----------------------------------------------------------------------------
(* The window and the place of every receiving thread have their types     *)
(* (replay_window.rs).                                                     *)
TypeOK ==
  /\ high \in Counters
  /\ bitmap \in [Slots -> BOOLEAN]
  /\ opening \in [Workers -> Packets]
  /\ packets_received \in Nat
  /\ delivered \subseteq Counters
  /\ verdict \in [counter : Counters, ok : BOOLEAN]

(* high is the highest delivered counter, and within the window the bitmap *)
(* remembers exactly the delivered counters: neither a stale bit of an     *)
(* earlier lap nor a forgotten one.                                        *)
WindowExact ==
  /\ \A d \in delivered : 0 < d /\ d <= high
  /\ high > 0 => high \in delivered
  /\ \A c \in 1..high : high - c < W => (bitmap[index(c)] <=> c \in delivered)

(* Each packet is delivered at most once, whatever the workers interleave: *)
(* the frames returned are as many as the distinct counters among them.    *)
NeverTwice == packets_received = Cardinality(delivered)

(* A counter that no frame authenticated never moves the window (session.rs: *)
(* a forged counter must not lock out real traffic).                        *)
OnlyAuthenticMoves ==
  [][high' # high => \E w \in Workers : opening[w] = [counter |-> high', authentic |-> TRUE]]_vars

Abstract == INSTANCE AntiReplay WITH W <- W, Counters <- Counters, delivered <- delivered, verdict <- verdict

(* The window's verdicts are those of the abstract receiver.               *)
Implements == Abstract!Spec
=============================================================================
