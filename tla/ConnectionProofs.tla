---------------------------- MODULE ConnectionProofs ----------------------------
(***************************************************************************)
(* For every environment, on datagrams and on streams, with any number of  *)
(* losses, failed writes, repeats, key updates and copies: a tunnel's two  *)
(* ends agree on being Online, a closed connection stays closed, the chain *)
(* of ticks does not break, and no frame meets a state that refuses it but *)
(* a datagram that overtook the reply to the client's request.             *)
(***************************************************************************)
EXTENDS Connection, SequenceTheorems, TLAPS

(* The record of a Connection.                                             *)
ConnRecord == [state : State, interval : BOOLEAN, timer : BOOLEAN, key : KeyState,
               updating : BOOLEAN, resends : 0..MaxResends]

Up(e) == conn[e].state \in {"Online", "Disconnected"}

(* What a frame under way says of the two ends: a request, that the client *)
(* is past its handshake; a reply, that the client was granted and the     *)
(* server went Online; the frames of an Online end, that the other was on  *)
(* its way there.  No frame travels in the wrong direction.                *)
FramesVouch ==
  /\ "AuthRequest" \notin Range(net["client"]) /\ "AuthSuccess" \notin Range(net["server"])
  /\ granted \/ "AuthRequest" \in Range(net["server"]) => conn["client"].state # "Connecting"
  /\ "AuthSuccess" \in Range(net["client"]) => granted /\ Up("server")
  /\ (\E f \in Traffic : f \in Range(net["client"])) => granted
  /\ (\E f \in Traffic : f \in Range(net["server"])) => Up("server")
  /\ conn["server"].state = "Online" => granted

(* A stream keeps its order: the client is up, or every frame of an Online *)
(* server that is under way to it has the reply ahead of it.               *)
Behind(q) ==
  \A i \in DOMAIN q : q[i] \in Traffic => \E j \in DOMAIN q : j < i /\ q[j] = "AuthSuccess"

StreamOrder ==
  ~Datagram /\ ~Up("client") =>
    /\ Behind(net["client"])
    /\ conn["server"].state = "Online" => "AuthSuccess" \in Range(net["client"])

(* A stream has no ticks.                                                  *)
Tickless == ~Datagram => \A e \in Ends : ~conn[e].interval /\ ~conn[e].timer

ConnInv ==
  /\ TypeOK /\ env \in Environments
  /\ conn["server"].state # "Authenticating"
  /\ Tickless /\ FramesVouch /\ StreamOrder /\ OnlineAgreed /\ TickArmed /\ NoProtocolError

-----------------------------------------------------------------------------
(* Sequences of messages.                                                  *)
LEMMA Remaining ==
  ASSUME NEW S, NEW q \in Seq(S), NEW i \in DOMAIN q
  PROVE  /\ RemoveAt(q, i) \in Seq(S) /\ Range(RemoveAt(q, i)) \subseteq Range(q)
         /\ DOMAIN RemoveAt(q, i) = 1..(Len(q) - 1)
         /\ \A k \in 1..(Len(q) - 1) : k >= i => RemoveAt(q, i)[k] = q[k + 1]
<1>0. i \in 1..Len(q) /\ DOMAIN q = 1..Len(q) /\ Len(q) \in Nat
  BY LenProperties
<1> DEFINE a == SubSeq(q, 1, i - 1)
           b == SubSeq(q, i + 1, Len(q))
<1>1. /\ a \in Seq(S) /\ Len(a) = i - 1 /\ \A k \in 1..(i - 1) : a[k] = q[k]
      /\ b \in Seq(S) /\ Len(b) = Len(q) - i /\ \A k \in 1..(Len(q) - i) : b[k] = q[k + i]
  <2>1. \A k \in 1..Len(q) : q[k] \in S
    BY <1>0, ElementOfSeq
  <2>2. PICK n \in Nat : n = Len(q)
    BY <1>0
  <2>3. /\ a \in Seq(S) /\ Len(a) = IF 1 <= i - 1 THEN i - 1 - 1 + 1 ELSE 0
        /\ \A k \in 1..(i - 1 - 1 + 1) : a[k] = q[1 + k - 1]
    BY <1>0, <2>1, <2>2, SubSeqProperties
  <2>4. /\ b \in Seq(S) /\ Len(b) = IF i + 1 <= n THEN n - (i + 1) + 1 ELSE 0
        /\ \A k \in 1..(n - (i + 1) + 1) : b[k] = q[(i + 1) + k - 1]
    <3>1. i + 1 \in Int /\ n \in Int /\ \A k \in (i + 1)..n : q[k] \in S
      BY <1>0, <2>1, <2>2
    <3>2. b = SubSeq(q, i + 1, n)
      BY <2>2
    <3> QED
      BY <3>1, <3>2, SubSeqProperties, SMTT(30)
  <2> HIDE DEF a, b
  <2>5. Len(a) = i - 1 /\ \A k \in 1..(i - 1) : a[k] = q[k]
    BY <1>0, <2>3
  <2>6. Len(b) = n - i
    BY <1>0, <2>2, <2>4
  <2>7. ASSUME NEW k \in 1..(n - i) PROVE b[k] = q[k + i]
    <3>1. k \in 1..(n - (i + 1) + 1) /\ (i + 1) + k - 1 = k + i
      BY <1>0, <2>2
    <3> QED
      BY <2>4, <3>1
  <2> QED
    BY <2>2, <2>3, <2>4, <2>5, <2>6, <2>7
<1>2. RemoveAt(q, i) = a \o b
  BY DEF RemoveAt
<1> HIDE DEF a, b
<1>3. a \o b \in Seq(S) /\ Len(a \o b) = Len(q) - 1 /\ DOMAIN (a \o b) = 1..(Len(q) - 1)
  <2>1. a \o b \in Seq(S) /\ Len(a \o b) = Len(a) + Len(b)
    BY <1>1, ConcatProperties
  <2>2. Len(a) + Len(b) = Len(q) - 1
    BY <1>0, <1>1
  <2> QED
    BY <2>1, <2>2, LenProperties
<1>4. ASSUME NEW k \in DOMAIN (a \o b)
      PROVE  (\E j \in DOMAIN q : (a \o b)[k] = q[j]) /\ (k >= i => (a \o b)[k] = q[k + 1])
  <2>1. k \in 1..(Len(q) - 1)
    BY <1>0, <1>3
  <2>2. CASE k <= i - 1
    <3>1. (a \o b)[k] = a[k] /\ a[k] = q[k] /\ k \in 1..Len(q)
      BY <1>0, <1>1, <2>1, <2>2
    <3> QED
      BY <1>0, <2>1, <2>2, <3>1
  <2>3. CASE k > i - 1
    <3>1. (a \o b)[k] = b[k - (i - 1)] /\ k - (i - 1) \in 1..(Len(q) - i)
      BY <1>0, <1>1, <2>1, <2>3
    <3>2. b[k - (i - 1)] = q[(k - (i - 1)) + i] /\ (k - (i - 1)) + i \in 1..Len(q)
      BY <1>0, <1>1, <3>1, SMTT(30)
    <3>3. (k - (i - 1)) + i = k + 1
      BY <1>0, <2>1
    <3> QED
      BY <1>0, <3>1, <3>2, <3>3
  <2> QED
    BY <1>0, <2>1, <2>2, <2>3
<1>5. Range(a \o b) \subseteq Range(q)
  BY <1>4 DEF Range
<1>6. \A k \in 1..(Len(q) - 1) : k >= i => (a \o b)[k] = q[k + 1]
  BY <1>3, <1>4
<1> QED
  BY <1>2, <1>3, <1>5, <1>6

LEMMA Joined ==
  ASSUME NEW S, NEW q \in Seq(S), NEW r \in Seq(S)
  PROVE  q \o r \in Seq(S) /\ Range(q \o r) = Range(q) \cup Range(r)
<1>0. DOMAIN q = 1..Len(q) /\ DOMAIN r = 1..Len(r) /\ Len(q) \in Nat /\ Len(r) \in Nat
  BY LenProperties
<1>1. q \o r \in Seq(S) /\ DOMAIN (q \o r) = 1..(Len(q) + Len(r))
  BY <1>0
<1>2. \A k \in 1..(Len(q) + Len(r)) : (q \o r)[k] = IF k <= Len(q) THEN q[k] ELSE r[k - Len(q)]
  BY <1>0
<1>3. ASSUME NEW k \in 1..Len(r)
      PROVE  r[k] = (q \o r)[k + Len(q)] /\ k + Len(q) \in 1..(Len(q) + Len(r))
  BY <1>0, <1>2
<1>4. ASSUME NEW k \in 1..Len(q) PROVE q[k] = (q \o r)[k] /\ k \in 1..(Len(q) + Len(r))
  BY <1>0, <1>2
<1>5. Range(q) \cup Range(r) \subseteq Range(q \o r)
  BY <1>0, <1>1, <1>3, <1>4 DEF Range
<1>6. ASSUME NEW k \in 1..(Len(q) + Len(r)) PROVE (q \o r)[k] \in Range(q) \cup Range(r)
  <2>1. CASE k <= Len(q)
    BY <1>0, <1>2, <2>1 DEF Range
  <2>2. CASE k > Len(q)
    <3>1. (q \o r)[k] = r[k - Len(q)] /\ k - Len(q) \in 1..Len(r)
      BY <1>0, <1>2, <2>2
    <3> QED
      BY <1>0, <3>1 DEF Range
  <2> QED
    BY <1>0, <2>1, <2>2
<1>7. Range(q \o r) \subseteq Range(q) \cup Range(r)
  BY <1>1, <1>6 DEF Range
<1> QED
  BY <1>1, <1>5, <1>7

LEMMA Few ==
  ASSUME NEW S
  PROVE  /\ <<>> \in Seq(S) /\ Range(<<>>) = {}
         /\ \A x \in S : <<x>> \in Seq(S) /\ Range(<<x>>) = {x}
         /\ \A x, y \in S : <<x, y>> \in Seq(S) /\ Range(<<x, y>>) = {x, y}
         /\ \A s \in Seq(S), x \in S : Append(s, x) \in Seq(S) /\ Range(Append(s, x)) = Range(s) \cup {x}
<1>1. <<>> \in Seq(S) /\ Range(<<>>) = {}
  BY DEF Range
<1>2. ASSUME NEW x \in S PROVE <<x>> \in Seq(S) /\ Range(<<x>>) = {x}
  BY DEF Range
<1>3. ASSUME NEW x \in S, NEW y \in S PROVE <<x, y>> \in Seq(S) /\ Range(<<x, y>>) = {x, y}
  <2>1. <<x, y>> \in Seq(S) /\ DOMAIN <<x, y>> = {1, 2} /\ <<x, y>>[1] = x /\ <<x, y>>[2] = y
    OBVIOUS
  <2> QED
    BY <2>1 DEF Range
<1>4. ASSUME NEW s \in Seq(S), NEW x \in S
      PROVE  Append(s, x) \in Seq(S) /\ Range(Append(s, x)) = Range(s) \cup {x}
  <2>1. Append(s, x) = s \o <<x>>
    BY AppendIsConcat
  <2>2. <<x>> \in Seq(S) /\ Range(<<x>>) = {x}
    BY <1>2
  <2>3. s \o <<x>> \in Seq(S) /\ Range(s \o <<x>>) = Range(s) \cup Range(<<x>>)
    BY <2>2, Joined, ZenonT(40)
  <2> QED
    BY <2>1, <2>2, <2>3
<1> QED
  BY <1>1, <1>2, <1>3, <1>4

-----------------------------------------------------------------------------
(* What a call on a Connection does to the record and says to the peer.    *)
Armed(c) == c.interval => c.timer

Sound(c, r) ==
  /\ r.c \in ConnRecord /\ r.err \in Error /\ r.out \in Seq(Message)
  /\ c.state = "Disconnected" => r.c.state = "Disconnected"
  /\ c.state = "Online" => r.c.state \in {"Online", "Disconnected"}

(* A message handed to end e leaves a record and frames the invariant      *)
(* allows.                                                                 *)
Handled(e, c, m, grant, r) ==
  /\ Sound(c, r)
  /\ ~Datagram => r.c.interval = c.interval /\ r.c.timer = c.timer
  /\ Armed(c) => Armed(r.c)
  /\ r.c.state = "Online" =>
       \/ c.state = "Online"
       \/ e = "client" /\ m = "AuthSuccess"
       \/ e = "server" /\ m = "AuthRequest" /\ grant /\ Authenticates(c)
  /\ e = "server" /\ c.state # "Authenticating" => r.c.state # "Authenticating"
  /\ r.err = "InvalidMode" => (e = "client" /\ m = "AuthRequest") \/ (e = "server" /\ m = "AuthSuccess")
  /\ r.err = "InvalidState" =>
       /\ c.state \notin {"Online", "Disconnected"} /\ r.c.state # "Online"
       /\ m \in Traffic \/ (e = "server" /\ c.state = "Authenticating")
  /\ c.state # "Connecting" => r.c.state # "Connecting"
  /\ "AuthRequest" \in Range(r.out) => e = "client" /\ r.c.state # "Connecting"
  /\ "AuthSuccess" \in Range(r.out) =>
       e = "server" /\ m = "AuthRequest" /\ grant /\ Authenticates(c) /\ r.c.state = "Online"
  /\ \A f \in Traffic : f \in Range(r.out) => c.state = "Online"

LEMMA TickInterval ==
  ASSUME Datagram \in BOOLEAN, NEW c \in ConnRecord
  PROVE  /\ UpdateTickInterval(c) \in ConnRecord
         /\ UpdateTickInterval(c).state = c.state
         /\ ~Datagram => UpdateTickInterval(c) = c
         /\ Datagram => Armed(UpdateTickInterval(c))
<1>1. CASE ~Datagram
  BY <1>1 DEF UpdateTickInterval
<1>2. CASE Datagram /\ c.state = "Online" /\ c.key # "Pending"
  <2>1. UpdateTickInterval(c) = [c EXCEPT !.interval = FALSE]
    BY <1>2 DEF UpdateTickInterval
  <2> QED
    BY <1>2, <2>1 DEF ConnRecord, Armed
<1>3. CASE Datagram /\ ~(c.state = "Online" /\ c.key # "Pending")
  <2>1. UpdateTickInterval(c) = [c EXCEPT !.interval = TRUE, !.timer = TRUE]
    BY <1>3 DEF UpdateTickInterval
  <2> QED
    BY <1>3, <2>1 DEF ConnRecord, Armed
<1> QED
  BY <1>1, <1>2, <1>3

(* The fields of a record one at a time.                                   *)
LEMMA Whole ==
  ASSUME NEW c \in ConnRecord
  PROVE  /\ c.state \in State /\ c.interval \in BOOLEAN /\ c.timer \in BOOLEAN /\ c.key \in KeyState
         /\ c.updating \in BOOLEAN /\ c.resends \in 0..MaxResends
         /\ c = [state |-> c.state, interval |-> c.interval, timer |-> c.timer, key |-> c.key,
                 updating |-> c.updating, resends |-> c.resends]
BY DEF ConnRecord

LEMMA StateField ==
  ASSUME NEW c \in ConnRecord, NEW s \in State
  PROVE  LET d == [c EXCEPT !.state = s] IN
         /\ d \in ConnRecord /\ d.state = s /\ d.interval = c.interval /\ d.timer = c.timer
         /\ d.key = c.key /\ d.updating = c.updating /\ d.resends = c.resends
BY Whole DEF ConnRecord

LEMMA KeyField ==
  ASSUME NEW c \in ConnRecord, NEW k \in KeyState
  PROVE  LET d == [c EXCEPT !.key = k] IN
         /\ d \in ConnRecord /\ d.state = c.state /\ d.interval = c.interval /\ d.timer = c.timer
         /\ d.key = k /\ d.updating = c.updating /\ d.resends = c.resends
BY Whole DEF ConnRecord

LEMMA ResendsField ==
  ASSUME NEW c \in ConnRecord, NEW n \in 0..MaxResends
  PROVE  LET d == [c EXCEPT !.resends = n] IN
         /\ d \in ConnRecord /\ d.state = c.state /\ d.interval = c.interval /\ d.timer = c.timer
         /\ d.key = c.key /\ d.updating = c.updating /\ d.resends = n
BY Whole DEF ConnRecord

LEMMA TimerField ==
  ASSUME NEW c \in ConnRecord
  PROVE  LET d == [c EXCEPT !.timer = FALSE] IN
         /\ d \in ConnRecord /\ d.state = c.state /\ d.interval = c.interval /\ d.timer = FALSE
         /\ d.key = c.key /\ d.updating = c.updating /\ d.resends = c.resends
BY Whole DEF ConnRecord

LEMMA UpdatingField ==
  ASSUME NEW c \in ConnRecord, NEW b \in BOOLEAN
  PROVE  LET d == [c EXCEPT !.updating = b] IN
         /\ d \in ConnRecord /\ d.state = c.state /\ d.interval = c.interval /\ d.timer = c.timer
         /\ d.key = c.key /\ d.updating = b /\ d.resends = c.resends
BY Whole DEF ConnRecord

Special == {"AuthRequest", "AuthSuccess"} \cup Traffic

(* The short sequences a call writes.                                      *)
LEMMA Answers ==
  /\ <<>> \in Seq(Message) /\ Range(<<>>) = {}
  /\ \A x \in Message : <<x>> \in Seq(Message) /\ Range(<<x>>) = {x}
  /\ \A x, y \in Message : <<x, y>> \in Seq(Message) /\ Range(<<x, y>>) = {x, y}
  /\ \A s \in Seq(Message), x \in Message :
        Append(s, x) \in Seq(Message) /\ Range(Append(s, x)) = Range(s) \cup {x}
BY Few

(* Nothing but a plain answer, and a record that keeps its state.          *)
Plain(c, r) ==
  /\ r.c \in ConnRecord /\ r.out \in Seq(Message) /\ r.err \in Error
  /\ r.c.state = c.state
  /\ ~Datagram => r.c.interval = c.interval /\ r.c.timer = c.timer
  /\ Armed(c) => Armed(r.c)
  /\ \A f \in Special : f \notin Range(r.out)
  /\ r.err \notin {"InvalidMode", "InvalidState"}

LEMMA PlainAnswer ==
  ASSUME NEW e, NEW c, NEW m, NEW grant, NEW r, Plain(c, r)
  PROVE  Handled(e, c, m, grant, r)
<1>1. Sound(c, r)
  BY DEF Sound, Plain
<1>2. /\ "AuthRequest" \notin Range(r.out) /\ "AuthSuccess" \notin Range(r.out)
      /\ \A f \in Traffic : f \notin Range(r.out)
  BY DEF Special, Plain
<1> QED
  BY <1>1, <1>2 DEF Handled, Plain

LEMMA NegotiateHandled ==
  ASSUME Datagram \in BOOLEAN, MaxResends \in Nat, NEW e \in Ends, NEW c \in ConnRecord, c.state = "Connecting",
         NEW m \in Message, NEW grant, NEW fail \in {0, 1, 2}
  PROVE  Handled(e, c, m, grant, Negotiate(e, c, m, fail))
<1>a. "Flight" \in Message /\ "Finished" \in Message /\ "AuthRequest" \in Message
  BY DEF Message, LibraryMessage, Frame
<1>b. /\ "Write" \in Error /\ "None" \in Error
      /\ "Write" \notin {"InvalidMode", "InvalidState"} /\ "None" \notin {"InvalidMode", "InvalidState"}
  BY DEF Error
<1>c. <<"Finished">> \in Seq(Message) /\ Range(<<"Finished">>) = {"Finished"}
  BY <1>a, Answers
<1>0. /\ <<>> \in Seq(Message) /\ Range(<<>>) = {}
      /\ <<"Flight">> \in Seq(Message) /\ Range(<<"Flight">>) = {"Flight"}
      /\ Append(<<"Finished">>, "AuthRequest") \in Seq(Message)
      /\ Range(Append(<<"Finished">>, "AuthRequest")) = {"Finished"} \cup {"AuthRequest"}
  BY <1>a, <1>c, Answers
<1>d. /\ \A f \in Special : f \notin Range(<<>>)
      /\ \A f \in Special : f \notin Range(<<"Flight">>)
  BY <1>0 DEF Special, Traffic
<1>1. PICK u \in ConnRecord : /\ u = UpdateTickInterval(c) /\ u.state = c.state
                              /\ (~Datagram => u = c) /\ (Armed(c) => Armed(u))
  BY TickInterval
<1>2. CASE m \in {"Hello", "Flight"} /\ fail = 1
  <2>1. PICK r : r = Negotiate(e, c, m, fail) /\ r.c = c /\ r.out = <<>> /\ r.err = "Write"
    <3>1. Negotiate(e, c, m, fail) = Result(c, <<>>, "Write")
      BY <1>2 DEF Negotiate
    <3> QED
      BY <3>1 DEF Result
  <2>2. Plain(c, r)
    BY <1>0, <1>b, <1>d, <2>1 DEF Plain
  <2> QED
    BY <2>1, <2>2, PlainAnswer
<1>3. CASE e = "server" /\ m = "Hello" /\ fail # 1
  <2>1. PICK r : r = Negotiate(e, c, m, fail) /\ r.c = u /\ r.out = <<"Flight">> /\ r.err = "None"
    <3>1. Negotiate(e, c, m, fail) = Result(u, <<"Flight">>, "None")
      BY <1>1, <1>3 DEF Negotiate
    <3> QED
      BY <3>1 DEF Result
  <2>2. Plain(c, r)
    BY <1>0, <1>1, <1>b, <1>d, <2>1 DEF Plain
  <2> QED
    BY <2>1, <2>2, PlainAnswer
<1>4. CASE e = "client" /\ m = "Flight" /\ fail # 1
  <2>1. PICK d \in ConnRecord :
          /\ d = [[c EXCEPT !.resends = 0] EXCEPT !.state = "Authenticating"]
          /\ d.state = "Authenticating" /\ d.interval = c.interval /\ d.timer = c.timer
    <3>1. LET d == [[c EXCEPT !.resends = 0] EXCEPT !.state = "Authenticating"]
          IN d \in ConnRecord /\ d.state = "Authenticating" /\ d.interval = c.interval /\ d.timer = c.timer
      <4>1. 0 \in 0..MaxResends /\ "Authenticating" \in State
        BY DEF State
      <4>2. PICK b \in ConnRecord : b = [c EXCEPT !.resends = 0] /\ b.interval = c.interval /\ b.timer = c.timer
        BY <4>1, ResendsField
      <4>3. LET d == [b EXCEPT !.state = "Authenticating"]
            IN d \in ConnRecord /\ d.state = "Authenticating" /\ d.interval = b.interval /\ d.timer = b.timer
        BY <4>1, <4>2, StateField
      <4> QED
        BY <4>2, <4>3
    <3> QED
      BY <3>1
  <2>2. PICK r : /\ r = Negotiate(e, c, m, fail) /\ r.c = d /\ r.err \in {"Write", "None"}
                 /\ r.out \in {<<"Finished">>, Append(<<"Finished">>, "AuthRequest")}
    <3>1. Negotiate(e, c, m, fail) = Authenticate([c EXCEPT !.resends = 0], <<"Finished">>, fail = 2)
      BY <1>4 DEF Negotiate
    <3>2. Negotiate(e, c, m, fail) = IF fail = 2 THEN Result(d, <<"Finished">>, "Write")
                                     ELSE Result(d, Append(<<"Finished">>, "AuthRequest"), "None")
      BY <2>1, <3>1 DEF Authenticate
    <3> QED
      BY <3>2 DEF Result
  <2>3. r.out \in Seq(Message) /\ Range(r.out) \subseteq {"Finished", "AuthRequest"}
    BY <1>0, <1>c, <2>2
  <2>4. Sound(c, r)
    BY <2>1, <2>2, <2>3 DEF Sound, Error
  <2>5. Armed(c) => Armed(r.c)
    BY <2>1, <2>2 DEF Armed
  <2> QED
    BY <1>4, <2>1, <2>2, <2>3, <2>4, <2>5 DEF Handled, Traffic
<1>5. CASE e = "server" /\ m = "Finished"
  <2>1. PICK d \in ConnRecord :
          /\ d = [c EXCEPT !.state = "LinkUp", !.resends = 0]
          /\ d.state = "LinkUp" /\ d.interval = c.interval /\ d.timer = c.timer
    <3>1. LET d == [c EXCEPT !.state = "LinkUp", !.resends = 0]
          IN d \in ConnRecord /\ d.state = "LinkUp" /\ d.interval = c.interval /\ d.timer = c.timer
      <4>1. 0 \in 0..MaxResends /\ "LinkUp" \in State
        BY DEF State
      <4>2. PICK b \in ConnRecord : b = [c EXCEPT !.state = "LinkUp"] /\ b.state = "LinkUp"
                                    /\ b.interval = c.interval /\ b.timer = c.timer
        BY <4>1, StateField
      <4>3. LET d == [b EXCEPT !.resends = 0]
            IN d \in ConnRecord /\ d.state = b.state /\ d.interval = b.interval /\ d.timer = b.timer
        BY <4>1, <4>2, ResendsField
      <4>4. [c EXCEPT !.state = "LinkUp", !.resends = 0] = [b EXCEPT !.resends = 0]
        BY <4>2
      <4> QED
        BY <4>2, <4>3, <4>4
    <3> QED
      BY <3>1
  <2>2. PICK r : r = Negotiate(e, c, m, fail) /\ r.c = d /\ r.out = <<>> /\ r.err = "None"
    <3>1. Negotiate(e, c, m, fail) = Result(d, <<>>, "None")
      BY <1>5, <2>1 DEF Negotiate
    <3> QED
      BY <3>1 DEF Result
  <2>4. Sound(c, r)
    BY <1>0, <2>1, <2>2 DEF Sound, Error
  <2>5. Armed(c) => Armed(r.c)
    BY <2>1, <2>2 DEF Armed
  <2> QED
    BY <1>0, <1>5, <2>1, <2>2, <2>4, <2>5 DEF Handled, Traffic
<1>6. CASE /\ ~(m \in {"Hello", "Flight"} /\ fail = 1) /\ ~(e = "server" /\ m = "Hello" /\ fail # 1)
           /\ ~(e = "client" /\ m = "Flight" /\ fail # 1) /\ ~(e = "server" /\ m = "Finished")
  <2>1. PICK r : r = Negotiate(e, c, m, fail) /\ r.c = u /\ r.out = <<>> /\ r.err = "None"
    <3>1. Negotiate(e, c, m, fail) = Result(u, <<>>, "None")
      BY <1>1, <1>6 DEF Negotiate
    <3> QED
      BY <3>1 DEF Result
  <2>2. Plain(c, r)
    BY <1>0, <1>1, <1>b, <1>d, <2>1 DEF Plain
  <2> QED
    BY <2>1, <2>2, PlainAnswer
<1> QED
  BY <1>2, <1>3, <1>4, <1>5, <1>6

LEMMA Disconnects ==
  ASSUME NEW c \in ConnRecord
  PROVE  LET r == Disconnect(c) IN
         /\ r.c \in ConnRecord /\ r.c.interval = c.interval /\ r.c.timer = c.timer
         /\ r.c.state # "Disconnected" => r.c.state = c.state
         /\ MayDisconnect(c) => r.c.state = "Disconnected"
         /\ c.state # "Connecting" => r.c.state = "Disconnected"
         /\ c.state = "Disconnected" => r.c.state = "Disconnected"
         /\ r.c.state = "Online" => c.state = "Online"
         /\ r.out \in Seq(Message) /\ Range(r.out) \subseteq {"Goodbye"}
         /\ r.out = <<>> \/ r.out = <<"Goodbye">>
<1>1. "Disconnected" \in State /\ "Goodbye" \in Message /\ c.state \in State
  BY DEF State, Message, Frame, ConnRecord
<1>2. /\ <<>> \in Seq(Message) /\ Range(<<>>) = {}
      /\ <<"Goodbye">> \in Seq(Message) /\ Range(<<"Goodbye">>) = {"Goodbye"}
  BY <1>1, Answers
<1>3. PICK d \in ConnRecord :
        /\ d = [c EXCEPT !.state = "Disconnected"] /\ d.state = "Disconnected"
        /\ d.interval = c.interval /\ d.timer = c.timer
  BY <1>1, StateField
<1>4. CASE MayDisconnect(c)
  <2>1. PICK r : r = Disconnect(c) /\ r.c = d /\ r.out = <<"Goodbye">> /\ r.err = "None"
    <3>1. Disconnect(c) = Result(d, <<"Goodbye">>, "None")
      BY <1>3, <1>4 DEF Disconnect
    <3> QED
      BY <3>1 DEF Result
  <2> QED
    BY <1>2, <1>3, <2>1
<1>5. CASE ~MayDisconnect(c)
  <2>1. PICK r : r = Disconnect(c) /\ r.c = c /\ r.out = <<>> /\ r.err = "InvalidState"
    <3>1. Disconnect(c) = Result(c, <<>>, "InvalidState")
      BY <1>5 DEF Disconnect
    <3> QED
      BY <3>1 DEF Result
  <2>2. c.state = "Disconnected" \/ c.state = "Connecting"
    BY <1>1, <1>5 DEF MayDisconnect, State
  <2> QED
    BY <1>2, <1>5, <2>1, <2>2
<1> QED
  BY <1>4, <1>5

(* The server's answer to a request.                                       *)
LEMMA RequestHandled ==
  ASSUME Datagram \in BOOLEAN, NEW c \in ConnRecord, c.state \notin {"Connecting", "Disconnected"},
         NEW grant \in BOOLEAN, NEW fail \in BOOLEAN
  PROVE  Handled("server", c, "AuthRequest", grant, HandleAuthRequest(c, grant, fail))
<1>0. /\ "AuthSuccess" \in Message /\ "AuthFailure" \in Message /\ "Goodbye" \in Message
      /\ "InvalidState" \in Error /\ "Write" \in Error /\ "None" \in Error /\ "AccessDenied" \in Error
      /\ "Online" \in State /\ "Waiting" \in KeyState /\ c.key \in KeyState
  BY DEF State, KeyState, Message, Frame, Error, ConnRecord
<1>a. /\ <<>> \in Seq(Message) /\ Range(<<>>) = {}
      /\ <<"AuthSuccess">> \in Seq(Message) /\ Range(<<"AuthSuccess">>) = {"AuthSuccess"}
      /\ <<"AuthFailure">> \in Seq(Message) /\ Range(<<"AuthFailure">>) = {"AuthFailure"}
  BY <1>0, Answers
<1>1. CASE ~Authenticates(c)
  <2>1. PICK r : /\ r = HandleAuthRequest(c, grant, fail) /\ r.c = c
                 /\ r.out = <<>> /\ r.err = "InvalidState"
    <3>1. HandleAuthRequest(c, grant, fail) = Result(c, <<>>, "InvalidState")
      BY <1>1 DEF HandleAuthRequest
    <3> QED
      BY <3>1 DEF Result
  <2>2. c.state = "Authenticating"
    BY <1>1 DEF ConnRecord, State, Authenticates
  <2>3. Sound(c, r)
    BY <1>0, <1>a, <2>1 DEF Sound
  <2> QED
    BY <1>a, <2>1, <2>2, <2>3 DEF Handled, Traffic
<1>2. CASE Authenticates(c) /\ grant
  <2>1. PICK b \in ConnRecord :
          /\ b = [c EXCEPT !.key = IF @ = "Initializing" THEN "Waiting" ELSE @]
          /\ b.state = c.state /\ b.interval = c.interval /\ b.timer = c.timer
    <3>1. PICK k \in KeyState : k = IF c.key = "Initializing" THEN "Waiting" ELSE c.key
      BY <1>0
    <3> QED
      BY <3>1, KeyField
  <2>2. PICK d \in ConnRecord : d = [b EXCEPT !.state = "Online"] /\ d.state = "Online"
                                /\ d.interval = b.interval /\ d.timer = b.timer
    BY <1>0, StateField
  <2>3. CASE fail
    <3>1. PICK r : r = HandleAuthRequest(c, grant, fail) /\ r.c = b /\ r.out = <<>> /\ r.err = "Write"
      <4>1. HandleAuthRequest(c, grant, fail) = Result(b, <<>>, "Write")
        BY <1>2, <2>1, <2>3 DEF HandleAuthRequest, Grant
      <4> QED
        BY <4>1 DEF Result
    <3>2. Plain(c, r)
      BY <1>0, <1>a, <2>1, <3>1 DEF Plain, Armed, Special, Traffic
    <3> QED
      BY <3>1, <3>2, PlainAnswer
  <2>4. CASE ~fail
    <3>1. PICK r : /\ r = HandleAuthRequest(c, grant, fail) /\ r.c = d
                   /\ r.out = <<"AuthSuccess">> /\ r.err = "None"
      <4>1. HandleAuthRequest(c, grant, fail) = Result(d, <<"AuthSuccess">>, "None")
        BY <1>2, <2>1, <2>2, <2>4 DEF HandleAuthRequest, Grant
      <4> QED
        BY <4>1 DEF Result
    <3>2. Sound(c, r)
      BY <1>0, <1>a, <2>2, <3>1 DEF Sound
    <3>3. (Armed(c) => Armed(r.c)) /\ r.c.interval = c.interval /\ r.c.timer = c.timer
      BY <2>1, <2>2, <3>1 DEF Armed
    <3>4. /\ r.c.state = "Online" /\ r.err \notin {"InvalidMode", "InvalidState"}
          /\ \A f \in {"AuthRequest"} \cup Traffic : f \notin Range(r.out)
      BY <1>a, <2>2, <3>1 DEF Traffic
    <3>5. grant /\ Authenticates(c)
      BY <1>2
    <3> QED
      BY <3>1, <3>2, <3>3, <3>4, <3>5 DEF Handled
  <2> QED
    BY <2>3, <2>4
<1>3. CASE Authenticates(c) /\ ~grant
  <2>1. PICK o : /\ o = Disconnect(c) /\ o.c \in ConnRecord
                 /\ o.c.interval = c.interval /\ o.c.timer = c.timer
                 /\ o.c.state = "Disconnected"
                 /\ o.out \in Seq(Message) /\ Range(o.out) \subseteq {"Goodbye"}
    BY Disconnects
  <2>2. PICK r : /\ r = HandleAuthRequest(c, grant, fail) /\ r.c = o.c
                 /\ r.out = <<"AuthFailure">> \o o.out /\ r.err = "AccessDenied"
    <3>1. HandleAuthRequest(c, grant, fail) = Result(o.c, <<"AuthFailure">> \o o.out, "AccessDenied")
      BY <1>3, <2>1 DEF HandleAuthRequest, Deny
    <3> QED
      BY <3>1 DEF Result
  <2>3. r.out \in Seq(Message) /\ Range(r.out) \subseteq {"AuthFailure", "Goodbye"}
    <3>1. PICK a \in Seq(Message) : a = <<"AuthFailure">> /\ Range(a) = {"AuthFailure"}
      BY <1>a
    <3>2. PICK b \in Seq(Message) : b = o.out /\ Range(b) \subseteq {"Goodbye"}
      BY <2>1
    <3>3. a \o b \in Seq(Message) /\ Range(a \o b) = Range(a) \cup Range(b)
      BY Joined
    <3>4. r.out = a \o b
      BY <2>2, <3>1, <3>2
    <3> QED
      BY <3>1, <3>2, <3>3, <3>4
  <2>4. Sound(c, r)
    BY <1>0, <2>1, <2>2, <2>3 DEF Sound
  <2>5. \A f \in Special : f \notin Range(r.out)
    BY <2>3 DEF Special, Traffic
  <2> QED
    BY <2>1, <2>2, <2>4, <2>5 DEF Handled, Armed, Special
<1> QED
  BY <1>1, <1>2, <1>3

(* One message of an end that is up.                                       *)
LEMMA MessageHandled ==
  ASSUME Datagram \in BOOLEAN, MaxResends \in Nat, NEW e \in Ends, NEW c \in ConnRecord,
         c.state \notin {"Connecting", "Disconnected"},
         NEW m \in Message, NEW grant \in BOOLEAN, NEW fail \in BOOLEAN
  PROVE  Handled(e, c, m, grant, HandleMessage(e, c, m, grant, fail))
<1>0. e = "client" \/ e = "server"
  BY DEF Ends
<1>a. /\ "Finished" \in Message /\ "KeyAck" \in Message /\ "Pong" \in Message
      /\ \A x \in {"InvalidMode", "InvalidState", "Unauthorized", "Goodbye", "None", "Write"} : x \in Error
      /\ "Online" \in State /\ 0 \in 0..MaxResends
  BY DEF Message, LibraryMessage, Frame, Error, State
<1>b. /\ <<>> \in Seq(Message) /\ Range(<<>>) = {}
      /\ <<"Finished">> \in Seq(Message) /\ Range(<<"Finished">>) = {"Finished"}
      /\ <<"KeyAck">> \in Seq(Message) /\ Range(<<"KeyAck">>) = {"KeyAck"}
      /\ <<"Pong">> \in Seq(Message) /\ Range(<<"Pong">>) = {"Pong"}
  BY <1>a, Answers
<1>c. /\ \A f \in Special : f \notin Range(<<>>)
      /\ \A f \in Special : f \notin Range(<<"Finished">>)
      /\ \A f \in Special : f \notin Range(<<"KeyAck">>)
  BY <1>b DEF Special, Traffic
<1>1. CASE (m = "AuthRequest" /\ e = "client") \/ (m = "AuthSuccess" /\ e = "server")
  <2>1. PICK r : /\ r = HandleMessage(e, c, m, grant, fail) /\ r.c = c
                 /\ r.out = <<>> /\ r.err = "InvalidMode"
    <3>1. HandleMessage(e, c, m, grant, fail) = Result(c, <<>>, "InvalidMode")
      BY <1>1 DEF HandleMessage, Traffic
    <3> QED
      BY <3>1 DEF Result
  <2>2. Sound(c, r)
    BY <1>a, <1>b, <2>1 DEF Sound
  <2> QED
    BY <1>1, <1>b, <2>1, <2>2 DEF Handled, Traffic
<1>2. CASE m = "AuthRequest" /\ e = "server"
  <2>1. HandleMessage(e, c, m, grant, fail) = HandleAuthRequest(c, grant, fail)
    BY <1>2 DEF HandleMessage, Traffic
  <2>2. Handled("server", c, "AuthRequest", grant, HandleAuthRequest(c, grant, fail))
    BY RequestHandled
  <2> QED
    BY <1>2, <2>1, <2>2
<1>3. CASE m = "AuthSuccess" /\ e = "client"
  <2>1. PICK d \in ConnRecord :
          /\ d = (IF c.state = "Online" THEN c ELSE [c EXCEPT !.state = "Online"])
          /\ d.state = "Online" /\ d.interval = c.interval /\ d.timer = c.timer
    BY <1>a, StateField
  <2>2. PICK r : r = HandleMessage(e, c, m, grant, fail) /\ r.c = d /\ r.out = <<>> /\ r.err = "None"
    <3>1. HandleMessage(e, c, m, grant, fail) = Result(d, <<>>, "None")
      BY <1>3, <2>1 DEF HandleMessage, Traffic, HandleAuthResponse
    <3> QED
      BY <3>1 DEF Result
  <2>3. Sound(c, r)
    BY <1>a, <1>b, <2>1, <2>2 DEF Sound
  <2> QED
    BY <1>3, <1>b, <2>1, <2>2, <2>3 DEF Handled, Armed, Traffic
<1>4. CASE m = "AuthFailure" \/ m = "Goodbye"
  <2>1. PICK x \in Error : x = (IF m = "AuthFailure" THEN "Unauthorized" ELSE "Goodbye")
                           /\ x \notin {"InvalidMode", "InvalidState"}
    BY <1>a
  <2>2. PICK r : r = HandleMessage(e, c, m, grant, fail) /\ r.c = c /\ r.out = <<>> /\ r.err = x
    <3>1. HandleMessage(e, c, m, grant, fail) = Result(c, <<>>, x)
      BY <1>4, <2>1 DEF HandleMessage, Traffic
    <3> QED
      BY <3>1 DEF Result
  <2>3. Plain(c, r)
    BY <1>b, <1>c, <2>1, <2>2 DEF Plain
  <2> QED
    BY <2>2, <2>3, PlainAnswer
<1>5. CASE m \in Traffic
  <2>0. HandleMessage(e, c, m, grant, fail) = HandleTraffic(c, m, fail)
    BY <1>5 DEF HandleMessage, Traffic
  <2>1. CASE c.state # "Online"
    <3>1. PICK r : r = HandleTraffic(c, m, fail) /\ r.c = c /\ r.out = <<>> /\ r.err = "InvalidState"
      <4>1. HandleTraffic(c, m, fail) = Result(c, <<>>, "InvalidState")
        BY <2>1 DEF HandleTraffic
      <4> QED
        BY <4>1 DEF Result
    <3>2. Sound(c, r)
      BY <1>a, <1>b, <3>1 DEF Sound
    <3> QED
      BY <1>5, <1>b, <2>0, <2>1, <3>1, <3>2 DEF Handled
  <2>2. CASE c.state = "Online" /\ m = "Ping" /\ fail
    <3>1. PICK r : r = HandleTraffic(c, m, fail) /\ r.c = c /\ r.out = <<>> /\ r.err = "Write"
      <4>1. HandleTraffic(c, m, fail) = Result(c, <<>>, "Write")
        BY <2>2 DEF HandleTraffic
      <4> QED
        BY <4>1 DEF Result
    <3>2. Plain(c, r)
      BY <1>a, <1>b, <1>c, <3>1 DEF Plain
    <3> QED
      BY <2>0, <3>1, <3>2, PlainAnswer
  <2>3. CASE c.state = "Online" /\ m = "Ping" /\ ~fail
    <3>1. PICK r : r = HandleTraffic(c, m, fail) /\ r.c = c /\ r.out = <<"Pong">> /\ r.err = "None"
      <4>1. HandleTraffic(c, m, fail) = Result(c, <<"Pong">>, "None")
        BY <2>3 DEF HandleTraffic
      <4> QED
        BY <4>1 DEF Result
    <3>2. Sound(c, r)
      BY <1>a, <1>b, <3>1 DEF Sound
    <3> QED
      BY <1>b, <2>0, <2>3, <3>1, <3>2 DEF Handled, Traffic
  <2>4. CASE c.state = "Online" /\ m # "Ping"
    <3>1. PICK r : r = HandleTraffic(c, m, fail) /\ r.c = c /\ r.out = <<>> /\ r.err = "None"
      <4>1. HandleTraffic(c, m, fail) = Result(c, <<>>, "None")
        BY <2>4 DEF HandleTraffic
      <4> QED
        BY <4>1 DEF Result
    <3>2. Plain(c, r)
      BY <1>a, <1>b, <1>c, <3>1 DEF Plain
    <3> QED
      BY <2>0, <3>1, <3>2, PlainAnswer
  <2> QED
    BY <1>5, <2>1, <2>2, <2>3, <2>4
<1>6. CASE m \in {"Flight", "KeyUpdate"}
  <2>1. PICK a \in Seq(Message) : /\ a = (IF m = "Flight" THEN <<"Finished">> ELSE <<"KeyAck">>)
                                  /\ \A f \in Special : f \notin Range(a)
    BY <1>b, <1>c
  <2>2. PICK r : r = HandleMessage(e, c, m, grant, fail) /\ r.c = c /\ r.out = a /\ r.err = "None"
    <3>1. HandleMessage(e, c, m, grant, fail) = Result(c, a, "None")
      BY <1>6, <2>1 DEF HandleMessage, Traffic
    <3> QED
      BY <3>1 DEF Result
  <2>3. Plain(c, r)
    BY <1>a, <2>1, <2>2 DEF Plain
  <2> QED
    BY <2>2, <2>3, PlainAnswer
<1>7. CASE m = "KeyAck"
  <2>1. PICK b \in ConnRecord : b = [c EXCEPT !.updating = FALSE] /\ b.state = c.state
                                /\ b.interval = c.interval /\ b.timer = c.timer
    BY UpdatingField
  <2>2. PICK d \in ConnRecord : d = [b EXCEPT !.resends = 0] /\ d.state = b.state
                                /\ d.interval = b.interval /\ d.timer = b.timer
    BY <1>a, ResendsField
  <2>3. d = [c EXCEPT !.updating = FALSE, !.resends = 0]
    BY <2>1, <2>2
  <2>4. PICK r : r = HandleMessage(e, c, m, grant, fail) /\ r.c = d /\ r.out = <<>> /\ r.err = "None"
    <3>1. HandleMessage(e, c, m, grant, fail) = Result(d, <<>>, "None")
      BY <1>7, <2>3 DEF HandleMessage, Traffic
    <3> QED
      BY <3>1 DEF Result
  <2>5. Plain(c, r)
    BY <1>a, <1>b, <1>c, <2>1, <2>2, <2>4 DEF Plain, Armed
  <2> QED
    BY <2>4, <2>5, PlainAnswer
<1>8. CASE m \in {"Hello", "Finished", "EOF"}
  <2>1. PICK r : r = HandleMessage(e, c, m, grant, fail) /\ r.c = c /\ r.out = <<>> /\ r.err = "None"
    <3>1. HandleMessage(e, c, m, grant, fail) = Result(c, <<>>, "None")
      BY <1>8 DEF HandleMessage, Traffic
    <3> QED
      BY <3>1 DEF Result
  <2>2. Plain(c, r)
    BY <1>a, <1>b, <1>c, <2>1 DEF Plain
  <2> QED
    BY <2>1, <2>2, PlainAnswer
<1> QED
  BY <1>0, <1>1, <1>2, <1>3, <1>4, <1>5, <1>6, <1>7, <1>8 DEF Message, LibraryMessage, Frame, Traffic

(* What is done after a message keeps the state and adds only KeyUpdate.   *)
LEMMA Carried ==
  ASSUME NEW e, NEW c, NEW m, NEW grant, NEW r, Handled(e, c, m, grant, r),
         NEW q, q.c \in ConnRecord, q.c.state = r.c.state, q.out \in Seq(Message), q.err \in Error,
         ~Datagram => q.c.interval = r.c.interval /\ q.c.timer = r.c.timer,
         Armed(r.c) => Armed(q.c),
         Range(q.out) \subseteq Range(r.out) \cup {"KeyUpdate"},
         q.err \notin {"InvalidMode", "InvalidState"}
  PROVE  Handled(e, c, m, grant, q)
<1>1. Sound(c, q)
  BY DEF Handled, Sound
<1>2. \A f \in Special : f \in Range(q.out) => f \in Range(r.out)
  BY DEF Special, Traffic
<1>3. /\ "AuthRequest" \in Range(q.out) => "AuthRequest" \in Range(r.out)
      /\ "AuthSuccess" \in Range(q.out) => "AuthSuccess" \in Range(r.out)
      /\ \A f \in Traffic : f \in Range(q.out) => f \in Range(r.out)
  BY <1>2 DEF Special
<1> QED
  BY <1>1, <1>3 DEF Handled

LEMMA AfterHandled ==
  ASSUME Datagram \in BOOLEAN, MaxResends \in Nat, NEW e \in Ends, NEW c, NEW m, NEW grant,
         NEW r, Handled(e, c, m, grant, r), r.err = "None", NEW due \in BOOLEAN, NEW fail \in BOOLEAN
  PROVE  Handled(e, c, m, grant, AfterMessages(e, r, due, fail))
<1>0. /\ r.c \in ConnRecord /\ r.out \in Seq(Message)
      /\ "Pending" \in KeyState /\ "Waiting" \in KeyState /\ "KeyUpdate" \in Message
      /\ "Write" \in Error /\ "None" \in Error /\ 0 \in 0..MaxResends
  BY DEF Handled, Sound, KeyState, Message, LibraryMessage, Error
<1>1. PICK a \in ConnRecord : a = r.c
  BY <1>0
<1>2. CASE UpdateDue(e, r.c, due) /\ fail
  <2>1. PICK d \in ConnRecord : d = [a EXCEPT !.key = "Pending"] /\ d.state = a.state
                                /\ d.interval = a.interval /\ d.timer = a.timer
    BY <1>0, KeyField
  <2>2. PICK q : q = AfterMessages(e, r, due, fail) /\ q.c = d /\ q.out = r.out /\ q.err = "Write"
    <3>1. AfterMessages(e, r, due, fail) = Result(d, r.out, "Write")
      BY <1>1, <1>2, <2>1 DEF AfterMessages
    <3> QED
      BY <3>1 DEF Result
  <2>3. /\ q.c \in ConnRecord /\ q.c.state = r.c.state /\ q.out \in Seq(Message) /\ q.err \in Error
        /\ q.c.interval = r.c.interval /\ q.c.timer = r.c.timer
        /\ (Armed(r.c) => Armed(q.c)) /\ Range(q.out) \subseteq Range(r.out) \cup {"KeyUpdate"}
        /\ q.err \notin {"InvalidMode", "InvalidState"}
    BY <1>0, <1>1, <2>1, <2>2 DEF Armed
  <2> QED
    BY <2>2, <2>3, Carried
<1>3. CASE UpdateDue(e, r.c, due) /\ ~fail
  <2>1. PICK b1 \in ConnRecord : b1 = [a EXCEPT !.key = "Pending"] /\ b1.state = a.state
                                 /\ b1.interval = a.interval /\ b1.timer = a.timer
    BY <1>0, KeyField
  <2>2. PICK b2 \in ConnRecord : b2 = [b1 EXCEPT !.updating = TRUE] /\ b2.state = b1.state
                                 /\ b2.interval = b1.interval /\ b2.timer = b1.timer
    BY UpdatingField
  <2>3. PICK b \in ConnRecord : b = [b2 EXCEPT !.resends = 0] /\ b.state = b2.state
                                /\ b.interval = b2.interval /\ b.timer = b2.timer
    BY <1>0, ResendsField
  <2>4. b = [a EXCEPT !.key = "Pending", !.updating = TRUE, !.resends = 0]
    BY <2>1, <2>2, <2>3
  <2>5. PICK d \in ConnRecord : d = UpdateTickInterval(b) /\ d.state = b.state
                                /\ (~Datagram => d = b) /\ (Datagram => Armed(d))
    BY TickInterval
  <2>6. PICK o \in Seq(Message) : o = Append(r.out, "KeyUpdate") /\ Range(o) = Range(r.out) \cup {"KeyUpdate"}
    BY <1>0, Answers
  <2>7. PICK q : q = AfterMessages(e, r, due, fail) /\ q.c = d /\ q.out = o /\ q.err = "None"
    <3>1. AfterMessages(e, r, due, fail) = Result(d, o, "None")
      BY <1>1, <1>3, <2>4, <2>5, <2>6 DEF AfterMessages
    <3> QED
      BY <3>1 DEF Result
  <2>8. Armed(r.c) => Armed(q.c)
    <3>1. CASE Datagram
      BY <2>5, <2>7, <3>1
    <3>2. CASE ~Datagram
      BY <1>1, <2>1, <2>2, <2>3, <2>5, <2>7, <3>2 DEF Armed
    <3> QED
      BY <3>1, <3>2
  <2>9. /\ q.c \in ConnRecord /\ q.c.state = r.c.state /\ q.out \in Seq(Message) /\ q.err \in Error
        /\ ~Datagram => q.c.interval = r.c.interval /\ q.c.timer = r.c.timer
        /\ Range(q.out) \subseteq Range(r.out) \cup {"KeyUpdate"}
        /\ q.err \notin {"InvalidMode", "InvalidState"}
    <3>1. b.state = r.c.state /\ b.interval = r.c.interval /\ b.timer = r.c.timer
      BY <1>1, <2>1, <2>2, <2>3
    <3>2. /\ q.c \in ConnRecord /\ q.c.state = r.c.state
          /\ ~Datagram => q.c.interval = r.c.interval /\ q.c.timer = r.c.timer
      BY <2>5, <2>7, <3>1
    <3>3. q.out \in Seq(Message) /\ Range(q.out) \subseteq Range(r.out) \cup {"KeyUpdate"}
      BY <2>6, <2>7
    <3>4. q.err \in Error /\ q.err \notin {"InvalidMode", "InvalidState"}
      BY <1>0, <2>7
    <3> QED
      BY <3>2, <3>3, <3>4
  <2> QED
    BY <2>7, <2>8, <2>9, Carried
<1>4. CASE ~UpdateDue(e, r.c, due) /\ e = "server" /\ Completed(r.c)
  <2>1. PICK b \in ConnRecord : b = [a EXCEPT !.key = "Waiting"] /\ b.state = a.state
                                /\ b.interval = a.interval /\ b.timer = a.timer
    BY <1>0, KeyField
  <2>2. PICK d \in ConnRecord : d = UpdateTickInterval(b) /\ d.state = b.state
                                /\ (~Datagram => d = b) /\ (Datagram => Armed(d))
    BY TickInterval
  <2>3. PICK q : q = AfterMessages(e, r, due, fail) /\ q.c = d /\ q.out = r.out /\ q.err = "None"
    <3>1. AfterMessages(e, r, due, fail) = Result(d, r.out, "None")
      BY <1>1, <1>4, <2>1, <2>2 DEF AfterMessages
    <3> QED
      BY <3>1 DEF Result
  <2>4. Armed(r.c) => Armed(q.c)
    <3>1. CASE Datagram
      BY <2>2, <2>3, <3>1
    <3>2. CASE ~Datagram
      BY <1>1, <2>1, <2>2, <2>3, <3>2 DEF Armed
    <3> QED
      BY <3>1, <3>2
  <2>5. /\ q.c \in ConnRecord /\ q.c.state = r.c.state /\ q.out \in Seq(Message) /\ q.err \in Error
        /\ ~Datagram => q.c.interval = r.c.interval /\ q.c.timer = r.c.timer
        /\ Range(q.out) \subseteq Range(r.out) \cup {"KeyUpdate"}
        /\ q.err \notin {"InvalidMode", "InvalidState"}
    BY <1>0, <1>1, <2>1, <2>2, <2>3
  <2> QED
    BY <2>3, <2>4, <2>5, Carried
<1>5. CASE /\ ~(UpdateDue(e, r.c, due) /\ fail) /\ ~(UpdateDue(e, r.c, due) /\ ~fail)
           /\ ~(~UpdateDue(e, r.c, due) /\ e = "server" /\ Completed(r.c))
  <2>1. AfterMessages(e, r, due, fail) = r
    BY <1>5 DEF AfterMessages
  <2> QED
    BY <2>1
<1> QED
  BY <1>2, <1>3, <1>4, <1>5

(* process_new_outside_data as a whole.                                    *)
LEMMA ProcessHandled ==
  ASSUME Datagram \in BOOLEAN, MaxResends \in Nat, NEW e \in Ends, NEW c \in ConnRecord, NEW m \in Message,
         NEW grant \in BOOLEAN, NEW due \in BOOLEAN, NEW fail \in {0, 1, 2}
  PROVE  Handled(e, c, m, grant, Process(e, c, m, grant, due, fail))
<1>0. /\ <<>> \in Seq(Message) /\ Range(<<>>) = {}
      /\ "Disconnected" \in Error /\ "EndOfStream" \in Error
  BY Answers DEF Error
<1>1. CASE EndsStream(m)
  <2>1. PICK r : /\ r = Process(e, c, m, grant, due, fail) /\ r.c = c
                 /\ r.out = <<>> /\ r.err = "EndOfStream"
    <3>1. Process(e, c, m, grant, due, fail) = Result(c, <<>>, "EndOfStream")
      BY <1>1 DEF Process
    <3> QED
      BY <3>1 DEF Result
  <2>2. Plain(c, r)
    BY <1>0, <2>1 DEF Plain
  <2> QED
    BY <2>1, <2>2, PlainAnswer
<1>2. CASE ~EndsStream(m) /\ ~Reads(c)
  <2>1. PICK r : /\ r = Process(e, c, m, grant, due, fail) /\ r.c = c
                 /\ r.out = <<>> /\ r.err = "Disconnected"
    <3>1. Process(e, c, m, grant, due, fail) = Result(c, <<>>, "Disconnected")
      BY <1>2 DEF Process
    <3> QED
      BY <3>1 DEF Result
  <2>2. Plain(c, r)
    BY <1>0, <2>1 DEF Plain
  <2> QED
    BY <2>1, <2>2, PlainAnswer
<1>3. CASE ~EndsStream(m) /\ Reads(c) /\ c.state = "Connecting"
  <2>1. Process(e, c, m, grant, due, fail) = Negotiate(e, c, m, fail)
    BY <1>3 DEF Process
  <2>2. Handled(e, c, m, grant, Negotiate(e, c, m, fail))
    BY <1>3, NegotiateHandled
  <2> QED
    BY <2>1, <2>2
<1>4. CASE ~EndsStream(m) /\ Reads(c) /\ c.state # "Connecting"
  <2>1. PICK f1 \in BOOLEAN : f1 = (fail = 1)
    OBVIOUS
  <2>2. PICK f2 \in BOOLEAN : f2 = (fail = 2)
    OBVIOUS
  <2>3. c.state \notin {"Connecting", "Disconnected"}
    BY <1>4 DEF Reads
  <2>4. PICK r : r = HandleMessage(e, c, m, grant, f1) /\ Handled(e, c, m, grant, r)
    BY <2>3, MessageHandled
  <2>5. Process(e, c, m, grant, due, fail) = IF r.err = "None" THEN AfterMessages(e, r, due, f2) ELSE r
    BY <1>4, <2>1, <2>2, <2>4 DEF Process
  <2>6. CASE r.err = "None"
    <3>1. Handled(e, c, m, grant, AfterMessages(e, r, due, f2))
      BY <2>4, <2>6, AfterHandled
    <3> QED
      BY <2>5, <2>6, <3>1
  <2>7. CASE r.err # "None"
    BY <2>4, <2>5, <2>7
  <2> QED
    BY <2>6, <2>7
<1> QED
  BY <1>1, <1>2, <1>3, <1>4

(* A tick of a datagram connection.                                        *)
Ticked(e, c, fail, r) ==
  /\ Sound(c, r) /\ r.err \notin {"InvalidMode", "InvalidState"}
  /\ r.c.state = "Online" => c.state = "Online"
  /\ e = "server" => r.c.state # "Authenticating"
  /\ \A f \in {"AuthSuccess"} \cup Traffic : f \notin Range(r.out)
  /\ c.state # "Connecting" => r.c.state # "Connecting"
  /\ "AuthRequest" \in Range(r.out) => e = "client" /\ r.c.state # "Connecting"
  /\ Armed(r.c) \/ r.err = "TimedOut" \/ r.c.state = "Disconnected" \/ (e = "client" /\ fail)

LEMMA OutstandingPlain ==
  ASSUME NEW e, NEW c
  PROVE  /\ Outstanding(e, c) \in Seq(Message)
         /\ Range(Outstanding(e, c)) \subseteq {"Hello", "Flight", "KeyUpdate"}
<1>1. "Hello" \in Message /\ "Flight" \in Message /\ "KeyUpdate" \in Message
  BY DEF Message, LibraryMessage
<1>2. /\ <<>> \in Seq(Message) /\ Range(<<>>) = {}
      /\ <<"Hello">> \in Seq(Message) /\ Range(<<"Hello">>) = {"Hello"}
      /\ <<"Flight">> \in Seq(Message) /\ Range(<<"Flight">>) = {"Flight"}
      /\ <<"KeyUpdate">> \in Seq(Message) /\ Range(<<"KeyUpdate">>) = {"KeyUpdate"}
  BY <1>1, Answers
<1>3. \/ Outstanding(e, c) = <<"Hello">> \/ Outstanding(e, c) = <<"Flight">>
      \/ Outstanding(e, c) = <<"KeyUpdate">> \/ Outstanding(e, c) = <<>>
  BY DEF Outstanding
<1> QED
  BY <1>2, <1>3

LEMMA TickHandled ==
  ASSUME Datagram \in BOOLEAN, Datagram, MaxResends \in Nat, NEW e \in Ends, NEW c \in ConnRecord,
         e = "server" => c.state # "Authenticating", NEW expired \in BOOLEAN, NEW fail \in BOOLEAN
  PROVE  Ticked(e, c, fail, ConnectionTick(e, c, expired, fail))
<1>0. /\ c.state \in State /\ c.resends \in 0..MaxResends /\ "AuthRequest" \in Message
      /\ \A x \in {"None", "Write", "TimedOut", "Disconnected"} : x \in Error
      /\ "Authenticating" \in State /\ (e = "client" \/ e = "server")
  BY DEF ConnRecord, Message, Frame, Error, Ends, State
<1>a. <<>> \in Seq(Message) /\ Range(<<>>) = {}
  BY Answers
<1>t. PICK t \in ConnRecord : /\ t = [c EXCEPT !.timer = FALSE] /\ t.state = c.state
                              /\ t.interval = c.interval /\ t.resends = c.resends
  BY TimerField
<1>1. CASE c.state = "Authenticating"
  <2>0. e = "client"
    BY <1>0, <1>1
  <2>1. PICK b \in ConnRecord : b = [t EXCEPT !.state = "Authenticating"] /\ b.state = "Authenticating"
    BY <1>0, StateField
  <2>2. CASE fail
    <3>1. PICK a : a = Authenticate(t, <<>>, fail) /\ a.c = b /\ a.out = <<>> /\ a.err = "Write"
      <4>1. Authenticate(t, <<>>, fail) = Result(b, <<>>, "Write")
        BY <2>1, <2>2 DEF Authenticate
      <4> QED
        BY <4>1 DEF Result
    <3>2. ConnectionTick(e, c, expired, fail) = a
      BY <1>1, <1>t, <3>1 DEF ConnectionTick
    <3>3. Sound(c, a)
      BY <1>0, <1>1, <1>a, <2>1, <3>1 DEF Sound
    <3>4. Ticked(e, c, fail, a)
      BY <1>a, <2>0, <2>1, <2>2, <3>1, <3>3 DEF Ticked, Traffic
    <3> QED
      BY <3>2, <3>4
  <2>3. CASE ~fail
    <3>1. PICK o \in Seq(Message) : o = Append(<<>>, "AuthRequest") /\ Range(o) = {} \cup {"AuthRequest"}
      <4>1. PICK z \in Seq(Message) : z = <<>> /\ Range(z) = {}
        BY <1>a, Zenon
      <4>2. /\ Append(z, "AuthRequest") \in Seq(Message)
            /\ Range(Append(z, "AuthRequest")) = Range(z) \cup {"AuthRequest"}
        BY <1>0, Answers
      <4> QED
        BY <4>1, <4>2, Zenon
    <3>2. PICK a : a = Authenticate(t, <<>>, fail) /\ a.c = b /\ a.out = o /\ a.err = "None"
      <4>1. Authenticate(t, <<>>, fail) = Result(b, o, "None")
        BY <2>1, <2>3, <3>1 DEF Authenticate
      <4> QED
        BY <4>1 DEF Result
    <3>3. PICK d \in ConnRecord : d = UpdateTickInterval(b) /\ d.state = b.state /\ Armed(d)
      BY TickInterval
    <3>4. PICK r : r = ConnectionTick(e, c, expired, fail) /\ r.c = d /\ r.out = o /\ r.err = "None"
      <4>1. ConnectionTick(e, c, expired, fail) = Result(d, o, "None")
        BY <1>1, <1>t, <3>2, <3>3 DEF ConnectionTick
      <4> QED
        BY <4>1 DEF Result
    <3>5. Sound(c, r)
      BY <1>0, <1>1, <3>4 DEF Sound
    <3>6. Ticked(e, c, fail, r)
      BY <2>0, <2>1, <3>1, <3>3, <3>4, <3>5 DEF Ticked, Traffic
    <3> QED
      BY <3>4, <3>6
  <2> QED
    BY <2>2, <2>3
<1>2. CASE c.state = "Disconnected"
  <2>1. PICK r : /\ r = ConnectionTick(e, c, expired, fail) /\ r.c = t
                 /\ r.out = <<>> /\ r.err = "Disconnected"
    <3>1. ConnectionTick(e, c, expired, fail) = Result(t, <<>>, "Disconnected")
      BY <1>2, <1>t DEF ConnectionTick
    <3> QED
      BY <3>1 DEF Result
  <2>2. Sound(c, r)
    BY <1>0, <1>2, <1>a, <1>t, <2>1 DEF Sound
  <2>3. Ticked(e, c, fail, r)
    BY <1>2, <1>a, <1>t, <2>1, <2>2 DEF Ticked, Traffic
  <2> QED
    BY <2>1, <2>3
<1>3. CASE c.state \in {"Connecting", "LinkUp", "Online"} /\ expired /\ GivesUp(c)
  <2>1. PICK o : /\ o = Disconnect(t) /\ o.c \in ConnRecord
                 /\ o.c.state # "Disconnected" => o.c.state = t.state
                 /\ o.c.state = "Online" => t.state = "Online"
                 /\ t.state # "Connecting" => o.c.state = "Disconnected"
                 /\ o.out \in Seq(Message) /\ Range(o.out) \subseteq {"Goodbye"}
    BY Disconnects
  <2>2. PICK r : /\ r = ConnectionTick(e, c, expired, fail) /\ r.c = o.c
                 /\ r.out = o.out /\ r.err = "TimedOut"
    <3>1. ConnectionTick(e, c, expired, fail) = Result(o.c, o.out, "TimedOut")
      BY <1>3, <1>t, <2>1 DEF ConnectionTick
    <3> QED
      BY <3>1 DEF Result
  <2>3. Sound(c, r)
    BY <1>0, <1>3, <1>t, <2>1, <2>2 DEF Sound
  <2>4. Ticked(e, c, fail, r)
    <3>1. \A f \in Special : f \notin Range(r.out)
      BY <2>1, <2>2 DEF Special, Traffic
    <3>2. /\ r.c.state # "Authenticating" /\ (r.c.state = "Online" => c.state = "Online")
          /\ c.state # "Connecting" => r.c.state # "Connecting"
      BY <1>3, <1>t, <2>1, <2>2
    <3> QED
      BY <2>2, <2>3, <3>1, <3>2 DEF Ticked, Special
  <2> QED
    BY <2>2, <2>4
<1>4. CASE c.state \in {"Connecting", "LinkUp", "Online"} /\ ~(expired /\ GivesUp(c))
  <2>1. PICK n \in 0..MaxResends : n = IF expired THEN c.resends + 1 ELSE c.resends
    BY <1>0, <1>4 DEF GivesUp
  <2>2. PICK b \in ConnRecord : b = [t EXCEPT !.resends = n] /\ b.state = t.state
    BY ResendsField
  <2>3. b = [c EXCEPT !.timer = FALSE, !.resends = IF expired THEN @ + 1 ELSE @]
    BY <1>t, <2>1, <2>2
  <2>4. PICK d \in ConnRecord : d = UpdateTickInterval(b) /\ d.state = b.state /\ Armed(d)
    BY TickInterval
  <2>5. PICK o \in Seq(Message) : /\ o = (IF expired THEN Outstanding(e, c) ELSE <<>>)
                                  /\ Range(o) \subseteq {"Hello", "Flight", "KeyUpdate"}
    BY <1>a, OutstandingPlain
  <2>6. PICK r : r = ConnectionTick(e, c, expired, fail) /\ r.c = d /\ r.out = o /\ r.err = "None"
    <3>1. ConnectionTick(e, c, expired, fail) = Result(d, o, "None")
      BY <1>4, <2>3, <2>4, <2>5 DEF ConnectionTick
    <3> QED
      BY <3>1 DEF Result
  <2>7. Sound(c, r)
    BY <1>0, <1>4, <1>t, <2>2, <2>4, <2>6 DEF Sound
  <2>8. Ticked(e, c, fail, r)
    BY <1>4, <1>t, <2>2, <2>4, <2>5, <2>6, <2>7 DEF Ticked, Traffic
  <2> QED
    BY <2>6, <2>8
<1> QED
  BY <1>0, <1>1, <1>2, <1>3, <1>4 DEF State

(* What is written reaches the peer's queue, or is dropped.                *)
LEMMA Written ==
  ASSUME NEW n \in [Ends -> Seq(Message)], NEW p \in Ends, NEW ms \in Seq(Message)
  PROVE  /\ Put(n, p, ms) \in [Ends -> Seq(Message)]
         /\ Range(Put(n, p, ms)[p]) \subseteq Range(n[p]) \cup Range(ms)
         /\ \A d \in Ends : d # p => Put(n, p, ms)[d] = n[d]
<1>1. ASSUME NEW q, NEW i
      PROVE  Sent(q, ms, i) \in Seq(Message) /\ Range(Sent(q, ms, i)) \subseteq Range(ms)
  <2>1. CASE i \in DOMAIN ms /\ (Datagram => Copies(q, ms[i]) < MaxCopies)
    <3>1. ms[i] \in Message /\ ms[i] \in Range(ms)
      BY <2>1 DEF Range
    <3>2. Sent(q, ms, i) = <<ms[i]>>
      BY <2>1 DEF Sent
    <3> QED
      BY <3>1, <3>2, Answers
  <2>2. CASE ~(i \in DOMAIN ms /\ (Datagram => Copies(q, ms[i]) < MaxCopies))
    <3>1. Sent(q, ms, i) = <<>>
      BY <2>2 DEF Sent
    <3> QED
      BY <3>1, Answers
  <2> QED
    BY <2>1, <2>2
<1>2. PICK a \in Seq(Message) : a = n[p]
  OBVIOUS
<1>3. PICK s1 \in Seq(Message) : s1 = Sent(a, ms, 1) /\ Range(s1) \subseteq Range(ms)
  BY <1>1
<1>4. PICK s2 \in Seq(Message) : s2 = Sent(a, ms, 2) /\ Range(s2) \subseteq Range(ms)
  BY <1>1
<1>5. PICK s3 \in Seq(Message) : s3 = Sent(a, ms, 3) /\ Range(s3) \subseteq Range(ms)
  BY <1>1
<1>6. PICK b \in Seq(Message) : b = a \o s1 /\ Range(b) = Range(a) \cup Range(s1)
  <2>1. a \o s1 \in Seq(Message) /\ Range(a \o s1) = Range(a) \cup Range(s1)
    BY Joined
  <2> QED
    BY <2>1, Zenon
<1>7. PICK c \in Seq(Message) : c = b \o s2 /\ Range(c) = Range(b) \cup Range(s2)
  <2>1. b \o s2 \in Seq(Message) /\ Range(b \o s2) = Range(b) \cup Range(s2)
    BY Joined
  <2> QED
    BY <2>1, Zenon
<1>8. PICK d \in Seq(Message) : d = c \o s3 /\ Range(d) = Range(c) \cup Range(s3)
  <2>1. c \o s3 \in Seq(Message) /\ Range(c \o s3) = Range(c) \cup Range(s3)
    BY Joined
  <2> QED
    BY <2>1, Zenon
<1>9. Put(n, p, ms) = [n EXCEPT ![p] = d]
  BY <1>2, <1>3, <1>4, <1>5, <1>6, <1>7, <1>8 DEF Put
<1>10. Range(d) \subseteq Range(n[p]) \cup Range(ms)
  BY <1>2, <1>3, <1>4, <1>5, <1>6, <1>7, <1>8
<1> QED
  BY <1>9, <1>10

LEMMA Fields ==
  ASSUME NEW c, NEW o, NEW x
  PROVE  Result(c, o, x).c = c /\ Result(c, o, x).out = o /\ Result(c, o, x).err = x
BY DEF Result

(* The reply makes a client that is past its handshake Online, unless it   *)
(* is closed.                                                              *)
LEMMA ReplyAccepted ==
  ASSUME NEW c \in ConnRecord, c.state # "Connecting", NEW grant \in BOOLEAN, NEW due \in BOOLEAN,
         NEW fail \in {0, 1, 2}
  PROVE  Process("client", c, "AuthSuccess", grant, due, fail).c.state \in {"Online", "Disconnected"}
<1>0. ~EndsStream("AuthSuccess") /\ "Online" \in State
  BY DEF EndsStream, State
<1>1. CASE ~Reads(c)
  <2>1. Process("client", c, "AuthSuccess", grant, due, fail) = Result(c, <<>>, "Disconnected")
    BY <1>0, <1>1 DEF Process
  <2> QED
    BY <1>1, <2>1 DEF Result, Reads
<1>2. CASE Reads(c)
  <2>1. PICK d \in ConnRecord : /\ d = (IF c.state = "Online" THEN c ELSE [c EXCEPT !.state = "Online"])
                                /\ d.state = "Online"
    BY <1>0, StateField
  <2>a. PICK f1 \in BOOLEAN : f1 = (fail = 1)
    OBVIOUS
  <2>b. PICK f2 \in BOOLEAN : f2 = (fail = 2)
    OBVIOUS
  <2>2. HandleMessage("client", c, "AuthSuccess", grant, f1) = Result(d, <<>>, "None")
    <3>1. HandleMessage("client", c, "AuthSuccess", grant, f1) = HandleAuthResponse(c)
      BY DEF HandleMessage, Traffic
    <3> QED
      BY <2>1, <3>1 DEF HandleAuthResponse
  <2>3. PICK r : r = Result(d, <<>>, "None") /\ r.c = d /\ r.err = "None"
    BY Fields
  <2>4. AfterMessages("client", r, due, f2) = r
    BY DEF AfterMessages, UpdateDue
  <2>5. Process("client", c, "AuthSuccess", grant, due, fail) = r
    BY <1>0, <1>2, <2>2, <2>3, <2>4, <2>a, <2>b DEF Process
  <2> QED
    BY <2>1, <2>3, <2>5
<1> QED
  BY <1>1, <1>2

(* A server that goes Online says so first.                                *)
Leads(ms) == 1 \in DOMAIN ms /\ ms[1] = "AuthSuccess"

LEMMA GrantAnnounced ==
  ASSUME NEW c \in ConnRecord, c.state = "LinkUp", NEW due \in BOOLEAN, NEW fail \in {0, 1, 2},
         Process("server", c, "AuthRequest", TRUE, due, fail).c.state = "Online"
  PROVE  Leads(Process("server", c, "AuthRequest", TRUE, due, fail).out)
<1>0. /\ ~EndsStream("AuthRequest") /\ Reads(c) /\ Authenticates(c)
      /\ c.key \in KeyState /\ "Waiting" \in KeyState /\ "Online" \in State
  BY DEF EndsStream, Reads, Authenticates, ConnRecord, KeyState, State
<1>1. PICK b \in ConnRecord : /\ b = [c EXCEPT !.key = IF @ = "Initializing" THEN "Waiting" ELSE @]
                              /\ b.state = c.state
  <2>1. PICK k \in KeyState : k = IF c.key = "Initializing" THEN "Waiting" ELSE c.key
    BY <1>0
  <2> QED
    BY <2>1, KeyField
<1>a. PICK f1 \in BOOLEAN : f1 = (fail = 1)
  OBVIOUS
<1>b. PICK f2 \in BOOLEAN : f2 = (fail = 2)
  OBVIOUS
<1>c. PICK r : r = HandleMessage("server", c, "AuthRequest", TRUE, f1)
  OBVIOUS
<1>d. PICK q : q = Process("server", c, "AuthRequest", TRUE, due, fail)
  OBVIOUS
<1>e. q = IF r.err = "None" THEN AfterMessages("server", r, due, f2) ELSE r
  BY <1>0, <1>a, <1>b, <1>c, <1>d DEF Process
<1>2. r = Grant(c, f1)
  <2>1. r = HandleAuthRequest(c, TRUE, f1)
    BY <1>c DEF HandleMessage, Traffic
  <2> QED
    BY <1>0, <2>1 DEF HandleAuthRequest
<1>3. CASE f1
  <2>1. r = Result(b, <<>>, "Write")
    BY <1>1, <1>2, <1>3 DEF Grant
  <2>2. r.c = b /\ r.err = "Write"
    BY <2>1, Fields
  <2>3. q.c = b
    BY <1>e, <2>2
  <2> QED
    BY <1>1, <1>d, <2>3
<1>4. CASE ~f1
  <2>1. PICK d : d = [b EXCEPT !.state = "Online"]
    OBVIOUS
  <2>2. r = Result(d, <<"AuthSuccess">>, "None")
    BY <1>1, <1>2, <1>4, <2>1 DEF Grant
  <2>3. r.out = <<"AuthSuccess">> /\ r.err = "None"
    BY <2>2, Fields
  <2>4. q = AfterMessages("server", r, due, f2)
    BY <1>e, <2>3
  <2>5. q.out = r.out \/ q.out = Append(r.out, "KeyUpdate")
    BY <2>4 DEF AfterMessages, Result
  <2>6. Leads(<<"AuthSuccess">>) /\ Leads(Append(<<"AuthSuccess">>, "KeyUpdate"))
    BY DEF Leads
  <2> QED
    BY <1>d, <2>3, <2>5, <2>6
<1> QED
  BY <1>3, <1>4

(* The order of a stream: what is taken from its head and what is added at *)
(* its end.                                                                *)
LEMMA HeadTaken ==
  ASSUME NEW q \in Seq(Message), 1 \in DOMAIN q, q[1] # "AuthSuccess"
  PROVE  /\ Behind(q) => Behind(RemoveAt(q, 1))
         /\ "AuthSuccess" \in Range(q) => "AuthSuccess" \in Range(RemoveAt(q, 1))
<1>0. Len(q) \in Nat /\ DOMAIN q = 1..Len(q) /\ 1 <= Len(q)
  BY LenProperties
<1>1. PICK n \in Nat : n = Len(q) - 1
  <2>1. Len(q) - 1 \in Nat
    BY <1>0
  <2> QED
    BY <2>1
<1>2. PICK t : /\ t = RemoveAt(q, 1) /\ DOMAIN t = 1..n /\ \A k \in 1..n : t[k] = q[k + 1]
  <2>1. /\ DOMAIN RemoveAt(q, 1) = 1..n
        /\ \A k \in 1..n : k >= 1 => RemoveAt(q, 1)[k] = q[k + 1]
    BY <1>1, Remaining
  <2>2. \A k \in 1..n : RemoveAt(q, 1)[k] = q[k + 1]
    BY <2>1
  <2> QED
    BY <2>1, <2>2
<1>3. ASSUME NEW j \in DOMAIN q, q[j] = "AuthSuccess"
      PROVE  j - 1 \in DOMAIN t /\ t[j - 1] = "AuthSuccess"
  <2>1. j # 1 /\ j \in 1..(n + 1)
    BY <1>0, <1>1, <1>3
  <2>2. j - 1 \in 1..n /\ (j - 1) + 1 = j
    BY <2>1
  <2> QED
    BY <1>2, <1>3, <2>2
<1>4. "AuthSuccess" \in Range(q) => "AuthSuccess" \in Range(t)
  BY <1>3 DEF Range
<1>5. ASSUME Behind(q), NEW i \in DOMAIN t, t[i] \in Traffic
      PROVE  \E j \in DOMAIN t : j < i /\ t[j] = "AuthSuccess"
  <2>1. i \in 1..n /\ i + 1 \in DOMAIN q /\ q[i + 1] \in Traffic
    BY <1>0, <1>1, <1>2, <1>5
  <2>2. PICK j \in DOMAIN q : j < i + 1 /\ q[j] = "AuthSuccess"
    BY <1>5, <2>1 DEF Behind
  <2>3. j - 1 \in DOMAIN t /\ t[j - 1] = "AuthSuccess"
    BY <1>3, <2>2
  <2>4. j - 1 < i
    BY <1>0, <2>1, <2>2
  <2> QED
    BY <2>3, <2>4
<1> QED
  BY <1>2, <1>4, <1>5 DEF Behind

LEMMA TailAdded ==
  ASSUME NEW q \in Seq(Message), NEW s \in Seq(Message), Behind(q),
         (\A f \in Traffic : f \notin Range(s)) \/ "AuthSuccess" \in Range(q)
  PROVE  Behind(q \o s)
<1>0. /\ DOMAIN q = 1..Len(q) /\ DOMAIN s = 1..Len(s) /\ Len(q) \in Nat /\ Len(s) \in Nat
      /\ DOMAIN (q \o s) = 1..(Len(q) + Len(s))
  BY LenProperties
<1>1. /\ \A k \in 1..Len(q) : (q \o s)[k] = q[k] /\ k \in DOMAIN (q \o s)
      /\ \A k \in DOMAIN (q \o s) : k > Len(q) => (q \o s)[k] = s[k - Len(q)] /\ k - Len(q) \in DOMAIN s
  BY <1>0
<1>2. SUFFICES ASSUME NEW i \in DOMAIN (q \o s), (q \o s)[i] \in Traffic
               PROVE  \E j \in DOMAIN (q \o s) : j < i /\ (q \o s)[j] = "AuthSuccess"
  BY DEF Behind
<1>3. CASE i <= Len(q)
  <2>1. i \in DOMAIN q /\ q[i] \in Traffic
    BY <1>0, <1>1, <1>2, <1>3
  <2>2. PICK j \in DOMAIN q : j < i /\ q[j] = "AuthSuccess"
    BY <2>1 DEF Behind
  <2> QED
    BY <1>0, <1>1, <2>2
<1>4. CASE i > Len(q)
  <2>1. s[i - Len(q)] \in Traffic /\ i - Len(q) \in DOMAIN s
    BY <1>1, <1>2, <1>4
  <2>2. "AuthSuccess" \in Range(q)
    BY <2>1 DEF Range
  <2>3. PICK j \in DOMAIN q : q[j] = "AuthSuccess"
    BY <2>2 DEF Range
  <2>4. j < i
    BY <1>0, <1>4
  <2> QED
    BY <1>0, <1>1, <2>3, <2>4
<1> QED
  BY <1>0, <1>3, <1>4

LEMMA Queued ==
  ASSUME NEW n \in [Ends -> Seq(Message)], NEW p \in Ends, NEW ms \in Seq(Message), ~Datagram
  PROVE  /\ Range(n[p]) \subseteq Range(Put(n, p, ms)[p])
         /\ Leads(ms) => "AuthSuccess" \in Range(Put(n, p, ms)[p])
         /\ Behind(n[p]) /\ ((\A f \in Traffic : f \notin Range(ms)) \/ "AuthSuccess" \in Range(n[p]))
              => Behind(Put(n, p, ms)[p])
<1>1. ASSUME NEW q, NEW i
      PROVE  /\ Sent(q, ms, i) \in Seq(Message) /\ Range(Sent(q, ms, i)) \subseteq Range(ms)
             /\ i \in DOMAIN ms => ms[i] \in Range(Sent(q, ms, i))
  <2>1. CASE i \in DOMAIN ms
    <3>1. ms[i] \in Message /\ ms[i] \in Range(ms)
      BY <2>1 DEF Range
    <3>2. Sent(q, ms, i) = <<ms[i]>>
      BY <2>1 DEF Sent
    <3> QED
      BY <3>1, <3>2, Answers
  <2>2. CASE i \notin DOMAIN ms
    <3>1. Sent(q, ms, i) = <<>>
      BY <2>2 DEF Sent
    <3> QED
      BY <2>2, <3>1, Answers
  <2> QED
    BY <2>1, <2>2
<1>2. PICK a \in Seq(Message) : a = n[p]
  OBVIOUS
<1>3. PICK s1 \in Seq(Message) : /\ s1 = Sent(a, ms, 1) /\ Range(s1) \subseteq Range(ms)
                                 /\ 1 \in DOMAIN ms => ms[1] \in Range(s1)
  BY <1>1
<1>4. PICK s2 \in Seq(Message) : s2 = Sent(a, ms, 2) /\ Range(s2) \subseteq Range(ms)
  BY <1>1
<1>5. PICK s3 \in Seq(Message) : s3 = Sent(a, ms, 3) /\ Range(s3) \subseteq Range(ms)
  BY <1>1
<1> DEFINE Fits(q) == (\A f \in Traffic : f \notin Range(ms)) \/ "AuthSuccess" \in Range(q)
<1>6. ASSUME NEW q \in Seq(Message), NEW s \in Seq(Message), Range(s) \subseteq Range(ms)
      PROVE  /\ q \o s \in Seq(Message) /\ Range(q \o s) = Range(q) \cup Range(s)
             /\ Behind(q) /\ Fits(q) => Behind(q \o s) /\ Fits(q \o s)
  <2>1. q \o s \in Seq(Message) /\ Range(q \o s) = Range(q) \cup Range(s)
    BY Joined
  <2>2. ASSUME Behind(q), Fits(q) PROVE Behind(q \o s)
    <3>1. (\A f \in Traffic : f \notin Range(s)) \/ "AuthSuccess" \in Range(q)
      BY <1>6, <2>2
    <3> QED
      BY <2>2, <3>1, TailAdded
  <2>3. Fits(q) => Fits(q \o s)
    BY <2>1
  <2> QED
    BY <2>1, <2>2, <2>3
<1> HIDE DEF Fits
<1>7. PICK b \in Seq(Message) : /\ b = a \o s1 /\ Range(b) = Range(a) \cup Range(s1)
                                /\ Behind(a) /\ Fits(a) => Behind(b) /\ Fits(b)
  BY <1>3, <1>6, Zenon
<1>8. PICK c \in Seq(Message) : /\ c = b \o s2 /\ Range(c) = Range(b) \cup Range(s2)
                                /\ Behind(b) /\ Fits(b) => Behind(c) /\ Fits(c)
  BY <1>4, <1>6, Zenon
<1>9. PICK d \in Seq(Message) : /\ d = c \o s3 /\ Range(d) = Range(c) \cup Range(s3)
                                /\ Behind(c) /\ Fits(c) => Behind(d) /\ Fits(d)
  <2>1. /\ c \o s3 \in Seq(Message) /\ Range(c \o s3) = Range(c) \cup Range(s3)
        /\ Behind(c) /\ Fits(c) => Behind(c \o s3) /\ Fits(c \o s3)
    BY <1>5, <1>6
  <2> QED
    BY <2>1, Zenon
<1>10. Put(n, p, ms)[p] = d
  BY <1>2, <1>3, <1>4, <1>5, <1>7, <1>8, <1>9 DEF Put
<1>11. Range(a) \subseteq Range(d) /\ (Leads(ms) => "AuthSuccess" \in Range(d))
  BY <1>3, <1>7, <1>8, <1>9 DEF Leads
<1>12. Behind(a) /\ Fits(a) => Behind(d)
  BY <1>7, <1>8, <1>9
<1> QED
  BY <1>2, <1>10, <1>11, <1>12 DEF Fits

-----------------------------------------------------------------------------
(* What the invariant gives every step.                                    *)
LEMMA Basics ==
  ASSUME ConnInv
  PROVE  /\ Datagram \in BOOLEAN /\ MaxResends \in Nat /\ Grants \in SUBSET BOOLEAN
         /\ conn \in [Ends -> ConnRecord] /\ net \in [Ends -> Seq(Message)]
         /\ spent \in [lost : Nat, faults : Nat, updates : Nat, pings : Nat]
<1>1. env \in Environment
  BY ConnectionAssumption DEF ConnInv
<1>2. env.datagram \in BOOLEAN /\ env.resends \in Nat /\ env.grants \in SUBSET BOOLEAN
  BY <1>1 DEF Environment
<1> QED
  BY <1>2 DEF ConnInv, TypeOK, ConnRecord, Datagram, MaxResends, Grants

LEMMA Pair ==
  /\ \A e \in Ends : e = "client" \/ e = "server"
  /\ "client" \in Ends /\ "server" \in Ends
  /\ Peer("client") = "server" /\ Peer("server") = "client"
  /\ \A e \in Ends : Peer(e) \in Ends /\ Peer(e) # e
BY DEF Ends, Peer

(* The step of one end: its new record b and what it writes, w, allow it.  *)
Allowed(e, b, w) ==
  /\ b \in ConnRecord
  /\ conn[e].state = "Disconnected" => b.state = "Disconnected"
  /\ conn[e].state = "Online" => b.state \in {"Online", "Disconnected"}
  /\ e = "client" /\ b.state = "Online" =>
       conn["client"].state = "Online" \/ (granted /\ Up("server"))
  /\ e = "server" => b.state # "Authenticating"
  /\ ~Datagram => ~b.interval /\ ~b.timer
  /\ conn[e].state # "Connecting" => b.state # "Connecting"
  /\ "AuthRequest" \in w => e = "client" /\ b.state # "Connecting"
  /\ "AuthSuccess" \in w => e = "server" /\ granted' /\ b.state = "Online"
  /\ (\E f \in Traffic : f \in w) => conn[e].state = "Online"
  /\ e = "server" /\ b.state = "Online" => granted'
  /\ granted' => granted \/ conn["client"].state # "Connecting"

(* Such a step keeps what relates the two ends and the frames under way.   *)
LEMMA StepAgrees ==
  ASSUME ConnInv, NEW e \in Ends, NEW b, NEW w, Allowed(e, b, w),
         conn' = [conn EXCEPT ![e] = b], env' = env, granted => granted',
         net' \in [Ends -> Seq(Message)],
         Range(net'[e]) \subseteq Range(net[e]),
         Range(net'[Peer(e)]) \subseteq Range(net[Peer(e)]) \cup w
  PROVE  /\ conn' \in [Ends -> ConnRecord]
         /\ conn'["server"].state # "Authenticating"
         /\ Tickless' /\ FramesVouch' /\ OnlineAgreed'
<1>0. /\ conn \in [Ends -> ConnRecord] /\ conn'[e] = b /\ b \in ConnRecord
      /\ \A d \in Ends : d # e => conn'[d] = conn[d]
  BY Basics DEF Allowed
<1>1. conn' \in [Ends -> ConnRecord]
  BY <1>0
<1>2. conn'["server"].state # "Authenticating"
  BY <1>0, Pair DEF ConnInv, Allowed
<1>3. Tickless'
  BY <1>0, Pair DEF ConnInv, Tickless, Allowed, Datagram
<1>u. ASSUME NEW d \in Ends, Up(d) PROVE Up(d)'
  <2>1. CASE d = e
    BY <1>0, <1>u, <2>1 DEF Up, Allowed
  <2>2. CASE d # e
    BY <1>0, <1>u, <2>2 DEF Up
  <2> QED
    BY <2>1, <2>2
<1>4. OnlineAgreed'
  <2>1. SUFFICES ASSUME conn'["client"].state = "Online" PROVE granted' /\ Up("server")'
    BY DEF OnlineAgreed, Up
  <2>2. granted /\ Up("server")
    <3>1. CASE e = "client"
      BY <1>0, <2>1, <3>1 DEF Allowed, ConnInv, OnlineAgreed, Up
    <3>2. CASE e = "server"
      BY <1>0, <2>1, <3>2, Pair DEF ConnInv, OnlineAgreed, Up
    <3> QED
      BY <3>1, <3>2, Pair
  <2> QED
    BY <1>u, <2>2, Pair
<1>5. FramesVouch'
  <2>0. FramesVouch
    BY DEF ConnInv
  <2>c. conn["client"].state # "Connecting" => conn'["client"].state # "Connecting"
    BY <1>0, Pair DEF Allowed
  <2>s. conn'["server"].state = "Online" => granted'
    <3>1. CASE e = "server"
      BY <1>0, <3>1 DEF Allowed
    <3>2. CASE e # "server"
      BY <1>0, <2>0, <3>2, Pair DEF FramesVouch
    <3> QED
      BY <3>1, <3>2
  <2>1. CASE e = "client"
    <3>1. /\ Range(net'["client"]) \subseteq Range(net["client"])
          /\ Range(net'["server"]) \subseteq Range(net["server"]) \cup w
          /\ "AuthSuccess" \notin w
          /\ "AuthRequest" \in w => b.state # "Connecting"
          /\ (\E f \in Traffic : f \in w) => conn["client"].state = "Online"
          /\ granted' => granted \/ conn["client"].state # "Connecting"
      BY <2>1, Pair DEF Allowed
    <3>2. /\ "AuthRequest" \notin Range(net'["client"]) /\ "AuthSuccess" \notin Range(net'["server"])
      BY <2>0, <3>1 DEF FramesVouch
    <3>3. "AuthSuccess" \in Range(net'["client"]) => granted' /\ Up("server")'
      BY <1>u, <2>0, <3>1, Pair DEF FramesVouch
    <3>4. (\E f \in Traffic : f \in Range(net'["client"])) => granted'
      BY <2>0, <3>1 DEF FramesVouch
    <3>5. (\E f \in Traffic : f \in Range(net'["server"])) => Up("server")'
      <4>1. ASSUME NEW f \in Traffic, f \in Range(net'["server"]) PROVE Up("server")
        <5>1. CASE f \in Range(net["server"])
          BY <2>0, <5>1 DEF FramesVouch
        <5>2. CASE f \in w
          BY <3>1, <5>2 DEF ConnInv, OnlineAgreed, Up
        <5> QED
          BY <3>1, <4>1, <5>1, <5>2
      <4> QED
        BY <1>u, <4>1, Pair
    <3>6. granted' \/ "AuthRequest" \in Range(net'["server"]) => conn'["client"].state # "Connecting"
      <4>1. CASE "AuthRequest" \in w
        BY <1>0, <2>1, <3>1, <4>1
      <4>2. CASE "AuthRequest" \notin w
        BY <2>0, <2>c, <3>1, <4>2 DEF FramesVouch
      <4> QED
        BY <4>1, <4>2
    <3> QED
      BY <2>s, <3>2, <3>3, <3>4, <3>5, <3>6 DEF FramesVouch
  <2>2. CASE e = "server"
    <3>1. /\ Range(net'["server"]) \subseteq Range(net["server"])
          /\ Range(net'["client"]) \subseteq Range(net["client"]) \cup w
          /\ "AuthRequest" \notin w
          /\ "AuthSuccess" \in w => granted' /\ b.state = "Online"
          /\ (\E f \in Traffic : f \in w) => conn["server"].state = "Online"
          /\ granted' => granted \/ conn["client"].state # "Connecting"
      BY <2>2, Pair DEF Allowed
    <3>2. /\ "AuthRequest" \notin Range(net'["client"]) /\ "AuthSuccess" \notin Range(net'["server"])
      BY <2>0, <3>1 DEF FramesVouch
    <3>3. "AuthSuccess" \in Range(net'["client"]) => granted' /\ Up("server")'
      <4>1. CASE "AuthSuccess" \in w
        BY <1>0, <2>2, <3>1, <4>1 DEF Up
      <4>2. CASE "AuthSuccess" \in Range(net["client"])
        BY <1>u, <2>0, <4>2, Pair DEF FramesVouch
      <4> QED
        BY <3>1, <4>1, <4>2
    <3>4. (\E f \in Traffic : f \in Range(net'["client"])) => granted'
      <4>1. ASSUME NEW f \in Traffic, f \in Range(net'["client"]) PROVE granted
        <5>1. CASE f \in Range(net["client"])
          BY <2>0, <5>1 DEF FramesVouch
        <5>2. CASE f \in w
          BY <2>0, <3>1, <5>2 DEF FramesVouch
        <5> QED
          BY <3>1, <4>1, <5>1, <5>2
      <4> QED
        BY <4>1
    <3>5. (\E f \in Traffic : f \in Range(net'["server"])) => Up("server")'
      BY <1>u, <2>0, <3>1, Pair DEF FramesVouch
    <3>6. granted' \/ "AuthRequest" \in Range(net'["server"]) => conn'["client"].state # "Connecting"
      BY <2>0, <2>c, <3>1 DEF FramesVouch
    <3> QED
      BY <2>s, <3>2, <3>3, <3>4, <3>5, <3>6 DEF FramesVouch
  <2> QED
    BY <2>1, <2>2, Pair
<1> QED
  BY <1>1, <1>2, <1>3, <1>4, <1>5

Final == \A d \in Ends : conn[d].state = "Disconnected" => conn'[d].state = "Disconnected"

(* The rest of such a step: the tick chain, the error it returned, types.  *)
LEMMA StepKeeps ==
  ASSUME ConnInv, NEW e \in Ends, NEW b, NEW w, Allowed(e, b, w),
         conn' = [conn EXCEPT ![e] = b], env' = env, granted' \in BOOLEAN, granted => granted',
         net' \in [Ends -> Seq(Message)],
         Range(net'[e]) \subseteq Range(net[e]),
         Range(net'[Peer(e)]) \subseteq Range(net[Peer(e)]) \cup w,
         task' \in [Ends -> {"absent", "running", "closing", "failed", "ended"}],
         ticker' \in [Ends -> BOOLEAN], \A d \in Ends : ticker'[d] => ticker[d],
         err' \in [Ends -> Error], \A d \in Ends : d # e => err'[d] = err[d],
         err'[e] # "InvalidMode",
         err'[e] = "InvalidState" => Datagram /\ e = "client" /\ granted /\ b.state # "Online",
         StreamOrder',
         spent' \in [lost : Nat, faults : Nat, updates : Nat, pings : Nat], spent'.faults >= spent.faults,
         b.interval /\ ticker'[e] /\ b.state # "Disconnected" =>
           b.timer \/ (e = "client" /\ spent'.faults > 0)
  PROVE  ConnInv' /\ Final
<1>1. /\ conn' \in [Ends -> ConnRecord] /\ conn'["server"].state # "Authenticating"
      /\ Tickless' /\ FramesVouch' /\ OnlineAgreed'
  BY StepAgrees
<1>2. /\ conn'[e] = b /\ \A d \in Ends : d # e => conn'[d] = conn[d]
  BY Basics
<1>3. TypeOK'
  <2>1. MaxResends' = MaxResends
    BY DEF MaxResends
  <2> QED
    BY <1>1, <2>1 DEF TypeOK, ConnRecord
<1>4. TickArmed'
  <2>1. SUFFICES ASSUME NEW d \in Ends, conn'[d].interval, ticker'[d], conn'[d].state # "Disconnected"
                 PROVE  conn'[d].timer \/ (d = "client" /\ spent'.faults > 0)
    BY DEF TickArmed
  <2>2. CASE d = e
    BY <1>2, <2>1, <2>2
  <2>3. CASE d # e
    <3>1. conn[d].timer \/ (d = "client" /\ spent.faults > 0)
      BY <1>2, <2>1, <2>3 DEF ConnInv, TickArmed
    <3>2. spent.faults \in Nat /\ spent'.faults \in Nat
      BY Basics
    <3> QED
      BY <1>2, <2>3, <3>1, <3>2
  <2> QED
    BY <2>2, <2>3
<1>5. NoProtocolError'
  <2>1. SUFFICES ASSUME NEW d \in Ends
                 PROVE  /\ err'[d] # "InvalidMode"
                        /\ err'[d] = "InvalidState" =>
                             Datagram' /\ d = "client" /\ granted' /\ conn'["client"].state # "Online"
    BY DEF NoProtocolError
  <2>0. Datagram' = Datagram
    BY DEF Datagram
  <2>2. CASE d = e
    BY <1>2, <2>0, <2>2
  <2>3. CASE d # e
    BY <1>2, <2>0, <2>3 DEF ConnInv, NoProtocolError
  <2> QED
    BY <2>2, <2>3
<1>6. Final
  BY <1>2 DEF Final, Allowed
<1>7. (env \in Environments)'
  BY DEF ConnInv
<1> QED
  BY <1>1, <1>3, <1>4, <1>5, <1>6, <1>7 DEF ConnInv

(* The order of a stream through the three kinds of step.                  *)
LEMMA OrderSame ==
  ASSUME ConnInv, env' = env, Up("client") => Up("client")', net'["client"] = net["client"],
         conn'["server"].state = "Online" => conn["server"].state = "Online"
  PROVE  StreamOrder'
<1>1. Datagram' = Datagram
  BY DEF Datagram
<1>2. StreamOrder
  BY DEF ConnInv
<1> QED
  BY <1>1, <1>2 DEF StreamOrder, Behind

LEMMA OrderPut ==
  ASSUME ConnInv, env' = env, Up("client") => Up("client")',
         NEW n \in [Ends -> Seq(Message)], n["client"] = net["client"], NEW ms \in Seq(Message),
         net' = Put(n, "client", ms),
         (\E f \in Traffic : f \in Range(ms)) => conn["server"].state = "Online",
         conn'["server"].state = "Online" => conn["server"].state = "Online" \/ Leads(ms)
  PROVE  StreamOrder'
<1>1. Datagram' = Datagram
  BY DEF Datagram
<1>2. SUFFICES ASSUME ~Datagram, ~Up("client")
               PROVE  /\ Behind(net'["client"])
                      /\ conn'["server"].state = "Online" => "AuthSuccess" \in Range(net'["client"])
  BY <1>1 DEF StreamOrder, Behind
<1>3. Behind(net["client"]) /\ (conn["server"].state = "Online" => "AuthSuccess" \in Range(net["client"]))
  BY <1>2 DEF ConnInv, StreamOrder
<1>4. /\ Range(n["client"]) \subseteq Range(net'["client"])
      /\ Leads(ms) => "AuthSuccess" \in Range(net'["client"])
      /\ Behind(n["client"]) /\ ((\A f \in Traffic : f \notin Range(ms)) \/ "AuthSuccess" \in Range(n["client"]))
           => Behind(net'["client"])
  BY <1>2, Queued, Pair
<1> QED
  BY <1>3, <1>4

LEMMA OrderTaken ==
  ASSUME ConnInv, env' = env, Up("client") => Up("client")', conn'["server"] = conn["server"],
         ~Datagram => 1 \in DOMAIN net["client"] /\ net'["client"] = RemoveAt(net["client"], 1),
         ~Datagram /\ net["client"][1] = "AuthSuccess" => Up("client")'
  PROVE  StreamOrder'
<1>1. Datagram' = Datagram
  BY DEF Datagram
<1>2. SUFFICES ASSUME ~Datagram, ~Up("client"), net["client"][1] # "AuthSuccess"
               PROVE  /\ Behind(net'["client"])
                      /\ conn'["server"].state = "Online" => "AuthSuccess" \in Range(net'["client"])
  BY <1>1 DEF StreamOrder, Behind
<1>3. Behind(net["client"]) /\ (conn["server"].state = "Online" => "AuthSuccess" \in Range(net["client"]))
  BY <1>2 DEF ConnInv, StreamOrder
<1>4. PICK q \in Seq(Message) : q = net["client"]
  BY Basics, Pair
<1>5. /\ Behind(q) => Behind(RemoveAt(q, 1))
      /\ "AuthSuccess" \in Range(q) => "AuthSuccess" \in Range(RemoveAt(q, 1))
  BY <1>2, <1>4, HeadTaken
<1> QED
  BY <1>2, <1>3, <1>4, <1>5

LEMMA ReceiveKeeps ==
  ASSUME ConnInv, NEW e \in Ends, NEW m \in Message, Receive(e, m)
  PROVE  ConnInv' /\ Final
<1>0. /\ Datagram \in BOOLEAN /\ MaxResends \in Nat /\ Grants \in SUBSET BOOLEAN
      /\ conn \in [Ends -> ConnRecord] /\ net \in [Ends -> Seq(Message)]
      /\ spent \in [lost : Nat, faults : Nat, updates : Nat, pings : Nat]
  BY Basics
<1>1. PICK i \in {k \in Arrivals(e) : net[e][k] = m}, grant \in Grants, fail \in Faults,
           due \in (IF spent.updates < env.updates THEN BOOLEAN ELSE {FALSE}) :
        LET r == Process(e, conn[e], m, grant, due, fail)
            asked == Authenticates(conn[e]) /\ m = "AuthRequest"
        IN  /\ conn' = [conn EXCEPT ![e] = r.c]
            /\ err' = [err EXCEPT ![e] = r.err]
            /\ net' = Put([net EXCEPT ![e] = RemoveAt(@, i)], Peer(e), r.out)
            /\ task' = [task EXCEPT ![e] = IF IsFatal(r.err) THEN "failed"
                                            ELSE IF @ = "absent" THEN "running" ELSE @]
            /\ granted' = (granted \/ (asked /\ grant))
            /\ spent' = [spent EXCEPT !.faults = @ + Count(fail # 0),
                            !.updates = @ + Count(conn[e].key # "Pending" /\ r.c.key = "Pending")]
  BY Zenon DEF Receive
<1>2. /\ i \in DOMAIN net[e] /\ net[e][i] = m /\ m \in Range(net[e]) /\ (~Datagram => i = 1)
      /\ grant \in BOOLEAN /\ due \in BOOLEAN /\ fail \in {0, 1, 2}
  BY <1>0 DEF Arrivals, Faults, Range
<1>3. UNCHANGED <<env, ticker>>
  BY DEF Receive
<1>4. PICK c \in ConnRecord : c = conn[e]
  BY <1>0
<1>5. PICK r : r = Process(e, conn[e], m, grant, due, fail) /\ Handled(e, c, m, grant, r)
  BY <1>0, <1>2, <1>4, ProcessHandled
<1>6. /\ conn' = [conn EXCEPT ![e] = r.c]
      /\ err' = [err EXCEPT ![e] = r.err]
      /\ net' = Put([net EXCEPT ![e] = RemoveAt(@, i)], Peer(e), r.out)
      /\ task' = [task EXCEPT ![e] = IF IsFatal(r.err) THEN "failed"
                                      ELSE IF @ = "absent" THEN "running" ELSE @]
      /\ granted' = (granted \/ ((Authenticates(c) /\ m = "AuthRequest") /\ grant))
      /\ spent' = [spent EXCEPT !.faults = @ + Count(fail # 0),
                      !.updates = @ + Count(conn[e].key # "Pending" /\ r.c.key = "Pending")]
  BY <1>1, <1>4, <1>5
<1> HIDE <1>1
<1>7. granted \in BOOLEAN /\ granted' \in BOOLEAN /\ (granted => granted')
  BY <1>6 DEF ConnInv, TypeOK
<1>8. (Authenticates(c) /\ m = "AuthRequest" /\ grant) => granted'
  BY <1>6
<1>9. /\ r.c \in ConnRecord /\ r.err \in Error /\ r.out \in Seq(Message)
      /\ c.state = "Disconnected" => r.c.state = "Disconnected"
      /\ c.state = "Online" => r.c.state \in {"Online", "Disconnected"}
  BY <1>5 DEF Handled, Sound
<1>10. /\ net' \in [Ends -> Seq(Message)] /\ Range(net'[e]) \subseteq Range(net[e])
       /\ Range(net'[Peer(e)]) \subseteq Range(net[Peer(e)]) \cup Range(r.out)
  <2>1. PICK q \in Seq(Message) : q = RemoveAt(net[e], i) /\ Range(q) \subseteq Range(net[e])
    BY <1>0, <1>2, Remaining
  <2>2. PICK n \in [Ends -> Seq(Message)] : /\ n = [net EXCEPT ![e] = RemoveAt(@, i)]
                                            /\ n[e] = q /\ n[Peer(e)] = net[Peer(e)]
    <3>1. LET n == [net EXCEPT ![e] = q]
          IN  n \in [Ends -> Seq(Message)] /\ n[e] = q /\ n[Peer(e)] = net[Peer(e)]
      BY <1>0, Pair
    <3>2. [net EXCEPT ![e] = RemoveAt(@, i)] = [net EXCEPT ![e] = q]
      BY <2>1
    <3> QED
      BY <3>1, <3>2
  <2>3. /\ Put(n, Peer(e), r.out) \in [Ends -> Seq(Message)]
        /\ Range(Put(n, Peer(e), r.out)[Peer(e)]) \subseteq Range(n[Peer(e)]) \cup Range(r.out)
        /\ \A d \in Ends : d # Peer(e) => Put(n, Peer(e), r.out)[d] = n[d]
    <3>1. PICK p \in Ends : p = Peer(e)
      BY Pair
    <3>2. PICK o \in Seq(Message) : o = r.out
      BY <1>9
    <3>3. /\ Put(n, p, o) \in [Ends -> Seq(Message)]
          /\ Range(Put(n, p, o)[p]) \subseteq Range(n[p]) \cup Range(o)
          /\ \A d \in Ends : d # p => Put(n, p, o)[d] = n[d]
      BY Written
    <3> QED
      BY <3>1, <3>2, <3>3
  <2>4. net' = Put(n, Peer(e), r.out)
    BY <1>6, <2>2
  <2> QED
    BY <2>1, <2>2, <2>3, <2>4, Pair
<1>11. /\ m = "AuthSuccess" => e = "client" /\ granted /\ Up("server")
       /\ m = "AuthRequest" => e = "server"
       /\ m = "AuthRequest" => conn["client"].state # "Connecting"
       /\ m \in Traffic /\ e = "client" => granted
       /\ m \in Traffic /\ e = "server" => Up("server")
       /\ conn["server"].state = "Online" => granted
       /\ granted => conn["client"].state # "Connecting"
  <2>1. FramesVouch /\ (e = "client" \/ e = "server")
    BY Pair DEF ConnInv
  <2> QED
    BY <1>2, <2>1 DEF FramesVouch
<1>12. Allowed(e, r.c, Range(r.out))
  <2>1. e = "client" /\ r.c.state = "Online" => conn["client"].state = "Online" \/ (granted /\ Up("server"))
    BY <1>4, <1>5, <1>11 DEF Handled
  <2>2. e = "server" => r.c.state # "Authenticating"
    BY <1>4, <1>5 DEF Handled, ConnInv
  <2>3. ~Datagram => ~r.c.interval /\ ~r.c.timer
    BY <1>4, <1>5 DEF Handled, ConnInv, Tickless
  <2>4. /\ "AuthRequest" \in Range(r.out) => e = "client" /\ r.c.state # "Connecting"
        /\ conn[e].state # "Connecting" => r.c.state # "Connecting"
    BY <1>4, <1>5 DEF Handled
  <2>5. "AuthSuccess" \in Range(r.out) => e = "server" /\ granted' /\ r.c.state = "Online"
    BY <1>5, <1>8 DEF Handled
  <2>6. (\E f \in Traffic : f \in Range(r.out)) => conn[e].state = "Online"
    BY <1>4, <1>5 DEF Handled
  <2>7. e = "server" /\ r.c.state = "Online" => granted'
    BY <1>4, <1>5, <1>7, <1>8, <1>11 DEF Handled
  <2>8. granted' => granted \/ conn["client"].state # "Connecting"
    BY <1>6, <1>11
  <2> QED
    BY <1>4, <1>9, <2>1, <2>2, <2>3, <2>4, <2>5, <2>6, <2>7, <2>8 DEF Allowed
<1>13. /\ task' \in [Ends -> {"absent", "running", "closing", "failed", "ended"}]
       /\ ticker' = ticker /\ ticker' \in [Ends -> BOOLEAN]
       /\ err' \in [Ends -> Error] /\ err'[e] = r.err /\ \A d \in Ends : d # e => err'[d] = err[d]
  BY <1>3, <1>6, <1>9 DEF ConnInv, TypeOK
<1>14. /\ spent' \in [lost : Nat, faults : Nat, updates : Nat, pings : Nat]
       /\ spent'.faults >= spent.faults
  <2>1. PICK a \in Nat : a = Count(fail # 0)
    BY DEF Count
  <2>2. PICK b \in Nat : b = Count(conn[e].key # "Pending" /\ r.c.key = "Pending")
    BY DEF Count
  <2>3. spent' = [spent EXCEPT !.faults = @ + a, !.updates = @ + b]
    <3>1. spent' = [spent EXCEPT !.faults = @ + Count(fail # 0),
                      !.updates = @ + Count(conn[e].key # "Pending" /\ r.c.key = "Pending")]
      BY <1>6
    <3> QED
      BY <2>1, <2>2, <3>1
  <2>4. spent.faults \in Nat /\ spent.updates \in Nat /\ spent.lost \in Nat /\ spent.pings \in Nat
    BY <1>0
  <2>5. spent' = [lost |-> spent.lost, faults |-> spent.faults + a, updates |-> spent.updates + b,
                  pings |-> spent.pings]
    BY <1>0, <2>3
  <2> QED
    BY <2>4, <2>5
<1>15. r.err # "InvalidMode"
  BY <1>5, <1>11 DEF Handled
<1>16. r.err = "InvalidState" => Datagram /\ e = "client" /\ granted /\ r.c.state # "Online"
  <2>1. SUFFICES ASSUME r.err = "InvalidState"
                 PROVE  Datagram /\ e = "client" /\ granted /\ r.c.state # "Online"
    OBVIOUS
  <2>2. /\ c.state \notin {"Online", "Disconnected"} /\ r.c.state # "Online"
        /\ m \in Traffic \/ (e = "server" /\ c.state = "Authenticating")
    BY <1>5, <2>1 DEF Handled
  <2>3. m \in Traffic
    BY <1>4, <2>2 DEF ConnInv
  <2>4. e = "client"
    BY <1>4, <1>11, <2>2, <2>3, Pair DEF Up
  <2>5. ASSUME ~Datagram PROVE FALSE
    <3>1. i = 1
      BY <1>2, <2>5
    <3>2. Behind(net["client"]) /\ 1 \in DOMAIN net["client"] /\ net["client"][1] \in Traffic
      BY <1>2, <1>4, <2>2, <2>3, <2>4, <2>5, <3>1 DEF ConnInv, StreamOrder, Up
    <3>3. PICK j \in DOMAIN net["client"] : j < 1
      BY <3>2 DEF Behind
    <3>4. PICK q \in Seq(Message) : q = net["client"]
      BY <1>0, Pair
    <3>5. j \in 1..Len(q) /\ Len(q) \in Nat
      BY <3>3, <3>4, LenProperties
    <3> QED
      BY <3>3, <3>5
  <2> QED
    BY <1>11, <2>2, <2>3, <2>4, <2>5
<1>17. r.c.interval /\ ticker'[e] /\ r.c.state # "Disconnected" =>
         r.c.timer \/ (e = "client" /\ spent'.faults > 0)
  <2>1. CASE Armed(c)
    BY <1>5, <2>1 DEF Handled, Armed
  <2>2. CASE ~Armed(c)
    <3>1. SUFFICES ASSUME ticker'[e], r.c.state # "Disconnected" PROVE e = "client" /\ spent'.faults > 0
      OBVIOUS
    <3>2. conn[e].interval /\ ~conn[e].timer /\ ticker[e] /\ conn[e].state # "Disconnected"
      BY <1>4, <1>9, <1>13, <2>2, <3>1 DEF Armed
    <3>3. e = "client" /\ spent.faults > 0
      BY <3>2 DEF ConnInv, TickArmed
    <3>4. spent.faults \in Nat /\ spent'.faults \in Nat
      BY <1>0, <1>14
    <3> QED
      BY <1>14, <3>3, <3>4
  <2> QED
    BY <2>1, <2>2
<1>18. /\ err'[e] # "InvalidMode"
       /\ err'[e] = "InvalidState" => Datagram /\ e = "client" /\ granted /\ r.c.state # "Online"
  BY <1>13, <1>15, <1>16
<1>19. env' = env /\ \A d \in Ends : ticker'[d] => ticker[d]
  BY <1>3
<1>20. StreamOrder'
  <2>0. conn'[e] = r.c /\ \A d \in Ends : d # e => conn'[d] = conn[d]
    BY <1>0, <1>6
  <2>1. Up("client") => Up("client")'
    <3>1. CASE e = "client"
      BY <1>4, <1>9, <2>0, <3>1 DEF Up
    <3>2. CASE e # "client"
      BY <2>0, <3>2, Pair DEF Up
    <3> QED
      BY <3>1, <3>2
  <2>2. CASE e = "client"
    <3>1. conn'["server"] = conn["server"]
      BY <2>0, <2>2, Pair
    <3>2. ASSUME ~Datagram
          PROVE  1 \in DOMAIN net["client"] /\ net'["client"] = RemoveAt(net["client"], 1)
                 /\ net["client"][1] = m
      <4>1. i = 1
        BY <1>2, <3>2
      <4>2. PICK n \in [Ends -> Seq(Message)] : /\ n = [net EXCEPT ![e] = RemoveAt(@, i)]
                                                /\ n["client"] = RemoveAt(net["client"], 1)
        <5>1. PICK q \in Seq(Message) : q = RemoveAt(net[e], i)
          BY <1>0, <1>2, Remaining
        <5>2. LET n == [net EXCEPT ![e] = q] IN n \in [Ends -> Seq(Message)] /\ n[e] = q
          BY <1>0
        <5>3. [net EXCEPT ![e] = RemoveAt(@, i)] = [net EXCEPT ![e] = q]
          BY <5>1
        <5> QED
          BY <2>2, <4>1, <5>1, <5>2, <5>3
      <4>3. PICK p \in Ends : p = Peer(e) /\ p # "client"
        BY <2>2, Pair
      <4>4. \A d \in Ends : d # p => Put(n, p, r.out)[d] = n[d]
        BY <1>9, Written
      <4>5. net' = Put(n, p, r.out)
        BY <1>6, <4>2, <4>3
      <4> QED
        BY <1>2, <2>2, <4>1, <4>2, <4>3, <4>4, <4>5, Pair
    <3>3. m = "AuthSuccess" => Up("client")'
      <4>1. SUFFICES ASSUME m = "AuthSuccess" PROVE r.c.state \in {"Online", "Disconnected"}
        BY <2>0, <2>2 DEF Up
      <4>2. c.state # "Connecting"
        BY <1>4, <1>11, <2>2, <4>1
      <4> QED
        BY <1>2, <1>4, <1>5, <2>2, <4>1, <4>2, ReplyAccepted
    <3> QED
      BY <1>19, <2>1, <3>1, <3>2, <3>3, OrderTaken
  <2>3. CASE e = "server"
    <3>1. PICK o \in Seq(Message) : o = r.out
      BY <1>9
    <3>2. PICK n \in [Ends -> Seq(Message)] : /\ n = [net EXCEPT ![e] = RemoveAt(@, i)]
                                              /\ n["client"] = net["client"]
      <4>1. PICK q \in Seq(Message) : q = RemoveAt(net[e], i)
        BY <1>0, <1>2, Remaining
      <4>2. LET n == [net EXCEPT ![e] = q]
            IN  n \in [Ends -> Seq(Message)] /\ \A d \in Ends : d # e => n[d] = net[d]
        BY <1>0
      <4>3. [net EXCEPT ![e] = RemoveAt(@, i)] = [net EXCEPT ![e] = q]
        BY <4>1
      <4> QED
        BY <2>3, <4>2, <4>3, Pair
    <3>3. net' = Put(n, "client", o)
      BY <1>6, <2>3, <3>1, <3>2, Pair
    <3>4. (\E f \in Traffic : f \in Range(o)) => conn["server"].state = "Online"
      BY <1>4, <1>5, <2>3, <3>1 DEF Handled
    <3>5. ASSUME conn'["server"].state = "Online", conn["server"].state # "Online" PROVE Leads(o)
      <4>1. r.c.state = "Online" /\ c.state # "Online"
        BY <1>4, <2>0, <2>3, <3>5
      <4>2. m = "AuthRequest" /\ grant /\ Authenticates(c)
        BY <1>5, <2>3, <4>1 DEF Handled
      <4>3. c.state = "LinkUp" /\ grant = TRUE
        BY <1>2, <4>1, <4>2 DEF Authenticates
      <4>4. r = Process("server", c, "AuthRequest", TRUE, due, fail)
        BY <1>4, <1>5, <2>3, <4>2, <4>3
      <4> QED
        BY <1>2, <3>1, <4>1, <4>3, <4>4, GrantAnnounced
    <3> QED
      BY <1>19, <2>1, <3>2, <3>3, <3>4, <3>5, OrderPut
  <2> QED
    BY <2>2, <2>3, Pair
<1> QED
  BY <1>6, <1>7, <1>10, <1>12, <1>13, <1>14, <1>17, <1>18, <1>19, <1>20, StepKeeps

LEMMA TickKeeps ==
  ASSUME ConnInv, NEW e \in Ends, Tick(e)
  PROVE  ConnInv' /\ Final
<1>0. /\ Datagram \in BOOLEAN /\ MaxResends \in Nat
      /\ conn \in [Ends -> ConnRecord] /\ net \in [Ends -> Seq(Message)]
      /\ spent \in [lost : Nat, faults : Nat, updates : Nat, pings : Nat]
  BY Basics
<1>1. PICK expired \in Expiry(e), fail \in Faults \ {2} :
        LET r == ConnectionTick(e, conn[e], expired, fail = 1)
            timedOut == r.err = "TimedOut"
        IN  /\ conn' = [conn EXCEPT ![e] = r.c]
            /\ net' = Put(net, Peer(e), r.out)
            /\ err' = [err EXCEPT ![e] = r.err]
            /\ ticker' = [ticker EXCEPT ![e] = ~timedOut]
            /\ task' = [task EXCEPT ![e] = IF timedOut /\ e = "client" THEN "failed" ELSE @]
            /\ spent' = [spent EXCEPT !.faults = @ + fail]
  BY Zenon DEF Tick
<1>2. ticker[e] /\ conn[e].timer /\ UNCHANGED <<env, granted>>
  BY DEF Tick
<1>3. Datagram /\ (e = "server" => conn[e].state # "Authenticating")
  BY <1>2 DEF ConnInv, Tickless
<1>4. expired \in BOOLEAN /\ fail \in {0, 1}
  <2>1. Expiry(e) \subseteq BOOLEAN
    BY DEF Expiry
  <2> QED
    BY <2>1 DEF Faults
<1>5. PICK f \in BOOLEAN : f = (fail = 1)
  OBVIOUS
<1>6. PICK c \in ConnRecord : c = conn[e]
  BY <1>0
<1>7. PICK r : r = ConnectionTick(e, c, expired, f) /\ Ticked(e, c, f, r)
  <2>1. e = "server" => c.state # "Authenticating"
    BY <1>3, <1>6
  <2> QED
    BY <1>0, <1>3, <1>4, <2>1, TickHandled
<1>8. /\ conn' = [conn EXCEPT ![e] = r.c]
      /\ net' = Put(net, Peer(e), r.out)
      /\ err' = [err EXCEPT ![e] = r.err]
      /\ ticker' = [ticker EXCEPT ![e] = ~(r.err = "TimedOut")]
      /\ task' = [task EXCEPT ![e] = IF r.err = "TimedOut" /\ e = "client" THEN "failed" ELSE @]
      /\ spent' = [spent EXCEPT !.faults = @ + fail]
  BY <1>1, <1>5, <1>6, <1>7
<1> HIDE <1>1
<1>9. /\ r.c \in ConnRecord /\ r.err \in Error /\ r.out \in Seq(Message)
      /\ c.state = "Disconnected" => r.c.state = "Disconnected"
      /\ c.state = "Online" => r.c.state \in {"Online", "Disconnected"}
      /\ r.err \notin {"InvalidMode", "InvalidState"}
      /\ r.c.state = "Online" => c.state = "Online"
      /\ e = "server" => r.c.state # "Authenticating"
      /\ c.state # "Connecting" => r.c.state # "Connecting"
      /\ Armed(r.c) \/ r.err = "TimedOut" \/ r.c.state = "Disconnected" \/ (e = "client" /\ f)
  BY <1>7 DEF Ticked, Sound
<1>10. /\ "AuthSuccess" \notin Range(r.out) /\ ~\E g \in Traffic : g \in Range(r.out)
       /\ "AuthRequest" \in Range(r.out) => e = "client" /\ r.c.state # "Connecting"
  BY <1>7 DEF Ticked
<1>11. /\ net' \in [Ends -> Seq(Message)] /\ Range(net'[e]) \subseteq Range(net[e])
       /\ Range(net'[Peer(e)]) \subseteq Range(net[Peer(e)]) \cup Range(r.out)
  <2>1. PICK p \in Ends : p = Peer(e) /\ p # e
    BY Pair
  <2>2. PICK o \in Seq(Message) : o = r.out
    BY <1>9
  <2>3. /\ Put(net, p, o) \in [Ends -> Seq(Message)]
        /\ Range(Put(net, p, o)[p]) \subseteq Range(net[p]) \cup Range(o)
        /\ \A d \in Ends : d # p => Put(net, p, o)[d] = net[d]
    BY <1>0, Written
  <2>4. net' = Put(net, p, o)
    BY <1>8, <2>1, <2>2
  <2> QED
    BY <2>1, <2>2, <2>3, <2>4
<1>12. Allowed(e, r.c, Range(r.out))
  <2>1. e = "client" /\ r.c.state = "Online" => conn["client"].state = "Online"
    BY <1>6, <1>9
  <2>2. e = "server" /\ r.c.state = "Online" => granted'
    BY <1>2, <1>6, <1>9 DEF ConnInv, FramesVouch
  <2> QED
    BY <1>2, <1>3, <1>6, <1>9, <1>10, <2>1, <2>2 DEF Allowed
<1>13. /\ task' \in [Ends -> {"absent", "running", "closing", "failed", "ended"}]
       /\ ticker' \in [Ends -> BOOLEAN] /\ ticker'[e] = (r.err # "TimedOut")
       /\ \A d \in Ends : ticker'[d] => ticker[d]
       /\ err' \in [Ends -> Error] /\ err'[e] = r.err /\ \A d \in Ends : d # e => err'[d] = err[d]
  BY <1>2, <1>8, <1>9 DEF ConnInv, TypeOK
<1>14. /\ spent' \in [lost : Nat, faults : Nat, updates : Nat, pings : Nat]
       /\ spent'.faults = spent.faults + fail /\ spent.faults \in Nat
  <2>1. spent.faults \in Nat /\ spent.updates \in Nat /\ spent.lost \in Nat /\ spent.pings \in Nat
    BY <1>0
  <2>2. spent' = [lost |-> spent.lost, faults |-> spent.faults + fail, updates |-> spent.updates,
                  pings |-> spent.pings]
    <3>1. spent' = [spent EXCEPT !.faults = @ + fail]
      BY <1>8
    <3> QED
      BY <1>0, <3>1
  <2> QED
    BY <1>4, <2>1, <2>2
<1>15. r.c.interval /\ ticker'[e] /\ r.c.state # "Disconnected" =>
         r.c.timer \/ (e = "client" /\ spent'.faults > 0)
  <2>1. f => spent'.faults > 0
    <3>1. CASE fail = 1
      BY <1>14, <3>1
    <3>2. CASE fail # 1
      BY <1>5, <3>2
    <3> QED
      BY <3>1, <3>2
  <2> QED
    BY <1>9, <1>13, <2>1 DEF Armed
<1>16. spent'.faults >= spent.faults
  BY <1>4, <1>14
<1>17. /\ err'[e] # "InvalidMode" /\ err'[e] # "InvalidState"
  BY <1>9, <1>13
<1>18. env' = env /\ granted' \in BOOLEAN /\ (granted => granted')
  BY <1>2 DEF ConnInv, TypeOK
<1>19. StreamOrder'
  BY <1>3, <1>18 DEF StreamOrder, Datagram
<1> QED
  BY <1>8, <1>19, <1>11, <1>12, <1>13, <1>14, <1>15, <1>16, <1>17, <1>18, StepKeeps

(* An end that disconnects: Teardown, Stop and Evict.                      *)
LEMMA CloseKeeps ==
  ASSUME ConnInv, NEW e \in Ends, NEW r, r = Disconnect(conn[e]),
         NEW out \in Seq(Message), Range(out) \subseteq {"Goodbye", "EOF"},
         conn' = [conn EXCEPT ![e] = r.c], net' = Put(net, Peer(e), out),
         task' \in [Ends -> {"absent", "running", "closing", "failed", "ended"}],
         UNCHANGED <<env, ticker, err, granted, spent>>
  PROVE  ConnInv' /\ Final
<1>0. /\ conn \in [Ends -> ConnRecord] /\ net \in [Ends -> Seq(Message)]
      /\ spent \in [lost : Nat, faults : Nat, updates : Nat, pings : Nat]
  BY Basics
<1>1. PICK c \in ConnRecord : c = conn[e]
  BY <1>0
<1>2. /\ r.c \in ConnRecord /\ r.c.interval = c.interval /\ r.c.timer = c.timer
      /\ r.c.state # "Disconnected" => r.c.state = c.state
      /\ c.state # "Connecting" => r.c.state = "Disconnected"
      /\ c.state = "Disconnected" => r.c.state = "Disconnected"
      /\ r.c.state = "Online" => c.state = "Online"
  BY <1>1, Disconnects
<1>3. Allowed(e, r.c, Range(out))
  <2>1. /\ "AuthSuccess" \notin Range(out) /\ "AuthRequest" \notin Range(out)
        /\ ~\E f \in Traffic : f \in Range(out)
    BY DEF Traffic
  <2>2. e = "server" => r.c.state # "Authenticating"
    BY <1>1, <1>2 DEF ConnInv
  <2>3. ~Datagram => ~r.c.interval /\ ~r.c.timer
    BY <1>1, <1>2 DEF ConnInv, Tickless
  <2>4. e = "server" /\ r.c.state = "Online" => granted'
    BY <1>1, <1>2 DEF ConnInv, FramesVouch
  <2> QED
    BY <1>1, <1>2, <2>1, <2>2, <2>3, <2>4 DEF Allowed
<1>4. /\ net' \in [Ends -> Seq(Message)] /\ Range(net'[e]) \subseteq Range(net[e])
      /\ Range(net'[Peer(e)]) \subseteq Range(net[Peer(e)]) \cup Range(out)
  <2>1. PICK p \in Ends : p = Peer(e) /\ p # e
    BY Pair
  <2>2. /\ Put(net, p, out) \in [Ends -> Seq(Message)]
        /\ Range(Put(net, p, out)[p]) \subseteq Range(net[p]) \cup Range(out)
        /\ \A d \in Ends : d # p => Put(net, p, out)[d] = net[d]
    BY <1>0, Written
  <2> QED
    BY <2>1, <2>2
<1>5. /\ ticker' = ticker /\ ticker' \in [Ends -> BOOLEAN] /\ err' = err /\ err' \in [Ends -> Error]
      /\ env' = env /\ granted' \in BOOLEAN /\ (granted => granted')
      /\ \A d \in Ends : ticker'[d] => ticker[d]
      /\ \A d \in Ends : d # e => err'[d] = err[d]
      /\ spent' = spent /\ spent' \in [lost : Nat, faults : Nat, updates : Nat, pings : Nat]
      /\ spent'.faults >= spent.faults
  BY <1>0 DEF ConnInv, TypeOK
<1>6. r.c.interval /\ ticker'[e] /\ r.c.state # "Disconnected" =>
        r.c.timer \/ (e = "client" /\ spent'.faults > 0)
  BY <1>1, <1>2, <1>5 DEF ConnInv, TickArmed
<1>7. /\ err'[e] # "InvalidMode"
      /\ err'[e] = "InvalidState" => Datagram /\ e = "client" /\ granted /\ r.c.state # "Online"
  BY <1>1, <1>2, <1>5 DEF ConnInv, NoProtocolError
<1>8. StreamOrder'
  <2>0. conn'[e] = r.c /\ \A d \in Ends : d # e => conn'[d] = conn[d]
    BY <1>0
  <2>1. /\ Up("client") => Up("client")'
        /\ conn'["server"].state = "Online" => conn["server"].state = "Online"
    <3>1. CASE e = "client"
      BY <1>1, <1>2, <2>0, <3>1, Pair DEF Up
    <3>2. CASE e = "server"
      BY <1>1, <1>2, <2>0, <3>2, Pair DEF Up
    <3> QED
      BY <3>1, <3>2, Pair
  <2>2. CASE e = "client"
    <3>1. PICK p \in Ends : p = Peer(e) /\ p # "client"
      BY <2>2, Pair
    <3>2. \A d \in Ends : d # p => Put(net, p, out)[d] = net[d]
      BY <1>0, Written
    <3>3. net'["client"] = net["client"]
      BY <3>1, <3>2, Pair
    <3> QED
      BY <1>5, <2>1, <3>3, OrderSame
  <2>3. CASE e = "server"
    <3>1. net' = Put(net, "client", out) /\ ~\E f \in Traffic : f \in Range(out)
      BY <2>3, Pair DEF Traffic
    <3> QED
      BY <1>0, <1>5, <2>1, <3>1, OrderPut
  <2> QED
    BY <2>2, <2>3, Pair
<1> QED
  BY <1>8, <1>3, <1>4, <1>5, <1>6, <1>7, StepKeeps

(* Steps that touch neither Connection.                                    *)
LEMMA StillKeeps ==
  ASSUME ConnInv, UNCHANGED <<env, conn, ticker, err, granted>>, FramesVouch', StreamOrder',
         net' \in [Ends -> Seq(Message)],
         task' \in [Ends -> {"absent", "running", "closing", "failed", "ended"}],
         spent' \in [lost : Nat, faults : Nat, updates : Nat, pings : Nat], spent'.faults = spent.faults
  PROVE  ConnInv' /\ Final
<1>1. MaxResends' = MaxResends /\ Datagram' = Datagram
  BY DEF MaxResends, Datagram
<1>2. TypeOK' /\ Tickless' /\ OnlineAgreed' /\ TickArmed' /\ NoProtocolError'
  BY <1>1 DEF ConnInv, TypeOK, Tickless, OnlineAgreed, TickArmed, NoProtocolError
<1> QED
  BY <1>2 DEF ConnInv, Final

LEMMA NextKeeps ==
  ASSUME ConnInv, [Next]_vars
  PROVE  ConnInv' /\ Final
<1>0. /\ conn \in [Ends -> ConnRecord] /\ net \in [Ends -> Seq(Message)]
      /\ spent \in [lost : Nat, faults : Nat, updates : Nat, pings : Nat]
      /\ task \in [Ends -> {"absent", "running", "closing", "failed", "ended"}]
      /\ FramesVouch
  BY Basics DEF ConnInv, TypeOK
<1>1. CASE \E e \in Ends, m \in Message : Receive(e, m)
  BY <1>1, ReceiveKeeps
<1>2. CASE \E e \in Ends : Tick(e)
  BY <1>2, TickKeeps
<1>3. ASSUME NEW e \in Ends, Teardown(e) PROVE ConnInv' /\ Final
  <2>1. PICK r : /\ r = Disconnect(conn[e]) /\ conn' = [conn EXCEPT ![e] = r.c]
                 /\ net' = Put(net, Peer(e), Farewell(r))
    BY <1>3 DEF Teardown
  <2>2. r.out \in Seq(Message) /\ Range(r.out) \subseteq {"Goodbye"}
    <3>1. PICK c \in ConnRecord : c = conn[e]
      BY <1>0
    <3> QED
      BY <2>1, <3>1, Disconnects
  <2>3. PICK o \in Seq(Message) : o = Farewell(r) /\ Range(o) \subseteq {"Goodbye", "EOF"}
    <3>1. CASE Datagram
      BY <2>2, <3>1 DEF Farewell
    <3>2. CASE ~Datagram
      <4>1. "EOF" \in Message
        BY DEF Message
      <4>2. PICK s \in Seq(Message) : s = r.out /\ Range(s) \subseteq {"Goodbye"}
        BY <2>2
      <4>3. Append(s, "EOF") \in Seq(Message) /\ Range(Append(s, "EOF")) = Range(s) \cup {"EOF"}
        BY <4>1, Answers
      <4>4. Farewell(r) = Append(s, "EOF")
        BY <3>2, <4>2 DEF Farewell
      <4> QED
        BY <4>2, <4>3, <4>4
    <3> QED
      BY <3>1, <3>2
  <2>4. /\ task' \in [Ends -> {"absent", "running", "closing", "failed", "ended"}]
        /\ UNCHANGED <<env, ticker, err, granted, spent>>
    BY <1>0, <1>3 DEF Teardown
  <2>5. net' = Put(net, Peer(e), o)
    BY <2>1, <2>3
  <2> QED
    BY <2>1, <2>3, <2>4, <2>5, CloseKeeps
<1>4. ASSUME NEW e \in Ends, Lose(e) PROVE ConnInv' /\ Final
  <2>1. PICK i \in DOMAIN net[e] : net' = [net EXCEPT ![e] = RemoveAt(@, i)]
    BY <1>4 DEF Lose
  <2>2. PICK q \in Seq(Message) : q = RemoveAt(net[e], i) /\ Range(q) \subseteq Range(net[e])
    BY <1>0, Remaining
  <2>3. net' = [net EXCEPT ![e] = q]
    BY <2>1, <2>2
  <2>4. net' \in [Ends -> Seq(Message)] /\ \A d \in Ends : Range(net'[d]) \subseteq Range(net[d])
    BY <1>0, <2>2, <2>3
  <2>5. UNCHANGED <<env, conn, task, ticker, err, granted>> /\ spent' = [spent EXCEPT !.lost = @ + 1]
    BY <1>4 DEF Lose
  <2>6. FramesVouch'
    <3>1. /\ Range(net'["client"]) \subseteq Range(net["client"])
          /\ Range(net'["server"]) \subseteq Range(net["server"])
      BY <2>4, Pair
    <3>2. \A d \in Ends : Up(d)' = Up(d)
      BY <2>5 DEF Up
    <3> QED
      BY <1>0, <2>5, <3>1, <3>2, Pair DEF FramesVouch
  <2>8. StreamOrder'
    BY <1>4, <2>5 DEF Lose, StreamOrder, Datagram
  <2>7. /\ task' = task /\ spent' \in [lost : Nat, faults : Nat, updates : Nat, pings : Nat]
        /\ spent'.faults = spent.faults
    <3>1. spent' = [spent EXCEPT !.lost = @ + 1] /\ task' = task
      BY <2>5
    <3>2. spent.lost + 1 \in Nat
      BY <1>0
    <3> QED
      BY <1>0, <3>1, <3>2
  <2> QED
    BY <1>0, <2>4, <2>5, <2>6, <2>7, <2>8, StillKeeps
<1>5. ASSUME NEW e \in Ends, NEW m \in Traffic, SendTraffic(e, m) PROVE ConnInv' /\ Final
  <2>1. /\ conn[e].state = "Online" /\ net' = Put(net, Peer(e), <<m>>)
        /\ UNCHANGED <<env, conn, task, ticker, err, granted>> /\ spent' = [spent EXCEPT !.pings = @ + 1]
    BY <1>5 DEF SendTraffic
  <2>2. PICK o \in Seq(Message) : o = <<m>> /\ Range(o) = {m}
    <3>1. m \in Message
      BY DEF Traffic, Message, Frame
    <3>2. <<m>> \in Seq(Message) /\ Range(<<m>>) = {m}
      BY <3>1, Answers
    <3> QED
      BY <3>2
  <2>p. PICK p \in Ends : p = Peer(e) /\ p # e
    BY Pair
  <2>3. /\ Put(net, p, o) \in [Ends -> Seq(Message)]
        /\ Range(Put(net, p, o)[p]) \subseteq Range(net[p]) \cup Range(o)
        /\ \A d \in Ends : d # p => Put(net, p, o)[d] = net[d]
    BY <1>0, Written, ZenonT(40)
  <2>n. net' = Put(net, p, o)
    BY <2>1, <2>2, <2>p
  <2>4. /\ net' \in [Ends -> Seq(Message)] /\ net'[e] = net[e]
        /\ Range(net'[p]) \subseteq Range(net[p]) \cup {m}
    BY <2>2, <2>3, <2>n, <2>p
  <2>5. FramesVouch'
    <3>1. \A d \in Ends : Up(d)' = Up(d)
      BY <2>1 DEF Up
    <3>2. m \notin {"AuthRequest", "AuthSuccess"}
      BY DEF Traffic
    <3>3. CASE e = "client"
      <4>1. p = "server" /\ Up("server")
        BY <2>1, <2>p, <3>3, Pair DEF ConnInv, OnlineAgreed, Up
      <4> QED
        BY <1>0, <2>1, <2>4, <3>1, <3>2, <3>3, <4>1, Pair DEF FramesVouch
    <3>4. CASE e = "server"
      <4>1. p = "client" /\ granted
        BY <1>0, <2>1, <2>p, <3>4, Pair DEF FramesVouch
      <4> QED
        BY <1>0, <2>1, <2>4, <3>1, <3>2, <3>4, <4>1, Pair DEF FramesVouch
    <3> QED
      BY <3>3, <3>4, Pair
  <2>6. /\ task' = task /\ spent' \in [lost : Nat, faults : Nat, updates : Nat, pings : Nat]
        /\ spent'.faults = spent.faults
    <3>1. spent' = [spent EXCEPT !.pings = @ + 1] /\ task' = task
      BY <2>1
    <3>2. spent.pings + 1 \in Nat
      BY <1>0
    <3> QED
      BY <1>0, <3>1, <3>2
  <2>7. StreamOrder'
    <3>0. env' = env /\ conn' = conn /\ (Up("client") => Up("client")')
      BY <2>1 DEF Up
    <3>1. CASE e = "client"
      <4>1. net'["client"] = net["client"]
        BY <2>4, <3>1
      <4> QED
        BY <3>0, <4>1, OrderSame
    <3>2. CASE e = "server"
      <4>1. net' = Put(net, "client", o) /\ conn["server"].state = "Online"
        BY <2>1, <2>n, <2>p, <3>2, Pair
      <4> QED
        BY <1>0, <3>0, <4>1, OrderPut
    <3> QED
      BY <3>1, <3>2, Pair
  <2> QED
    BY <1>0, <2>1, <2>4, <2>5, <2>6, <2>7, StillKeeps
<1>6. ASSUME NEW c \in ConnRecord PROVE Disconnect(c).out \in Seq(Message) /\ Range(Disconnect(c).out) \subseteq {"Goodbye", "EOF"}
  BY Disconnects
<1>7. CASE Stop
  <2>1. PICK r : /\ r = Disconnect(conn["client"]) /\ conn' = [conn EXCEPT !["client"] = r.c]
                 /\ net' = Put(net, "server", r.out)
                 /\ task' = [task EXCEPT !["client"] = IF r.err = "None" THEN "closing" ELSE "failed"]
    BY <1>7 DEF Stop
  <2>2. PICK o \in Seq(Message) : o = r.out /\ Range(o) \subseteq {"Goodbye", "EOF"}
    BY <1>0, <1>6, <2>1, Pair
  <2>3. /\ task' \in [Ends -> {"absent", "running", "closing", "failed", "ended"}]
        /\ UNCHANGED <<env, ticker, err, granted, spent>>
    BY <1>0, <1>7, <2>1 DEF Stop
  <2>4. net' = Put(net, Peer("client"), o)
    BY <2>1, <2>2, Pair
  <2> QED
    BY <2>1, <2>2, <2>3, <2>4, Pair, CloseKeeps
<1>8. CASE Evict
  <2>1. PICK r : /\ r = Disconnect(conn["server"]) /\ conn' = [conn EXCEPT !["server"] = r.c]
                 /\ net' = Put(net, "client", r.out)
    BY <1>8 DEF Evict
  <2>2. PICK o \in Seq(Message) : o = r.out /\ Range(o) \subseteq {"Goodbye", "EOF"}
    BY <1>0, <1>6, <2>1, Pair
  <2>3. /\ task' \in [Ends -> {"absent", "running", "closing", "failed", "ended"}]
        /\ UNCHANGED <<env, ticker, err, granted, spent>>
    BY <1>0, <1>8 DEF Evict
  <2>4. net' = Put(net, Peer("server"), o)
    BY <2>1, <2>2, Pair
  <2> QED
    BY <2>1, <2>2, <2>3, <2>4, Pair, CloseKeeps
<1>9. ASSUME AgeCheck \/ UNCHANGED vars PROVE ConnInv' /\ Final
  <2>1. /\ UNCHANGED <<env, conn, ticker, err, net, granted, spent>>
        /\ task' \in [Ends -> {"absent", "running", "closing", "failed", "ended"}]
    BY <1>0, <1>9 DEF AgeCheck, vars
  <2>2. FramesVouch'
    BY <1>0, <2>1 DEF FramesVouch, Up
  <2>3. StreamOrder'
    BY <2>1, OrderSame DEF Up
  <2> QED
    BY <1>0, <2>1, <2>2, <2>3, StillKeeps
<1> QED
  BY <1>1, <1>2, <1>3, <1>4, <1>5, <1>7, <1>8, <1>9 DEF Next

LEMMA InitAgrees ==
  ASSUME Init PROVE ConnInv
<1>1. env \in Environment /\ env \in Environments
  BY ConnectionAssumption DEF Init
<1>2. Datagram \in BOOLEAN /\ MaxResends \in Nat
  BY <1>1 DEF Environment, Datagram, MaxResends
<1>3. \A e \in Ends : /\ conn[e] = New /\ err[e] = "None" /\ ticker[e] = Datagram
                      /\ conn[e].state = "Connecting" /\ conn[e].interval = Datagram /\ conn[e].timer = Datagram
  BY DEF Init, New
<1>4. New \in ConnRecord
  BY <1>2 DEF New, ConnRecord, State, KeyState
<1>5. /\ net \in [Ends -> Seq(Message)] /\ Range(net["client"]) = {} /\ Range(net["server"]) = {"Hello"}
  <2>1. "Hello" \in Message
    BY DEF Message, LibraryMessage
  <2>2. PICK z \in Seq(Message) : z = <<>> /\ Range(z) = {}
    BY Answers, Zenon
  <2>3. PICK h \in Seq(Message) : h = <<"Hello">> /\ Range(h) = {"Hello"}
    <3>1. <<"Hello">> \in Seq(Message) /\ Range(<<"Hello">>) = {"Hello"}
      BY <2>1, Answers
    <3> QED
      BY <3>1, Zenon
  <2>4. net = [e \in Ends |-> IF e = "server" THEN h ELSE z]
    BY <2>2, <2>3 DEF Init
  <2> QED
    BY <2>2, <2>3, <2>4, Pair
<1>6. TypeOK
  <2>1. conn \in [Ends -> ConnRecord]
    BY <1>4 DEF Init
  <2>2. /\ task \in [Ends -> {"absent", "running", "closing", "failed", "ended"}]
        /\ ticker \in [Ends -> BOOLEAN] /\ err \in [Ends -> Error] /\ granted \in BOOLEAN
    BY <1>2 DEF Init, Error
  <2>3. spent \in [lost : Nat, faults : Nat, updates : Nat, pings : Nat]
    BY DEF Init
  <2> QED
    BY <1>5, <2>1, <2>2, <2>3 DEF TypeOK, ConnRecord
<1>7. FramesVouch /\ StreamOrder
  <2>1. FramesVouch
    BY <1>3, <1>5, Pair DEF FramesVouch, Traffic, Init
  <2>2. DOMAIN net["client"] = {}
    BY Pair DEF Init
  <2> QED
    BY <1>3, <2>1, <2>2, Pair DEF StreamOrder, Behind
<1>8. Tickless /\ OnlineAgreed /\ TickArmed /\ NoProtocolError /\ conn["server"].state # "Authenticating"
  BY <1>2, <1>3, Pair DEF Tickless, OnlineAgreed, TickArmed, NoProtocolError
<1> QED
  BY <1>1, <1>6, <1>7, <1>8 DEF ConnInv

(* The inductive invariant: with the types, what every frame in flight     *)
(* tells of its sender, and which ticks are due (outside_data_received,    *)
(* connection_tick, disconnect).                                           *)
THEOREM ConnectionInvariant == Spec => []ConnInv
<1>1. Init => ConnInv
  BY InitAgrees
<1>2. ConnInv /\ [Next]_vars => ConnInv'
  BY NextKeeps
<1> QED
  BY <1>1, <1>2, PTL DEF Spec

(* Whatever is lost, overtaken, repeated or refused, and however large the *)
(* bounds: a client is Online only if the server granted it and went Online*)
(* with it, and the chain of ticks that repeats handshakes, requests and   *)
(* key updates breaks only by a client's failed write (handle_auth_request,*)
(* handle_auth_response, update_tick_interval, connection_tick).           *)
THEOREM TunnelIsSafe == Spec => []TunnelSafe
<1>1. ConnInv => TunnelSafe
  BY DEF ConnInv, TunnelSafe
<1> QED
  BY <1>1, ConnectionInvariant, PTL

(* For every environment: no frame goes the wrong way; on a stream none,   *)
(* traffic of the server that nobody asked for included, meets a state     *)
(* that refuses it; on datagrams only a client that was granted and is not *)
(* yet Online refuses a frame, one that overtook its AuthSuccess           *)
(* (handle_messages, handle_auth_request, ConnectionError::is_fatal).      *)
THEOREM NoProtocolErrors == Spec => []NoProtocolError
<1>1. ConnInv => NoProtocolError
  BY DEF ConnInv
<1> QED
  BY <1>1, ConnectionInvariant, PTL

(* No message, tick or call revives a connection that was closed           *)
(* (process_new_outside_data, connection_tick, disconnect).                *)
THEOREM ClosedForGood == Spec => DisconnectedFinal
<1>1. ConnInv /\ [Next]_vars =>
        [\A e \in Ends : conn[e].state = "Disconnected" => conn'[e].state = "Disconnected"]_vars
  BY NextKeeps DEF Final
<1> QED
  BY <1>1, ConnectionInvariant, PTL DEF Spec, DisconnectedFinal
=============================================================================
