----------------------------- MODULE InsidePath -----------------------------
(***************************************************************************)
(* The way of an inside packet: out of the client's TUN, through address   *)
(* translation, MSS clamping and the inside plugins, over the tunnel, out  *)
(* of the server's TUN, and back again with the answer of the host it was  *)
(* sent to.  Every rewrite patches the checksums incrementally.            *)
(*                                                                         *)
(* A checksum word has WordBase values instead of 2^16, and two bytes of   *)
(* which WordBase is the square; one's complement arithmetic is the same.  *)
(* An address is two words.  Of a packet's payload one word is kept.       *)
(***************************************************************************)
EXTENDS Integers, SequencesExt

CONSTANTS WordBase,      \* values of a checksum word
          Hosts,         \* addresses packets are sent to
          TunIp, TunDns, \* addresses of the client's TUN and the DNS address it shows the host
          ClientIp, ServerDns,  \* addresses the server hands out with the configuration
          PoolIp,        \* the address the server's network knows the client by
          InsideMtu, MssLimit,
          Chains         \* inside plugin chains

Words == 0..(WordBase - 1)

\* A word is two bytes; addresses are words, and so is an MSS.
ASSUME PathBounds ==
  /\ WordBase \in Nat /\ \E b \in 2..WordBase : b * b = WordBase
  /\ Hosts \subseteq Words \X Words /\ {TunIp, TunDns, ClientIp, ServerDns, PoolIp} \subseteq Words \X Words
  /\ InsideMtu \in Nat \ {0} /\ MssLimit \in Words /\ Chains \subseteq Seq(STRING)

VARIABLES
  way,        \* the plugins and the offload of the TUN; does path MTU discovery clamp the MSS
  configured, \* has the client its ip_config, is it Online
  stage,      \* where the packet is
  pkt,        \* the packet
  origin      \* the packet as the client's host sent it

pathVars == <<way, configured, stage, pkt, origin>>

Ones == WordBase - 1
SumOf(ip) == ip[1] + ip[2]

-----------------------------------------------------------------------------
(* Incremental checksums, RFC 1624 [Eqn. 4].                               *)

Wraps(c, rhs) == (c - rhs) % WordBase                       \* mutant: the borrow is not carried around
Minus(c, rhs) == IF c < rhs THEN c - rhs + WordBase - 1 ELSE c - rhs

update_word(c, old, new) == Minus(Minus(c, Ones - old), new)
Updates(c, old, new) == update_word(update_word(c, old[1], new[1]), old[2], new[2])

(* TCP and UDP checksums cover the addresses too; only the first fragment  *)
(* holds one, and a UDP checksum of zero means that there is none.         *)
HasSum(p) == ~p.fragment /\ p.proto \in {"tcp", "udp"} /\ ~(p.proto = "udp" /\ p.l4_sum = 0)
AdjustL4(p, old, new) == IF HasSum(p) THEN [p EXCEPT !.l4_sum = Updates(@, old, new)] ELSE p

ipv4_update_source(p, ip) ==
  AdjustL4([p EXCEPT !.src = ip, !.ip_sum = Updates(@, p.src, ip)], p.src, ip)
ipv4_update_destination(p, ip) ==
  AdjustL4([p EXCEPT !.dst = ip, !.ip_sum = Updates(@, p.dst, ip)], p.dst, ip)

(* Of a later fragment, data that look like a SYN are clamped as well.     *)
tcp_clamp_mss(p) ==
  IF p.proto # "tcp" \/ p.mss <= MssLimit THEN p
  ELSE [p EXCEPT !.mss = MssLimit, !.l4_sum = update_word(@, p.mss, MssLimit)]

-----------------------------------------------------------------------------
(* Plugins: "pad<n>" transforms a packet on its way in and undoes it on    *)
(* its way out, "even" drops packets whose word is odd, "reject" answers   *)
(* packets with an empty word itself.  Both ends run the same chain.       *)

Verdict(plugin, p) ==
  IF plugin = "even" /\ p.word % 2 = 1 THEN "drop"
  ELSE IF plugin = "reject" /\ p.word = 0 THEN "reply" ELSE "accept"
IsPad(plugin) == plugin \notin {"even", "reject"}

Pads(plugin, p) == IF IsPad(plugin) THEN [p EXCEPT !.pads = Append(@, plugin)] ELSE p
Unpads(plugin, p) ==
  IF IsPad(plugin) THEN [p EXCEPT !.pads = IF @ # <<>> /\ Last(@) = plugin THEN Front(@) ELSE Append(@, "torn")] ELSE p

(* Results of a chain: the packet, and the first verdict that is not       *)
(* accept, at which the chain stops.                                       *)
Stops(verdict) == verdict # "accept"
Through(plugin, r, entering) ==
  IF Stops(r.verdict) THEN r
  ELSE [pkt |-> IF entering THEN Pads(plugin, r.pkt) ELSE Unpads(plugin, r.pkt),
        verdict |-> Verdict(plugin, r.pkt)]
Run(chain, p, entering) ==
  LET after[i \in 0..Len(chain)] ==
        IF i = 0 THEN [pkt |-> p, verdict |-> "accept"] ELSE Through(chain[i], after[i - 1], entering)
  IN after[Len(chain)]

do_ingress(p) == Run(way.chain, p, TRUE)
SameOrder(p) == Run(way.chain, p, FALSE)                    \* mutant: both directions run in the same order
do_egress(p) == Run(Reverse(way.chain), p, FALSE)

-----------------------------------------------------------------------------
(* The TUN: with offload a header precedes every packet read.              *)

HeaderLen == IF way.offload THEN 1 ELSE 0
vnet_headroom == HeaderLen
Least(a, b) == IF a < b THEN a ELSE b
ReadFromTun(p) == [p EXCEPT !.size = Least(HeaderLen + @, InsideMtu + vnet_headroom) - HeaderLen]

(* What a receiving host requires of a packet.                             *)
Swapped(w) == LET byte == CHOOSE b \in 1..WordBase : b * b = WordBase IN (w % byte) * byte + w \div byte
MssWord(p) == IF p.proto = "tcp" THEN IF p.odd THEN Swapped(p.mss) ELSE p.mss ELSE 0
IpSumOk(p) == (SumOf(p.src) + SumOf(p.dst) + p.ip_sum) % Ones = 0
L4SumOk(p) ==
  \/ p.fragment \/ p.proto \notin {"tcp", "udp"}
  \/ p.proto = "udp" /\ p.l4_sum = 0
  \/ (SumOf(p.src) + SumOf(p.dst) + MssWord(p) + p.word + p.l4_sum) % Ones = 0

(* A host computes both checksums itself, or no UDP checksum at all.       *)
Complement(sum) == Ones - (IF sum = 0 THEN 0 ELSE ((sum - 1) % Ones) + 1)
UdpSum(c) == IF c = 0 THEN Ones ELSE c
Summed(p, none) ==
  LET l4 == Complement(SumOf(p.src) + SumOf(p.dst) + MssWord(p) + p.word) IN
  [p EXCEPT !.ip_sum = Complement(SumOf(p.src) + SumOf(p.dst)),
            !.l4_sum = IF p.fragment \/ p.proto \notin {"tcp", "udp"} THEN 0
                       ELSE IF p.proto = "tcp" THEN l4
                       ELSE IF none THEN 0 ELSE UdpSum(l4)]

NoPkt == [src |-> TunIp, dst |-> TunIp, proto |-> "icmp", fragment |-> FALSE, odd |-> FALSE, mss |-> 0,
          word |-> 0, size |-> 0, ip_sum |-> 0, l4_sum |-> 0, pads |-> <<>>]

PathInit ==
  /\ way \in [chain : Chains, offload : BOOLEAN, clamps : BOOLEAN]
  /\ configured = FALSE /\ stage = "none" /\ pkt = NoPkt /\ origin = NoPkt

-----------------------------------------------------------------------------
At(from, to) == stage = from /\ stage' = to
Gone == stage' = "none" /\ pkt' = NoPkt /\ origin' = NoPkt

Configure ==
  /\ ~configured /\ configured' = TRUE
  /\ UNCHANGED <<way, stage, pkt, origin>>

HostWrites(dst, kind, mss, word, size) ==
  /\ At("none", "read")
  /\ origin' = Summed([NoPkt EXCEPT !.dst = dst, !.proto = kind[1], !.fragment = kind[2] = "fragment", !.odd = kind[2] = "odd",
                                    !.mss = mss, !.word = word, !.size = size], kind[2] = "none")
  /\ pkt' = ReadFromTun(origin')
  /\ UNCHANGED <<way, configured>>

(* inside_data_received of either end; `clamps` on the client only.        *)
Acceptable(p) == p.size <= InsideMtu /\ p.proto # "ipv6"
Ingress(p, clamps) == do_ingress(IF clamps THEN tcp_clamp_mss(p) ELSE p)

TranslateOut(p) ==
  LET q == ipv4_update_source(p, ClientIp) IN
  IF q.dst = TunDns THEN ipv4_update_destination(q, ServerDns) ELSE q
TranslateIn(p) ==
  LET q == ipv4_update_destination(p, TunIp) IN
  IF configured /\ q.src = ServerDns THEN ipv4_update_source(q, TunDns) ELSE q

(* The reply a plugin makes of a packet goes straight back.                *)
ReplyTo(p) == Summed([p EXCEPT !.src = p.dst, !.dst = p.src, !.pads = <<>>], FALSE)

Outward == IF configured THEN TranslateOut(pkt) ELSE pkt
Entered == Ingress(Outward, way.clamps)

(* process_inside_packet: what is not Online, too long or not IPv4 is      *)
(* dropped, as is what a plugin drops; a plugin's reply goes back.         *)
ClientForwards ==
  /\ At("read", "uplink") /\ configured /\ Acceptable(Outward) /\ Entered.verdict = "accept"
  /\ pkt' = Entered.pkt /\ UNCHANGED <<way, configured, origin>>

ClientDrops ==
  /\ stage = "read" /\ (configured /\ Acceptable(Outward) => Entered.verdict = "drop")
  /\ Gone /\ UNCHANGED <<way, configured>>

ClientReplies ==
  /\ At("read", "host") /\ configured /\ Acceptable(Outward) /\ Entered.verdict = "reply"
  /\ pkt' = TranslateIn(ReplyTo(Outward)) /\ UNCHANGED <<way, configured, origin>>

Lost ==
  /\ stage \in {"uplink", "downlink"} /\ Gone
  /\ UNCHANGED <<way, configured>>

FromClient(p) == ipv4_update_source(p, PoolIp)

ServerSendsInside ==
  LET r == do_egress(pkt) IN
  /\ stage = "uplink" /\ UNCHANGED <<way, configured>>
  /\ IF r.verdict = "accept" THEN stage' = "remote" /\ pkt' = FromClient(r.pkt) /\ UNCHANGED origin ELSE Gone

(* The host at the other end answers a packet it accepts.                  *)
RemoteAnswers(word) ==
  /\ At("remote", "served")
  /\ pkt' = Summed([pkt EXCEPT !.src = pkt.dst, !.dst = pkt.src, !.mss = 0, !.word = word], FALSE)
  /\ UNCHANGED <<way, configured, origin>>

ServerForwards ==
  LET r == Ingress(ipv4_update_destination(pkt, ClientIp), FALSE) IN
  /\ stage = "served" /\ UNCHANGED <<way, configured>>
  /\ IF r.verdict = "accept" THEN stage' = "downlink" /\ pkt' = r.pkt /\ UNCHANGED origin ELSE Gone

ClientSendsInside ==
  LET r == do_egress(pkt) IN
  /\ stage = "downlink" /\ UNCHANGED <<way, configured>>
  /\ IF r.verdict = "accept" THEN stage' = "host" /\ pkt' = TranslateIn(r.pkt) /\ UNCHANGED origin ELSE Gone

Consumed ==
  /\ stage = "host" /\ Gone
  /\ UNCHANGED <<way, configured>>

(* Protocols; TCP and UDP as later fragments too, TCP with its MSS option  *)
(* at an odd offset, UDP without a checksum.                               *)
Kinds == {<<"tcp", "plain">>, <<"tcp", "odd">>, <<"tcp", "fragment">>, <<"udp", "plain">>, <<"udp", "none">>,
          <<"udp", "fragment">>, <<"icmp", "plain">>, <<"ipv6", "plain">>}
MssOf(kind) == IF kind[1] = "tcp" THEN {MssLimit, Ones} ELSE {0}

PathNext ==
  \/ \E dst \in Hosts, kind \in Kinds, word \in 0..Ones, size \in {1, InsideMtu} :
       \E mss \in MssOf(kind) : HostWrites(dst, kind, mss, word, size)
  \/ \E word \in {0, Ones} : RemoteAnswers(word)
  \/ Configure \/ ClientForwards \/ ClientDrops \/ ClientReplies \/ Lost
  \/ ServerSendsInside \/ ServerForwards \/ ClientSendsInside \/ Consumed

PathSpec == PathInit /\ [][PathNext]_pathVars

-----------------------------------------------------------------------------
(* A packet on its way, wherever it is, has words of the checksum width    *)
(* after every incremental update (utils.rs).                              *)
PathTypeOK ==
  /\ stage \in {"none", "read", "uplink", "remote", "served", "downlink", "host"}
  /\ pkt.ip_sum \in 0..Ones /\ pkt.l4_sum \in 0..Ones

(* However often a packet is rewritten on its way, the host it reaches     *)
(* finds its checksums right.  (Unless an MSS option at an odd offset is   *)
(* clamped: the update takes its value for a word of the checksum.)        *)
ChecksumsKept ==
  stage \in {"uplink", "remote", "downlink", "host"} =>
    IpSumOk(pkt) /\ (L4SumOk(pkt) \/ (origin.odd /\ pkt.mss # origin.mss))

(* What leaves the server's TUN is the packet the host sent, whole, with   *)
(* every transformation of the plugins undone, from the client's address   *)
(* in the pool.                                                            *)
ArrivesAsSent ==
  stage = "remote" =>
    /\ pkt.size = origin.size /\ pkt.word = origin.word /\ pkt.pads = <<>> /\ pkt.src = PoolIp
    /\ pkt.dst = IF origin.dst = TunDns THEN ServerDns ELSE origin.dst

(* The answer comes to the host's own address from the one it wrote to.    *)
(* (A host that writes to the server's DNS address itself is answered from *)
(* the TUN's.)                                                             *)
AnsweredByAddressee ==
  stage = "host" /\ origin.dst # ServerDns => pkt.dst = TunIp /\ pkt.src = origin.dst /\ pkt.pads = <<>>

(* No packet a filter of the chain refuses gets through, either way.       *)
Filtered == stage \in {"remote", "host"} /\ "even" \in ToSet(way.chain) => pkt.word % 2 = 0

(* The tunnel is transparent: what comes out at the far end is what went   *)
(* in, with right checksums, from the address the receiver expects, unless *)
(* a filter refused it, through translation, clamping and plugins, there   *)
(* and back (tun.rs, plugin.rs, utils.rs).                                 *)
TunnelTransparent ==
  /\ PathTypeOK
  /\ ChecksumsKept
  /\ ArrivesAsSent
  /\ AnsweredByAddressee
  /\ Filtered
=============================================================================
