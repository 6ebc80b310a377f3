---------------------------- MODULE DatapathProofs ----------------------------
(***************************************************************************)
(* Three exchanges a connection carries on with its peer while it is       *)
(* Online: of the inside packet codec, of the path MTU and of the packet   *)
(* counters by which an ExpressLane path is judged.  Messages are lost,    *)
(* repeated and overtaken, timers fire late; each is proved safe for any   *)
(* number of requests, probes, retries, ids and reports.  And the packets  *)
(* too large for a datagram: however their fragments arrive, what is       *)
(* rebuilt was sent and what arrived is rebuilt.                           *)
(* Last the way out: however the socket behaves, frames leave in order.    *)
(***************************************************************************)
EXTENDS Codec, Dplpmtud, ExpresslaneHealth, FragmentMap, SendPath, FiniteSetTheorems, SequenceTheorems,
        WellFoundedInduction, NaturalsInduction, TLAPS

(* The codec.  One id, one request: all copies of it, and in a server that *)
(* allows the codec all answers, say the same, and say what the server     *)
(* does if it is the last request the server followed.                     *)
SaysSame(M) == \A m, n \in M : m.id = n.id => m.enable = n.enable

CodecInv ==
  /\ CodecTypeOK /\ EncodingAgreed /\ RequestTicked
  /\ idCounter \in [client : Nat, server : Nat]
  /\ authorized \in BOOLEAN /\ agreed \in BOOLEAN
  /\ pendingReq \in Messages \cup {NoRequest}
  /\ \A m \in requests \cup responses : m.id <= idCounter.client
  /\ SaysSame(requests \cup {pendingReq})
  /\ authorized => /\ SaysSame(requests \cup responses \cup {pendingReq})
                   /\ \A m \in requests \cup responses \cup {pendingReq} :
                        m # NoRequest /\ m.id = idCounter.server => m.enable = encoding.server
                   /\ \A m \in responses : m.id <= idCounter.server
                   /\ agreed => idCounter.server = idCounter.client
  /\ ~authorized => /\ ~encoding.client /\ ~encoding.server /\ idCounter.server = 0
                    /\ \A m \in responses : ~m.enable

-----------------------------------------------------------------------------
(* What the invariant says of the parts, with the conditions spelled out.  *)
LEMMA CodecParts ==
  ASSUME CodecInv
  PROVE  /\ encoding \in [client : BOOLEAN, server : BOOLEAN] /\ idCounter \in [client : Nat, server : Nat]
         /\ idCounter.server <= idCounter.client /\ idCounter.client \in 0..MaxRequests
         /\ requests \subseteq Messages /\ responses \subseteq Messages
         /\ \A m \in requests \cup responses : m.id \in 1..idCounter.client /\ m # NoRequest /\ m \in Messages
         /\ pendingReq # NoRequest => pendingReq \in Messages /\ pendingReq.id = idCounter.client
  BY CodecAssumption DEF CodecInv, CodecTypeOK, Messages, NoRequest

LEMMA SetEncodingKeeps ==
  ASSUME CodecInv, NEW enable \in BOOLEAN, set_encoding(enable)
  PROVE  CodecInv'
<1>0. /\ encoding \in [client : BOOLEAN, server : BOOLEAN] /\ idCounter \in [client : Nat, server : Nat]
      /\ idCounter.server <= idCounter.client /\ idCounter.client \in 0..MaxRequests
      /\ requests \subseteq Messages /\ responses \subseteq Messages
      /\ \A m \in requests \cup responses : m.id \in 1..idCounter.client /\ m # NoRequest /\ m \in Messages
      /\ pendingReq # NoRequest => pendingReq \in Messages /\ pendingReq.id = idCounter.client
  BY CodecParts
<1>1. PICK k \in Nat : k = idCounter.client
  BY <1>0
<1>2. PICK r : /\ r = [id |-> k + 1, enable |-> enable] /\ r \in Messages /\ r.id = k + 1
               /\ r.enable = enable /\ r # NoRequest
  <2>1. k + 1 \in 1..MaxRequests
    BY <1>0, <1>1, CodecAssumption DEF set_encoding
  <2>2. LET r == [id |-> k + 1, enable |-> enable] IN
        r \in Messages /\ r.id = k + 1 /\ r.enable = enable /\ r # NoRequest
    BY <2>1 DEF Messages, NoRequest
  <2> QED
    BY <2>2
<1>3. /\ idCounter' = [idCounter EXCEPT !.client = k + 1] /\ pendingReq' = r /\ retries' = 0
      /\ codecTicks' = codecTicks \cup {k + 1} /\ requests' = requests \cup {r} /\ agreed' = FALSE
      /\ UNCHANGED <<encoding, responses, authorized>>
  BY <1>1, <1>2 DEF set_encoding
<1>4. /\ idCounter' \in [client : Nat, server : Nat] /\ idCounter'.client = k + 1
      /\ idCounter'.server = idCounter.server
  BY <1>0, <1>1, <1>3
<1>5. CodecTypeOK'
  <2>1. idCounter'.server <= idCounter'.client /\ idCounter'.client \in 0..MaxRequests
    BY <1>0, <1>1, <1>2, <1>4 DEF Messages
  <2>2. codecTicks' \subseteq 1..idCounter'.client
    BY <1>0, <1>1, <1>3, <1>4 DEF CodecInv, CodecTypeOK
  <2>3. retries' \in 0..ENCODING_REQUEST_PKT_MAX_RETRANSMISSION_ATTEMPTS
    BY <1>3, CodecAssumption
  <2> QED
    BY <1>0, <1>2, <1>3, <1>4, <2>1, <2>2, <2>3 DEF CodecTypeOK
<1>6. EncodingAgreed' /\ RequestTicked'
  BY <1>2, <1>3 DEF EncodingAgreed, RequestTicked
<1>7. \A m \in requests \cup responses : m.id # r.id /\ m.id <= k
  BY <1>0, <1>1, <1>2
<1>8. \A m \in requests' \cup responses' : m.id <= idCounter'.client
  BY <1>0, <1>1, <1>2, <1>3, <1>4, <1>7
<1>9. SaysSame(requests' \cup {pendingReq'})
  BY <1>3, <1>7 DEF CodecInv, SaysSame
<1>10. ASSUME authorized'
       PROVE  /\ SaysSame(requests' \cup responses' \cup {pendingReq'})
              /\ \A m \in requests' \cup responses' \cup {pendingReq'} :
                   m # NoRequest /\ m.id = idCounter'.server => m.enable = encoding'.server
              /\ \A m \in responses' : m.id <= idCounter'.server
              /\ ~agreed'
  <2>1. SaysSame(requests \cup responses \cup {pendingReq})
    BY <1>3, <1>10 DEF CodecInv
  <2>2. SaysSame(requests' \cup responses' \cup {pendingReq'})
    BY <1>3, <1>7, <2>1 DEF SaysSame
  <2>3. r.id # idCounter.server
    BY <1>0, <1>1, <1>2
  <2>4. \A m \in requests \cup responses : m # NoRequest /\ m.id = idCounter.server => m.enable = encoding.server
    BY <1>3, <1>10 DEF CodecInv
  <2>5. \A m \in responses : m.id <= idCounter.server
    BY <1>3, <1>10 DEF CodecInv
  <2> QED
    BY <1>3, <1>4, <2>2, <2>3, <2>4, <2>5
<1>11. ASSUME ~authorized'
       PROVE  /\ ~encoding'.client /\ ~encoding'.server /\ idCounter'.server = 0
              /\ \A m \in responses' : ~m.enable
  BY <1>3, <1>4, <1>11 DEF CodecInv
<1>12. authorized' \in BOOLEAN /\ agreed' \in BOOLEAN /\ pendingReq' \in Messages \cup {NoRequest}
  BY <1>2, <1>3 DEF CodecInv
<1> QED
  BY <1>4, <1>5, <1>6, <1>8, <1>9, <1>10, <1>11, <1>12 DEF CodecInv

(* Ticks and losses: no end changes, and no message says anything new.     *)
LEMMA QuietKeeps ==
  ASSUME CodecInv, UNCHANGED <<encoding, idCounter, agreed, authorized>>,
         pendingReq' \in {pendingReq, NoRequest}, RequestTicked',
         \A m \in requests' : m \in requests \/ (m = pendingReq /\ pendingReq # NoRequest),
         responses' \subseteq responses, codecTicks' \subseteq codecTicks,
         retries' \in 0..ENCODING_REQUEST_PKT_MAX_RETRANSMISSION_ATTEMPTS
  PROVE  CodecInv'
<1>0. /\ encoding \in [client : BOOLEAN, server : BOOLEAN] /\ idCounter \in [client : Nat, server : Nat]
      /\ idCounter.server <= idCounter.client /\ idCounter.client \in 0..MaxRequests
      /\ requests \subseteq Messages /\ responses \subseteq Messages
      /\ \A m \in requests \cup responses : m.id \in 1..idCounter.client /\ m # NoRequest /\ m \in Messages
      /\ pendingReq # NoRequest => pendingReq \in Messages /\ pendingReq.id = idCounter.client
  BY CodecParts
<1>1. CodecTypeOK'
  BY <1>0 DEF CodecInv, CodecTypeOK
<1>2. EncodingAgreed'
  BY DEF CodecInv, EncodingAgreed
<1>3. \A m \in requests' \cup responses' : m.id <= idCounter'.client
  BY <1>0
<1>4. NoRequest.id = 0 /\ \A m \in requests' \cup responses' : m.id # 0
  BY <1>0, CodecAssumption DEF NoRequest, Messages
<1>5. SaysSame(requests' \cup {pendingReq'})
  BY <1>4 DEF CodecInv, SaysSame
<1>6. ASSUME authorized'
      PROVE  /\ SaysSame(requests' \cup responses' \cup {pendingReq'})
             /\ \A m \in requests' \cup responses' \cup {pendingReq'} :
                  m # NoRequest /\ m.id = idCounter'.server => m.enable = encoding'.server
             /\ \A m \in responses' : m.id <= idCounter'.server
             /\ agreed' => idCounter'.server = idCounter'.client
  <2>1. /\ SaysSame(requests \cup responses \cup {pendingReq})
        /\ \A m \in requests \cup responses \cup {pendingReq} :
             m # NoRequest /\ m.id = idCounter.server => m.enable = encoding.server
        /\ \A m \in responses : m.id <= idCounter.server
        /\ agreed => idCounter.server = idCounter.client
    BY <1>6 DEF CodecInv
  <2>2. SaysSame(requests' \cup responses' \cup {pendingReq'})
    BY <1>4, <2>1 DEF SaysSame
  <2> QED
    BY <2>1, <2>2
<1>7. ~authorized' => /\ ~encoding'.client /\ ~encoding'.server /\ idCounter'.server = 0
                      /\ \A m \in responses' : ~m.enable
  BY DEF CodecInv
<1>8. authorized' \in BOOLEAN /\ agreed' \in BOOLEAN /\ pendingReq' \in Messages \cup {NoRequest}
      /\ idCounter' \in [client : Nat, server : Nat]
  BY DEF CodecInv
<1> QED
  BY <1>1, <1>2, <1>3, <1>5, <1>6, <1>7, <1>8 DEF CodecInv

LEMMA CodecTickKeeps ==
  ASSUME CodecInv, NEW id \in 1..MaxRequests, codec_tick(id)
  PROVE  CodecInv'
<1>0. /\ UNCHANGED <<encoding, idCounter, agreed, authorized>> /\ responses' = responses
  BY DEF codec_tick
<1>a. /\ RequestTicked /\ retries \in 0..ENCODING_REQUEST_PKT_MAX_RETRANSMISSION_ATTEMPTS
      /\ pendingReq # NoRequest => pendingReq.id = idCounter.client
  BY DEF CodecInv, CodecTypeOK
<1>1. CASE pendingReq = NoRequest \/ id # idCounter.client
  <2>1. codecTicks' = codecTicks \ {id} /\ UNCHANGED <<pendingReq, retries, requests>>
    BY <1>1 DEF codec_tick
  <2>2. RequestTicked'
    BY <1>1, <1>a, <2>1 DEF RequestTicked
  <2>3. codecTicks' \subseteq codecTicks /\ retries' = retries /\ pendingReq' = pendingReq
        /\ \A m \in requests' : m \in requests
    BY <2>1
  <2> QED
    BY <1>0, <1>a, <2>2, <2>3, QuietKeeps
<1>2. CASE pendingReq # NoRequest /\ id = idCounter.client
           /\ retries >= ENCODING_REQUEST_PKT_MAX_RETRANSMISSION_ATTEMPTS
  <2>1. pendingReq' = NoRequest /\ codecTicks' = codecTicks \ {id} /\ UNCHANGED <<retries, requests>>
    BY <1>2 DEF codec_tick
  <2>2. RequestTicked'
    BY <2>1 DEF RequestTicked
  <2>3. codecTicks' \subseteq codecTicks /\ retries' = retries /\ pendingReq' = NoRequest
        /\ \A m \in requests' : m \in requests
    BY <2>1
  <2> QED
    BY <1>0, <1>a, <2>2, <2>3, QuietKeeps
<1>3. CASE pendingReq # NoRequest /\ id = idCounter.client
           /\ ~(retries >= ENCODING_REQUEST_PKT_MAX_RETRANSMISSION_ATTEMPTS)
  <2>1. retries' = retries + 1 /\ requests' = requests \cup {pendingReq} /\ UNCHANGED <<pendingReq, codecTicks>>
    BY <1>3 DEF codec_tick
  <2>2. RequestTicked'
    BY <1>a, <2>1 DEF RequestTicked
  <2>3. retries' \in 0..ENCODING_REQUEST_PKT_MAX_RETRANSMISSION_ATTEMPTS
    BY <1>3, <1>a, <2>1, CodecAssumption
  <2>4. codecTicks' \subseteq codecTicks /\ pendingReq' = pendingReq
        /\ \A m \in requests' : m \in requests \/ (m = pendingReq /\ pendingReq # NoRequest)
    BY <1>3, <2>1
  <2> QED
    BY <1>0, <2>2, <2>3, <2>4, QuietKeeps
<1> QED
  BY <1>1, <1>2, <1>3

LEMMA RequestKeeps ==
  ASSUME CodecInv, NEW m \in Messages, process_encoding_request_pkt(m)
  PROVE  CodecInv'
<1>0. /\ encoding \in [client : BOOLEAN, server : BOOLEAN] /\ idCounter \in [client : Nat, server : Nat]
      /\ idCounter.server <= idCounter.client /\ idCounter.client \in 0..MaxRequests
      /\ requests \subseteq Messages /\ responses \subseteq Messages
      /\ \A n \in requests \cup responses : n.id \in 1..idCounter.client /\ n # NoRequest /\ n \in Messages
      /\ pendingReq # NoRequest => pendingReq \in Messages /\ pendingReq.id = idCounter.client
  BY CodecParts
<1>1. /\ m \in requests /\ requests' \subseteq requests
      /\ UNCHANGED <<pendingReq, retries, codecTicks, agreed, authorized>>
  BY DEF process_encoding_request_pkt, Received
<1>2. m.id \in 1..idCounter.client /\ m.enable \in BOOLEAN /\ m # NoRequest
  BY <1>0, <1>1 DEF Messages
<1>3. RequestTicked'
  BY <1>1 DEF CodecInv, RequestTicked
<1>4. SaysSame(requests' \cup {pendingReq'})
  BY <1>1 DEF CodecInv, SaysSame
<1>5. authorized' \in BOOLEAN /\ agreed' \in BOOLEAN /\ pendingReq' \in Messages \cup {NoRequest}
  BY <1>1 DEF CodecInv
<1>6. CASE ~authorized
  <2>1. PICK r \in Messages : r = [id |-> m.id, enable |-> FALSE] /\ r.id = m.id /\ ~r.enable
    <3>1. LET r == [id |-> m.id, enable |-> FALSE] IN r \in Messages /\ r.id = m.id /\ ~r.enable
      BY DEF Messages
    <3> QED
      BY <3>1
  <2>2. responses' = responses \cup {r} /\ UNCHANGED <<encoding, idCounter>>
    BY <1>6, <2>1 DEF process_encoding_request_pkt
  <2>3. CodecTypeOK' /\ EncodingAgreed'
    BY <1>0, <1>1, <2>2 DEF CodecInv, CodecTypeOK, EncodingAgreed
  <2>4. \A n \in requests' \cup responses' : n.id <= idCounter'.client
    BY <1>0, <1>1, <1>2, <2>1, <2>2
  <2>5. /\ ~encoding'.client /\ ~encoding'.server /\ idCounter'.server = 0
        /\ \A n \in responses' : ~n.enable
    BY <1>6, <2>1, <2>2 DEF CodecInv
  <2> QED
    BY <1>0, <1>1, <1>3, <1>4, <1>5, <1>6, <2>2, <2>3, <2>4, <2>5 DEF CodecInv
<1>7. CASE authorized /\ m.id < idCounter.server
  <2>1. UNCHANGED <<encoding, idCounter, responses>>
    BY <1>0, <1>2, <1>7 DEF process_encoding_request_pkt
  <2> QED
    BY <1>1, <1>3, <2>1, QuietKeeps DEF CodecInv, CodecTypeOK
<1>8. CASE authorized /\ m.id >= idCounter.server
  <2>1. /\ idCounter' = [idCounter EXCEPT !.server = m.id]
        /\ encoding' = [encoding EXCEPT !.server = m.enable]
        /\ responses' = responses \cup {m}
    BY <1>0, <1>2, <1>8 DEF process_encoding_request_pkt
  <2>2. /\ idCounter' \in [client : Nat, server : Nat] /\ idCounter'.client = idCounter.client
        /\ idCounter'.server = m.id
        /\ encoding' \in [client : BOOLEAN, server : BOOLEAN] /\ encoding'.client = encoding.client
        /\ encoding'.server = m.enable
    BY <1>0, <1>2, <2>1
  <2>3. /\ SaysSame(requests \cup responses \cup {pendingReq})
        /\ \A n \in requests \cup responses \cup {pendingReq} :
             n # NoRequest /\ n.id = idCounter.server => n.enable = encoding.server
        /\ \A n \in responses : n.id <= idCounter.server
        /\ agreed => idCounter.server = idCounter.client
    BY <1>8 DEF CodecInv
  <2>4. CodecTypeOK'
    BY <1>0, <1>1, <1>2, <2>1, <2>2 DEF CodecInv, CodecTypeOK
  <2>5. agreed => m.id = idCounter.server /\ m.enable = encoding.server
    BY <1>0, <1>1, <1>2, <1>8, <2>3
  <2>6. EncodingAgreed'
    BY <1>1, <2>2, <2>5 DEF CodecInv, EncodingAgreed
  <2>7. \A n \in requests' \cup responses' : n.id <= idCounter'.client
    BY <1>0, <1>1, <1>2, <2>1, <2>2
  <2>8. SaysSame(requests' \cup responses' \cup {pendingReq'})
    BY <1>1, <2>1, <2>3 DEF SaysSame
  <2>9. \A n \in requests' \cup responses' \cup {pendingReq'} :
          n # NoRequest /\ n.id = idCounter'.server => n.enable = encoding'.server
    BY <1>1, <2>1, <2>2, <2>3 DEF SaysSame
  <2>10. \A n \in responses' : n.id <= idCounter'.server
    <3>1. SUFFICES ASSUME NEW n \in responses PROVE n.id <= m.id
      BY <1>2, <2>1, <2>2
    <3>2. n.id \in Nat /\ m.id \in Nat /\ n.id <= idCounter.server
      BY <1>0, <1>2, <2>3
    <3> QED
      BY <1>0, <1>8, <3>2
  <2>11. agreed' => idCounter'.server = idCounter'.client
    BY <1>1, <2>2, <2>3, <2>5
  <2>12. authorized'
    BY <1>1, <1>8
  <2> QED
    BY <1>3, <1>4, <1>5, <2>2, <2>4, <2>6, <2>7, <2>8, <2>9, <2>10, <2>11, <2>12 DEF CodecInv
<1> QED
  BY <1>0, <1>2, <1>6, <1>7, <1>8

LEMMA ResponseKeeps ==
  ASSUME CodecInv, NEW m \in Messages, process_encoding_response_pkt(m)
  PROVE  CodecInv'
<1>0. /\ encoding \in [client : BOOLEAN, server : BOOLEAN] /\ idCounter \in [client : Nat, server : Nat]
      /\ idCounter.server <= idCounter.client /\ idCounter.client \in 0..MaxRequests
      /\ requests \subseteq Messages /\ responses \subseteq Messages
      /\ \A n \in requests \cup responses : n.id \in 1..idCounter.client /\ n # NoRequest /\ n \in Messages
      /\ pendingReq # NoRequest => pendingReq \in Messages /\ pendingReq.id = idCounter.client
  BY CodecParts
<1>1. /\ m \in responses /\ responses' \subseteq responses
      /\ UNCHANGED <<idCounter, retries, codecTicks, requests, authorized>>
  BY DEF process_encoding_response_pkt, Received
<1>2. CASE pendingReq = NoRequest \/ m.id # idCounter.client
  <2>1. UNCHANGED <<encoding, pendingReq, agreed>>
    BY <1>2 DEF process_encoding_response_pkt
  <2>2. RequestTicked'
    BY <1>1, <2>1 DEF CodecInv, RequestTicked
  <2> QED
    BY <1>1, <2>1, <2>2, QuietKeeps DEF CodecInv, CodecTypeOK
<1>3. CASE pendingReq # NoRequest /\ m.id = idCounter.client
  <2>1. encoding' = [encoding EXCEPT !.client = m.enable] /\ pendingReq' = NoRequest /\ agreed' = TRUE
    BY <1>3 DEF process_encoding_response_pkt
  <2>2. /\ encoding' \in [client : BOOLEAN, server : BOOLEAN] /\ encoding'.client = m.enable
        /\ encoding'.server = encoding.server
    BY <1>0, <2>1 DEF Messages
  <2>3. authorized => m.enable = encoding.server /\ idCounter.server = idCounter.client
    <3>1. SUFFICES ASSUME authorized PROVE m.enable = encoding.server /\ idCounter.server = idCounter.client
      OBVIOUS
    <3>2. m.id <= idCounter.server
      BY <1>1, <3>1 DEF CodecInv
    <3>3. idCounter.server = idCounter.client
      BY <1>0, <1>3, <3>2
    <3> QED
      BY <1>0, <1>1, <1>3, <3>1, <3>3 DEF CodecInv
  <2>4. ~authorized => ~m.enable /\ ~encoding.server
    BY <1>1 DEF CodecInv
  <2>5. CodecTypeOK' /\ RequestTicked'
    BY <1>0, <1>1, <2>1, <2>2 DEF CodecInv, CodecTypeOK, RequestTicked
  <2>6. EncodingAgreed'
    <3>1. authorized \in BOOLEAN /\ m.enable \in BOOLEAN /\ encoding.server \in BOOLEAN
      BY <1>0 DEF CodecInv, Messages
    <3> QED
      BY <2>2, <2>3, <2>4, <3>1 DEF EncodingAgreed
  <2>7. NoRequest.id = 0 /\ \A n \in requests' \cup responses' : n.id # 0 /\ n.id <= idCounter'.client
    BY <1>0, <1>1 DEF NoRequest
  <2>8. SaysSame(requests' \cup {pendingReq'})
    BY <1>1, <2>1, <2>7 DEF CodecInv, SaysSame
  <2>9. ASSUME authorized'
        PROVE  /\ SaysSame(requests' \cup responses' \cup {pendingReq'})
               /\ \A n \in requests' \cup responses' \cup {pendingReq'} :
                    n # NoRequest /\ n.id = idCounter'.server => n.enable = encoding'.server
               /\ \A n \in responses' : n.id <= idCounter'.server
               /\ agreed' => idCounter'.server = idCounter'.client
    <3>1. /\ SaysSame(requests \cup responses \cup {pendingReq})
          /\ \A n \in requests \cup responses :
               n # NoRequest /\ n.id = idCounter.server => n.enable = encoding.server
          /\ \A n \in responses : n.id <= idCounter.server
      BY <1>1, <2>9 DEF CodecInv
    <3>2. SaysSame(requests' \cup responses' \cup {pendingReq'})
      BY <1>1, <2>1, <2>7, <3>1 DEF SaysSame
    <3> QED
      BY <1>1, <2>1, <2>2, <2>3, <2>9, <3>1, <3>2
  <2>10. ~authorized' => /\ ~encoding'.client /\ ~encoding'.server /\ idCounter'.server = 0
                         /\ \A n \in responses' : ~n.enable
    BY <1>1, <2>2, <2>4 DEF CodecInv
  <2>11. authorized' \in BOOLEAN /\ agreed' \in BOOLEAN /\ pendingReq' \in Messages \cup {NoRequest}
         /\ idCounter' \in [client : Nat, server : Nat]
    BY <1>1, <2>1 DEF CodecInv
  <2> QED
    BY <2>5, <2>6, <2>7, <2>8, <2>9, <2>10, <2>11 DEF CodecInv
<1> QED
  BY <1>2, <1>3

LEMMA CodecInvInit ==
  ASSUME CodecInit PROVE CodecInv
BY CodecAssumption DEF CodecInit, CodecInv, CodecTypeOK, EncodingAgreed, RequestTicked, SaysSame, Messages, NoRequest

LEMMA CodecInvNext ==
  ASSUME CodecInv, [CodecNext]_codecVars
  PROVE  CodecInv'
<1>1. ASSUME NEW enable \in BOOLEAN, set_encoding(enable) PROVE CodecInv'
  BY <1>1, SetEncodingKeeps
<1>2. CASE downgrade_inside_pkt_codec_if_stalled
  BY <1>2, SetEncodingKeeps DEF downgrade_inside_pkt_codec_if_stalled
<1>3. ASSUME NEW id \in 1..MaxRequests, codec_tick(id) PROVE CodecInv'
  BY <1>3, CodecTickKeeps
<1>4. ASSUME NEW m \in Messages, process_encoding_request_pkt(m) PROVE CodecInv'
  BY <1>4, RequestKeeps
<1>5. ASSUME NEW m \in Messages, process_encoding_response_pkt(m) PROVE CodecInv'
  BY <1>5, ResponseKeeps
<1>6. ASSUME NEW m \in Messages, LoseRequest(m) \/ LoseResponse(m) PROVE CodecInv'
  <2>1. /\ UNCHANGED <<encoding, idCounter, pendingReq, retries, codecTicks, agreed, authorized>>
        /\ requests' \subseteq requests /\ responses' \subseteq responses
    BY <1>6 DEF LoseRequest, LoseResponse
  <2>2. RequestTicked'
    BY <2>1 DEF CodecInv, RequestTicked
  <2> QED
    BY <2>1, <2>2, QuietKeeps DEF CodecInv, CodecTypeOK
<1>7. CASE UNCHANGED codecVars
  <2>1. RequestTicked'
    BY <1>7 DEF CodecInv, RequestTicked, codecVars
  <2> QED
    BY <1>7, <2>1, QuietKeeps DEF CodecInv, CodecTypeOK, codecVars
<1> QED
  BY <1>1, <1>2, <1>3, <1>4, <1>5, <1>6, <1>7 DEF CodecNext

(* However requests and answers are lost, repeated and overtaken, and      *)
(* however many follow one another: when the client's last request has     *)
(* been answered both encoders do the same, and a pending request has its  *)
(* tick (process_encoding_request_pkt, process_encoding_response_pkt,      *)
(* codec_tick).                                                            *)
THEOREM NegotiationIsSafe == CodecSpec => []NegotiationSafe
<1>1. CodecInit => CodecInv
  BY CodecInvInit
<1>2. CodecInv /\ [CodecNext]_codecVars => CodecInv'
  BY CodecInvNext
<1>3. CodecInv => NegotiationSafe
  BY DEF CodecInv, NegotiationSafe
<1> QED
  BY <1>1, <1>2, <1>3, PTL DEF CodecSpec

-----------------------------------------------------------------------------
(* Path MTU discovery.  The probe under way, or its answer, that bears the *)
(* id of the pending probe is that probe, and an answer of that id tells   *)
(* of a size carried since discovery last fell back to the base.           *)
Confirming == pmtud.state \in {"Searching", "SearchComplete"}

PmtudInv ==
  /\ PmtudTypeOK /\ DiscoveryArmed
  /\ pmtud.pending_probe # NoProbe =>
       /\ pmtud.pending_probe.id # 0 /\ pmtud.pending_probe.size \in BasePlpmtu..MaxPlpmtu
       /\ \A p \in probes \cup pongs : p.id = pmtud.pending_probe.id => p.size = pmtud.pending_probe.size
       /\ \A p \in pongs : p.id = pmtud.pending_probe.id => p.size \in carried
  /\ Confirming => pmtud.plpmtu \in carried
  /\ pmtud.state = "SearchComplete" /\ pmtud.pending_probe = NoProbe => pmtud.probe_count = 0
  /\ online => pmtud.state # "Disabled"
  /\ pmtud.state = "Disabled" => probes = {} /\ pongs = {}

(* A manager that has just sent a probe, and one whose search is complete. *)
Fresh(r) ==
  /\ r \in Managers /\ r.state # "Disabled" /\ (r.state # "Error" => r.probe_count <= MAX_PROBES)
  /\ r.out = r.pending_probe /\ r.out.id # 0 /\ r.out.size \in BasePlpmtu..MaxPlpmtu
  /\ r.timer = "probe"

Rested(r) ==
  /\ r \in Managers /\ r.state = "SearchComplete" /\ r.probe_count = 0
  /\ r.pending_probe = NoProbe /\ r.out = NoProbe /\ r.timer = "raise"

LEMMA ManagerFields ==
  ASSUME NEW m \in Managers
  PROVE  /\ m.state \in PmtudStates /\ m.plpmtu \in BasePlpmtu..MaxPlpmtu /\ m.probe_count \in 0..(MAX_PROBES + 1)
         /\ m.next_probe_id \in 0..(IdSpace - 1) /\ m.step_size \in {"Small", "Big"}
         /\ m.pending_probe \in Probes /\ m.timer \in {"off", "probe", "raise"} /\ m.out \in Probes
         /\ m = [state |-> m.state, plpmtu |-> m.plpmtu, probe_count |-> m.probe_count,
                 next_probe_id |-> m.next_probe_id, step_size |-> m.step_size,
                 pending_probe |-> m.pending_probe, timer |-> m.timer, out |-> m.out]
BY DEF Managers

(* Setting one field.                                                      *)
LEMMA StateSet ==
  ASSUME NEW m \in Managers, NEW v \in PmtudStates
  PROVE  LET d == [m EXCEPT !.state = v] IN
         /\ d \in Managers /\ d.state = v /\ d.plpmtu = m.plpmtu /\ d.probe_count = m.probe_count /\ d.next_probe_id = m.next_probe_id /\ d.step_size = m.step_size
         /\ d.pending_probe = m.pending_probe /\ d.timer = m.timer /\ d.out = m.out
BY ManagerFields DEF Managers

LEMMA PlpmtuSet ==
  ASSUME NEW m \in Managers, NEW v \in BasePlpmtu..MaxPlpmtu
  PROVE  LET d == [m EXCEPT !.plpmtu = v] IN
         /\ d \in Managers /\ d.plpmtu = v /\ d.state = m.state /\ d.probe_count = m.probe_count /\ d.next_probe_id = m.next_probe_id /\ d.step_size = m.step_size
         /\ d.pending_probe = m.pending_probe /\ d.timer = m.timer /\ d.out = m.out
BY ManagerFields DEF Managers

LEMMA CountSet ==
  ASSUME NEW m \in Managers, NEW v \in 0..(MAX_PROBES + 1)
  PROVE  LET d == [m EXCEPT !.probe_count = v] IN
         /\ d \in Managers /\ d.probe_count = v /\ d.state = m.state /\ d.plpmtu = m.plpmtu /\ d.next_probe_id = m.next_probe_id /\ d.step_size = m.step_size
         /\ d.pending_probe = m.pending_probe /\ d.timer = m.timer /\ d.out = m.out
BY ManagerFields DEF Managers

LEMMA NextSet ==
  ASSUME NEW m \in Managers, NEW v \in 0..(IdSpace - 1)
  PROVE  LET d == [m EXCEPT !.next_probe_id = v] IN
         /\ d \in Managers /\ d.next_probe_id = v /\ d.state = m.state /\ d.plpmtu = m.plpmtu /\ d.probe_count = m.probe_count /\ d.step_size = m.step_size
         /\ d.pending_probe = m.pending_probe /\ d.timer = m.timer /\ d.out = m.out
BY ManagerFields DEF Managers

LEMMA StepSet ==
  ASSUME NEW m \in Managers, NEW v \in {"Small", "Big"}
  PROVE  LET d == [m EXCEPT !.step_size = v] IN
         /\ d \in Managers /\ d.step_size = v /\ d.state = m.state /\ d.plpmtu = m.plpmtu /\ d.probe_count = m.probe_count /\ d.next_probe_id = m.next_probe_id
         /\ d.pending_probe = m.pending_probe /\ d.timer = m.timer /\ d.out = m.out
BY ManagerFields DEF Managers

LEMMA PendingSet ==
  ASSUME NEW m \in Managers, NEW v \in Probes
  PROVE  LET d == [m EXCEPT !.pending_probe = v] IN
         /\ d \in Managers /\ d.pending_probe = v /\ d.state = m.state /\ d.plpmtu = m.plpmtu /\ d.probe_count = m.probe_count /\ d.next_probe_id = m.next_probe_id
         /\ d.step_size = m.step_size /\ d.timer = m.timer /\ d.out = m.out
BY ManagerFields DEF Managers

LEMMA TimerSet ==
  ASSUME NEW m \in Managers, NEW v \in {"off", "probe", "raise"}
  PROVE  LET d == [m EXCEPT !.timer = v] IN
         /\ d \in Managers /\ d.timer = v /\ d.state = m.state /\ d.plpmtu = m.plpmtu /\ d.probe_count = m.probe_count /\ d.next_probe_id = m.next_probe_id
         /\ d.step_size = m.step_size /\ d.pending_probe = m.pending_probe /\ d.out = m.out
BY ManagerFields DEF Managers

LEMMA OutSet ==
  ASSUME NEW m \in Managers, NEW v \in Probes
  PROVE  LET d == [m EXCEPT !.out = v] IN
         /\ d \in Managers /\ d.out = v /\ d.state = m.state /\ d.plpmtu = m.plpmtu /\ d.probe_count = m.probe_count /\ d.next_probe_id = m.next_probe_id
         /\ d.step_size = m.step_size /\ d.pending_probe = m.pending_probe /\ d.timer = m.timer
BY ManagerFields DEF Managers

LEMMA NextIdFits ==
  ASSUME NEW k \in 1..(IdSpace - 1)
  PROVE  (k + 1) % IdSpace \in 0..(IdSpace - 1)
BY PmtudAssumption

LEMMA SendFresh ==
  ASSUME NEW m \in Managers, NEW size \in BasePlpmtu..MaxPlpmtu
  PROVE  LET r == send_probe(m, size) IN
         /\ r \in Managers /\ r.state = m.state /\ r.plpmtu = m.plpmtu
         /\ r.out = r.pending_probe /\ r.out.id # 0 /\ r.out.size \in BasePlpmtu..MaxPlpmtu
         /\ r.timer = "probe" /\ (m.probe_count < MAX_PROBES => r.probe_count <= MAX_PROBES)
<1>0. /\ m.state \in PmtudStates /\ m.plpmtu \in BasePlpmtu..MaxPlpmtu /\ m.probe_count \in 0..(MAX_PROBES + 1)
      /\ m.next_probe_id \in 0..(IdSpace - 1) /\ m.step_size \in {"Small", "Big"}
  BY ManagerFields
<1>1. PICK k \in 1..(IdSpace - 1) : k = next_probe_id(m)
  BY <1>0, PmtudAssumption DEF next_probe_id
<1>2. PICK n \in 0..(IdSpace - 1) : n = (k + 1) % IdSpace
  BY NextIdFits
<1>3. PICK q \in 0..(MAX_PROBES + 1) : q = Saturated(m.probe_count + 1) /\ (m.probe_count < MAX_PROBES => q <= MAX_PROBES)
  BY <1>0, PmtudAssumption DEF Saturated
<1>4. PICK p \in Probes : p = [id |-> k, size |-> size] /\ p.id = k /\ p.size = size
  <2>1. LET p == [id |-> k, size |-> size] IN p \in Probes /\ p.id = k /\ p.size = size
    BY PmtudAssumption DEF Probes, Sizes
  <2> QED
    BY <2>1
<1>5. send_probe(m, size) = [m EXCEPT !.next_probe_id = n, !.probe_count = q, !.pending_probe = p,
                                       !.timer = "probe", !.out = p]
  BY <1>1, <1>2, <1>3, <1>4 DEF send_probe
<1>6. PICK m1 \in Managers : /\ m1 = [m EXCEPT !.next_probe_id = n] /\ m1.state = m.state
                             /\ m1.plpmtu = m.plpmtu
  BY NextSet
<1>7. PICK m2 \in Managers : /\ m2 = [m1 EXCEPT !.probe_count = q] /\ m2.state = m1.state
                             /\ m2.plpmtu = m1.plpmtu /\ m2.probe_count = q
  BY CountSet
<1>8. PICK m3 \in Managers : /\ m3 = [m2 EXCEPT !.pending_probe = p] /\ m3.state = m2.state
                             /\ m3.plpmtu = m2.plpmtu /\ m3.probe_count = m2.probe_count
                             /\ m3.pending_probe = p
  BY PendingSet
<1>9. PICK m4 \in Managers : /\ m4 = [m3 EXCEPT !.timer = "probe"] /\ m4.state = m3.state
                             /\ m4.plpmtu = m3.plpmtu /\ m4.probe_count = m3.probe_count
                             /\ m4.pending_probe = m3.pending_probe /\ m4.timer = "probe"
  <2>1. "probe" \in {"off", "probe", "raise"}
    OBVIOUS
  <2> QED
    BY <2>1, TimerSet
<1>10. PICK r \in Managers : /\ r = [m4 EXCEPT !.out = p] /\ r.state = m4.state
                             /\ r.plpmtu = m4.plpmtu /\ r.probe_count = m4.probe_count
                             /\ r.pending_probe = m4.pending_probe /\ r.timer = m4.timer /\ r.out = p
  BY OutSet
<1>11. send_probe(m, size) = r
  BY <1>5, <1>6, <1>7, <1>8, <1>9, <1>10
<1>12. /\ r.state = m.state /\ r.plpmtu = m.plpmtu /\ r.probe_count = q
       /\ r.pending_probe = p /\ r.out = p /\ r.timer = "probe"
  BY <1>6, <1>7, <1>8, <1>9, <1>10
<1> QED
  BY <1>1, <1>3, <1>4, <1>11, <1>12

LEMMA NothingSent == NoProbe \in Probes /\ NoProbe.id = 0
BY PmtudAssumption DEF NoProbe, Probes, Sizes

LEMMA EndProbe ==
  ASSUME NEW m \in Managers
  PROVE  LET d == end_probe(m) IN
         /\ d \in Managers /\ d.state = m.state /\ d.plpmtu = m.plpmtu /\ d.out = m.out
         /\ d.pending_probe = NoProbe /\ d.probe_count = 0
<1>1. PICK a \in Managers : /\ a = [m EXCEPT !.pending_probe = NoProbe] /\ a.state = m.state
                            /\ a.plpmtu = m.plpmtu /\ a.out = m.out /\ a.pending_probe = NoProbe
  BY NothingSent, PendingSet
<1>2. PICK b \in Managers : /\ b = [a EXCEPT !.probe_count = 0] /\ b.state = a.state
                            /\ b.plpmtu = a.plpmtu /\ b.out = a.out
                            /\ b.pending_probe = a.pending_probe /\ b.probe_count = 0
  <2>1. 0 \in 0..(MAX_PROBES + 1)
    BY PmtudAssumption
  <2> QED
    BY <2>1, CountSet
<1>3. PICK d \in Managers : /\ d = [b EXCEPT !.timer = "off"] /\ d.state = b.state
                            /\ d.plpmtu = b.plpmtu /\ d.out = b.out
                            /\ d.pending_probe = b.pending_probe /\ d.probe_count = b.probe_count
  <2>1. "off" \in {"off", "probe", "raise"}
    OBVIOUS
  <2> QED
    BY <2>1, TimerSet
<1>4. end_probe(m) = d
  BY <1>1, <1>2, <1>3 DEF end_probe
<1> QED
  BY <1>1, <1>2, <1>3, <1>4

LEMMA BaseStarts ==
  ASSUME NEW m \in Managers
  PROVE  Fresh(base_probe_start(m)) /\ base_probe_start(m).state = "Base"
<1>0. "Base" \in PmtudStates /\ 0 \in 0..(MAX_PROBES + 1) /\ 0 < MAX_PROBES /\ BasePlpmtu \in BasePlpmtu..MaxPlpmtu
  BY PmtudAssumption DEF PmtudStates
<1>1. PICK a \in Managers : a = [m EXCEPT !.state = "Base"] /\ a.state = "Base"
  BY <1>0, StateSet
<1>2. PICK b \in Managers : b = [a EXCEPT !.probe_count = 0] /\ b.state = a.state /\ b.probe_count = 0
  BY <1>0, CountSet
<1>3. PICK r : /\ r = send_probe(b, BasePlpmtu) /\ r \in Managers /\ r.state = b.state
               /\ r.out = r.pending_probe /\ r.out.id # 0 /\ r.out.size \in BasePlpmtu..MaxPlpmtu
               /\ r.timer = "probe" /\ (b.probe_count < MAX_PROBES => r.probe_count <= MAX_PROBES)
  BY <1>0, SendFresh
<1>4. base_probe_start(m) = r
  BY <1>1, <1>2, <1>3 DEF base_probe_start
<1>5. Fresh(r) /\ r.state = "Base"
  BY <1>0, <1>1, <1>2, <1>3 DEF Fresh
<1> QED
  BY <1>4, <1>5

LEMMA ErrorStarts ==
  ASSUME NEW m \in Managers
  PROVE  Fresh(error(m)) /\ error(m).state = "Error"
<1>0. "Error" \in PmtudStates /\ BasePlpmtu \in BasePlpmtu..MaxPlpmtu
  BY PmtudAssumption DEF PmtudStates
<1>1. PICK a \in Managers : a = end_probe(m)
  BY EndProbe
<1>2. PICK b \in Managers : b = [a EXCEPT !.state = "Error"] /\ b.state = "Error"
  BY <1>0, StateSet
<1>3. PICK r : /\ r = send_probe(b, BasePlpmtu) /\ r \in Managers /\ r.state = b.state
               /\ r.out = r.pending_probe /\ r.out.id # 0 /\ r.out.size \in BasePlpmtu..MaxPlpmtu
               /\ r.timer = "probe"
  BY <1>0, SendFresh
<1>4. error(m) = r
  BY <1>1, <1>2, <1>3 DEF error
<1>5. Fresh(r) /\ r.state = "Error"
  BY <1>2, <1>3 DEF Fresh
<1> QED
  BY <1>4, <1>5

LEMMA SearchProbes ==
  ASSUME NEW m \in Managers, m.state = "Searching", NEW step \in {"Small", "Big"}
  PROVE  LET r == search_probe_start(m, step) IN
         Fresh(r) /\ r.state = "Searching" /\ r.plpmtu = m.plpmtu
<1>0. 0 \in 0..(MAX_PROBES + 1) /\ 0 < MAX_PROBES
  BY PmtudAssumption
<1>1. PICK size \in BasePlpmtu..MaxPlpmtu : size = AtMost(m.plpmtu + SearchStep(step), MaxPlpmtu)
  <2>1. m.plpmtu \in BasePlpmtu..MaxPlpmtu
    BY ManagerFields
  <2>2. SearchStep(step) \in Nat
    BY PmtudAssumption DEF SearchStep
  <2> QED
    BY <2>1, <2>2, PmtudAssumption DEF AtMost
<1>2. PICK a \in Managers : /\ a = [m EXCEPT !.probe_count = 0] /\ a.state = m.state /\ a.plpmtu = m.plpmtu
                            /\ a.probe_count = 0
  BY <1>0, CountSet
<1>3. PICK b \in Managers : /\ b = [a EXCEPT !.step_size = step] /\ b.state = a.state /\ b.plpmtu = a.plpmtu
                            /\ b.probe_count = a.probe_count
  BY StepSet
<1>4. PICK r : /\ r = send_probe(b, size) /\ r \in Managers /\ r.state = b.state /\ r.plpmtu = b.plpmtu
               /\ r.out = r.pending_probe /\ r.out.id # 0 /\ r.out.size \in BasePlpmtu..MaxPlpmtu
               /\ r.timer = "probe" /\ (b.probe_count < MAX_PROBES => r.probe_count <= MAX_PROBES)
  BY SendFresh
<1>5. search_probe_start(m, step) = r
  BY <1>1, <1>2, <1>3, <1>4 DEF search_probe_start
<1>6. Fresh(r) /\ r.state = "Searching" /\ r.plpmtu = m.plpmtu
  BY <1>0, <1>2, <1>3, <1>4 DEF Fresh
<1> QED
  BY <1>5, <1>6

LEMMA SearchStarts ==
  ASSUME NEW m \in Managers
  PROVE  LET r == search_start(m) IN Fresh(r) /\ r.state = "Searching" /\ r.plpmtu = m.plpmtu
<1>1. "Searching" \in PmtudStates /\ "Big" \in {"Small", "Big"}
  BY DEF PmtudStates
<1>2. PICK a \in Managers : a = [m EXCEPT !.state = "Searching"] /\ a.state = "Searching" /\ a.plpmtu = m.plpmtu
  BY <1>1, StateSet
<1>3. PICK r : r = search_probe_start(a, "Big") /\ Fresh(r) /\ r.state = "Searching" /\ r.plpmtu = a.plpmtu
  BY <1>1, <1>2, SearchProbes
<1>4. search_start(m) = r
  BY <1>2, <1>3 DEF search_start
<1> QED
  BY <1>2, <1>3, <1>4

LEMMA SearchEnds ==
  ASSUME NEW m \in Managers, m.out = NoProbe
  PROVE  Rested(search_complete(m)) /\ search_complete(m).plpmtu = m.plpmtu
<1>0. "SearchComplete" \in PmtudStates /\ "raise" \in {"off", "probe", "raise"}
  BY DEF PmtudStates
<1>1. PICK a \in Managers : /\ a = end_probe(m) /\ a.plpmtu = m.plpmtu /\ a.out = m.out
                            /\ a.pending_probe = NoProbe /\ a.probe_count = 0
  BY EndProbe
<1>2. PICK b \in Managers : /\ b = [a EXCEPT !.state = "SearchComplete"] /\ b.state = "SearchComplete"
                            /\ b.plpmtu = a.plpmtu /\ b.out = a.out /\ b.pending_probe = a.pending_probe
                            /\ b.probe_count = a.probe_count
  BY <1>0, StateSet
<1>3. PICK r \in Managers : /\ r = [b EXCEPT !.timer = "raise"] /\ r.timer = "raise" /\ r.state = b.state
                            /\ r.plpmtu = b.plpmtu /\ r.out = b.out /\ r.pending_probe = b.pending_probe
                            /\ r.probe_count = b.probe_count
  BY <1>0, TimerSet
<1>4. search_complete(m) = r
  BY <1>1, <1>2, <1>3 DEF search_complete
<1>5. Rested(r) /\ r.plpmtu = m.plpmtu
  BY <1>1, <1>2, <1>3 DEF Rested
<1> QED
  BY <1>4, <1>5

(* What tick and pong_received make of a manager that is searching.        *)
Held(m) ==
  /\ m \in Managers /\ m.out = NoProbe /\ m.state # "Disabled"
  /\ (m.state # "Error" => m.probe_count <= MAX_PROBES)
  /\ m.pending_probe # NoProbe => m.pending_probe.size \in BasePlpmtu..MaxPlpmtu
  /\ m.state = "SearchComplete" /\ m.pending_probe = NoProbe => m.probe_count = 0

LEMMA TickSends ==
  ASSUME NEW m, Held(m)
  PROVE  LET r == tick(m) IN
         /\ Fresh(r) \/ Rested(r)
         /\ r.state \in {"Searching", "SearchComplete"} =>
              m.state \in {"Searching", "SearchComplete"} /\ r.plpmtu = m.plpmtu
<1>0. /\ m \in Managers /\ BasePlpmtu \in BasePlpmtu..MaxPlpmtu /\ MAX_PROBES \in Nat /\ MAX_PROBES > 0
      /\ m.plpmtu \in BasePlpmtu..MaxPlpmtu /\ m.probe_count \in Nat /\ m.state \in PmtudStates
  BY PmtudAssumption, ManagerFields DEF Held
<1>s. ASSUME NEW size \in BasePlpmtu..MaxPlpmtu, m.state # "Error" => m.probe_count < MAX_PROBES
      PROVE  LET r == send_probe(m, size) IN Fresh(r) /\ r.state = m.state /\ r.plpmtu = m.plpmtu
  <2>1. PICK r : /\ r = send_probe(m, size) /\ r \in Managers /\ r.state = m.state /\ r.plpmtu = m.plpmtu
                 /\ r.out = r.pending_probe /\ r.out.id # 0 /\ r.out.size \in BasePlpmtu..MaxPlpmtu
                 /\ r.timer = "probe" /\ (m.probe_count < MAX_PROBES => r.probe_count <= MAX_PROBES)
    BY <1>0, SendFresh
  <2>2. Fresh(r)
    BY <1>s, <2>1 DEF Fresh, Held
  <2> QED
    BY <2>1, <2>2
<1>1. CASE m.state = "Base"
  <2>1. tick(m) = IF m.probe_count < MAX_PROBES THEN send_probe(m, BasePlpmtu) ELSE error(m)
    BY <1>1 DEF tick, base_probe_timeout
  <2>2. CASE m.probe_count < MAX_PROBES
    <3>1. LET r == send_probe(m, BasePlpmtu) IN Fresh(r) /\ r.state = m.state
      BY <1>0, <1>s, <2>2
    <3> QED
      BY <1>1, <2>1, <2>2, <3>1
  <2>3. CASE ~(m.probe_count < MAX_PROBES)
    <3>1. Fresh(error(m)) /\ error(m).state = "Error"
      BY <1>0, ErrorStarts
    <3> QED
      BY <2>1, <2>3, <3>1
  <2> QED
    BY <2>2, <2>3
<1>2. CASE m.state = "Error"
  <2>1. tick(m) = send_probe(m, BasePlpmtu)
    BY <1>2 DEF tick
  <2>2. LET r == send_probe(m, BasePlpmtu) IN Fresh(r) /\ r.state = m.state
    BY <1>0, <1>2, <1>s
  <2> QED
    BY <1>2, <2>1, <2>2
<1>3. CASE m.state = "Searching"
  <2>1. tick(m) = search_probe_timeout(m)
    BY <1>3 DEF tick
  <2>2. CASE m.pending_probe = NoProbe
    <3>1. tick(m) = error(m)
      BY <2>1, <2>2 DEF search_probe_timeout
    <3>2. Fresh(error(m)) /\ error(m).state = "Error"
      BY <1>0, ErrorStarts
    <3> QED
      BY <3>1, <3>2
  <2>3. CASE m.pending_probe # NoProbe /\ m.probe_count < MAX_PROBES
    <3>1. tick(m) = send_probe(m, m.pending_probe.size)
      BY <1>0, <2>1, <2>3 DEF search_probe_timeout
    <3>2. PICK size \in BasePlpmtu..MaxPlpmtu : size = m.pending_probe.size
      <4>1. m.pending_probe.size \in BasePlpmtu..MaxPlpmtu
        BY <2>3 DEF Held
      <4> QED
        BY <4>1
    <3>3. LET r == send_probe(m, size) IN Fresh(r) /\ r.state = m.state /\ r.plpmtu = m.plpmtu
      BY <1>s, <2>3
    <3> QED
      BY <1>3, <3>1, <3>2, <3>3
  <2>4. CASE m.pending_probe # NoProbe /\ m.probe_count = MAX_PROBES /\ m.step_size = "Big"
    <3>1. tick(m) = search_probe_start(m, "Small")
      BY <1>0, <2>1, <2>4 DEF search_probe_timeout
    <3>2. LET r == search_probe_start(m, "Small") IN Fresh(r) /\ r.state = "Searching" /\ r.plpmtu = m.plpmtu
      BY <1>0, <1>3, SearchProbes
    <3> QED
      BY <1>3, <3>1, <3>2
  <2>5. CASE m.pending_probe # NoProbe /\ m.probe_count = MAX_PROBES /\ m.step_size # "Big"
    <3>1. tick(m) = search_complete(m)
      BY <1>0, <2>1, <2>5 DEF search_probe_timeout
    <3>2. Rested(search_complete(m)) /\ search_complete(m).plpmtu = m.plpmtu
      BY <1>0, SearchEnds DEF Held
    <3> QED
      BY <1>3, <3>1, <3>2 DEF Rested
  <2>6. m.probe_count < MAX_PROBES \/ m.probe_count = MAX_PROBES
    BY <1>0, <1>3 DEF Held
  <2> QED
    BY <2>2, <2>3, <2>4, <2>5, <2>6
<1>4. CASE m.state = "SearchComplete"
  <2>1. tick(m) = search_complete_probe_timeout(m)
    BY <1>4 DEF tick
  <2>2. CASE m.pending_probe = NoProbe
    <3>1. tick(m) = send_probe(m, m.plpmtu) /\ m.probe_count < MAX_PROBES
      BY <1>0, <1>4, <2>1, <2>2 DEF search_complete_probe_timeout, Held
    <3>2. LET r == send_probe(m, m.plpmtu) IN Fresh(r) /\ r.state = m.state /\ r.plpmtu = m.plpmtu
      BY <1>0, <1>s, <3>1
    <3> QED
      BY <1>4, <3>1, <3>2
  <2>3. CASE m.pending_probe # NoProbe /\ m.probe_count < MAX_PROBES
    <3>1. tick(m) = send_probe(m, m.pending_probe.size)
      BY <1>0, <2>1, <2>3 DEF search_complete_probe_timeout
    <3>2. PICK size \in BasePlpmtu..MaxPlpmtu : size = m.pending_probe.size
      <4>1. m.pending_probe.size \in BasePlpmtu..MaxPlpmtu
        BY <2>3 DEF Held
      <4> QED
        BY <4>1
    <3>3. LET r == send_probe(m, size) IN Fresh(r) /\ r.state = m.state /\ r.plpmtu = m.plpmtu
      BY <1>s, <2>3
    <3> QED
      BY <1>4, <3>1, <3>2, <3>3
  <2>4. CASE m.pending_probe # NoProbe /\ ~(m.probe_count < MAX_PROBES)
    <3>1. tick(m) = base_probe_start(m)
      BY <2>1, <2>4 DEF search_complete_probe_timeout
    <3>2. Fresh(base_probe_start(m)) /\ base_probe_start(m).state = "Base"
      BY <1>0, BaseStarts
    <3> QED
      BY <3>1, <3>2
  <2> QED
    BY <2>2, <2>3, <2>4
<1> QED
  BY <1>0, <1>1, <1>2, <1>3, <1>4 DEF Held, PmtudStates

LEMMA PongSends ==
  ASSUME NEW m, Held(m), m.pending_probe # NoProbe
  PROVE  LET r == Confirmed(m) IN
         /\ Fresh(r) \/ Rested(r)
         /\ r.state \in {"Searching", "SearchComplete"}
         /\ r.plpmtu = m.pending_probe.size \/ (m.state = "SearchComplete" /\ r.plpmtu = m.plpmtu)
<1>0. /\ m \in Managers /\ m.state \in PmtudStates /\ m.out = NoProbe /\ m.step_size \in {"Small", "Big"}
  BY ManagerFields DEF Held
<1>a. PICK size \in BasePlpmtu..MaxPlpmtu : size = m.pending_probe.size
  BY DEF Held
<1>1. CASE m.state \in {"Base", "Error"}
  <2>1. PICK e \in Managers : e = end_probe(m)
    BY <1>0, EndProbe
  <2>2. PICK a \in Managers : a = [e EXCEPT !.plpmtu = size] /\ a.plpmtu = size
    BY PlpmtuSet
  <2>3. PICK r : r = search_start(a) /\ Fresh(r) /\ r.state = "Searching" /\ r.plpmtu = a.plpmtu
    BY SearchStarts
  <2>4. Confirmed(m) = r
    BY <1>1, <1>a, <2>1, <2>2, <2>3 DEF Confirmed, base_probe_confirmed
  <2> QED
    BY <1>a, <2>2, <2>3, <2>4
<1>2. CASE m.state = "Searching"
  <2>1. PICK a \in Managers : /\ a = [m EXCEPT !.plpmtu = size] /\ a.plpmtu = size /\ a.state = m.state
                              /\ a.out = m.out
    BY <1>0, PlpmtuSet
  <2>2. Confirmed(m) = IF size < MaxPlpmtu THEN search_probe_start(a, m.step_size) ELSE search_complete(a)
    BY <1>2, <1>a, <2>1 DEF Confirmed, search_probe_confirmed
  <2>3. LET r == search_probe_start(a, m.step_size) IN Fresh(r) /\ r.state = "Searching" /\ r.plpmtu = a.plpmtu
    BY <1>0, <1>2, <2>1, SearchProbes
  <2>4. Rested(search_complete(a)) /\ search_complete(a).plpmtu = a.plpmtu
    BY <1>0, <2>1, SearchEnds
  <2> QED
    BY <1>a, <2>1, <2>2, <2>3, <2>4 DEF Rested
<1>3. CASE m.state = "SearchComplete"
  <2>1. Confirmed(m) = search_start(m)
    BY <1>3 DEF Confirmed
  <2>2. LET r == search_start(m) IN Fresh(r) /\ r.state = "Searching" /\ r.plpmtu = m.plpmtu
    BY <1>0, SearchStarts
  <2> QED
    BY <1>3, <2>1, <2>2
<1> QED
  BY <1>0, <1>1, <1>2, <1>3 DEF Held, PmtudStates

(* handle_pmtud_action: the probe of a fresh manager is put on the path,   *)
(* and no earlier probe or answer keeps its id.                            *)
LEMMA PerformKeeps ==
  ASSUME PmtudInv, online, NEW r, Fresh(r) \/ Rested(r),
         r.state \in {"Searching", "SearchComplete"} => r.plpmtu \in carried,
         NEW answers \in SUBSET pongs, Perform(r, answers), expired' \in 0..MaxTicks
  PROVE  PmtudInv'
<1>0. r \in Managers /\ r.state # "Disabled" /\ r.out \in Probes /\ r.timer # "off"
  BY ManagerFields DEF Fresh, Rested
<1>1. PICK m \in Managers : /\ m = [r EXCEPT !.out = NoProbe] /\ m.out = NoProbe /\ m.state = r.state
                            /\ m.plpmtu = r.plpmtu /\ m.probe_count = r.probe_count
                            /\ m.pending_probe = r.pending_probe /\ m.timer = r.timer
  BY <1>0, NothingSent, OutSet
<1>2. pmtud' = m
  BY <1>1 DEF Perform
<1>3. /\ online' = online /\ pathSize' = pathSize /\ changes' = changes /\ timely' = timely
      /\ probes' = {p \in probes : p.id # r.out.id} \cup (IF r.out = NoProbe THEN {} ELSE {r.out})
      /\ pongs' = {p \in answers : p.id # r.out.id}
      /\ carried' = IF r.state = "Base" /\ pmtud.state # "Base" THEN {} ELSE carried
  BY DEF Perform
<1>4. PmtudTypeOK'
  <2>1. m.state # "Error" => m.probe_count <= MAX_PROBES
    BY <1>1, PmtudAssumption DEF Fresh, Rested
  <2>2. probes' \subseteq Probes /\ pongs' \subseteq Probes /\ carried' \subseteq Sizes
    BY <1>0, <1>3 DEF PmtudInv, PmtudTypeOK
  <2> QED
    BY <1>1, <1>2, <1>3, <2>1, <2>2 DEF PmtudInv, PmtudTypeOK
<1>5. m.pending_probe # NoProbe =>
        /\ m.pending_probe.id # 0 /\ m.pending_probe.size \in BasePlpmtu..MaxPlpmtu
        /\ \A p \in probes' \cup pongs' : p.id = m.pending_probe.id => p.size = m.pending_probe.size
        /\ \A p \in pongs' : p.id = m.pending_probe.id => p.size \in carried'
  <2>1. CASE Fresh(r)
    <3>1. m.pending_probe = r.out /\ r.out.id # 0 /\ r.out.size \in BasePlpmtu..MaxPlpmtu
      BY <1>1, <2>1 DEF Fresh
    <3>2. \A p \in pongs' : p.id # r.out.id
      BY <1>3
    <3>3. \A p \in probes' : p.id = r.out.id => p = r.out
      BY <1>3
    <3> QED
      BY <3>1, <3>2, <3>3
  <2>2. CASE Rested(r)
    BY <1>1, <2>2 DEF Rested
  <2> QED
    BY <2>1, <2>2
<1>6. m.state \in {"Searching", "SearchComplete"} => m.plpmtu \in carried'
  BY <1>1, <1>3
<1>7. m.state = "SearchComplete" /\ m.pending_probe = NoProbe => m.probe_count = 0
  BY <1>1, NothingSent DEF Fresh, Rested
<1>8. m.timer # "off" /\ m.state # "Disabled"
  BY <1>0, <1>1
<1> QED
  BY <1>2, <1>4, <1>5, <1>6, <1>7, <1>8 DEF PmtudInv, DiscoveryArmed, Confirming

(* Packets leave, a size is carried, the path changes; the manager rests.  *)
LEMMA QuietDiscovery ==
  ASSUME PmtudInv, pmtud' = pmtud, PmtudTypeOK', DiscoveryArmed', online' => online,
         probes' \cup pongs' \subseteq probes \cup pongs, carried \subseteq carried',
         \A p \in pongs' : p \in pongs \/ p.size \in carried'
  PROVE  PmtudInv'
<1>1. pmtud.pending_probe # NoProbe => \A p \in pongs' : p.id = pmtud.pending_probe.id => p.size \in carried'
  BY DEF PmtudInv
<1>2. pmtud.pending_probe # NoProbe =>
        \A p \in probes' \cup pongs' : p.id = pmtud.pending_probe.id => p.size = pmtud.pending_probe.size
  BY DEF PmtudInv
<1>3. pmtud.state \in {"Searching", "SearchComplete"} => pmtud.plpmtu \in carried'
  BY DEF PmtudInv, Confirming
<1>4. pmtud.state = "Disabled" => probes' = {} /\ pongs' = {}
  BY DEF PmtudInv
<1> QED
  BY <1>1, <1>2, <1>3, <1>4 DEF PmtudInv, Confirming

LEMMA PmtudInvInit == PmtudInit => PmtudInv
<1> SUFFICES ASSUME PmtudInit PROVE PmtudInv
  OBVIOUS
<1>1. /\ NewManager \in Managers /\ NewManager.out = NoProbe /\ NewManager.probe_count = 0
      /\ NewManager.state = "Disabled" /\ NewManager.pending_probe = NoProbe
  <2>1. 0 \in 0..(MAX_PROBES + 1) /\ 1 \in 0..(IdSpace - 1) /\ BasePlpmtu \in BasePlpmtu..MaxPlpmtu
    BY PmtudAssumption
  <2> QED
    BY <2>1, NothingSent DEF NewManager, Managers, PmtudStates
<1>2. PmtudTypeOK
  <2>1. 0 <= MAX_PROBES /\ 0 \in 0..MaxTicks /\ 0 \in 0..MaxPathChanges
    BY PmtudAssumption
  <2>2. timely \in BOOLEAN /\ online \in BOOLEAN
    BY PmtudAssumption, Zenon DEF PmtudInit
  <2>3. pmtud = NewManager /\ expired = 0 /\ probes = {} /\ pongs = {} /\ carried = {} /\ changes = 0 /\ pathSize \in PathSizes
    BY DEF PmtudInit
  <2> QED
    BY <1>1, <2>1, <2>2, <2>3 DEF PmtudTypeOK
<1> QED
  BY <1>1, <1>2 DEF PmtudInit, PmtudInv, Confirming, DiscoveryArmed

LEMMA TickKeeps ==
  ASSUME PmtudInv, PmtudTick
  PROVE  PmtudInv'
<1>1. expired' \in 0..MaxTicks
  BY PmtudAssumption DEF PmtudInv, PmtudTypeOK, PmtudTick
<1>2. CASE online
  <2>1. Held(pmtud)
    BY <1>2 DEF PmtudInv, PmtudTypeOK, Held
  <2>2. PICK r : r = tick(pmtud)
    OBVIOUS
  <2>3. /\ Fresh(r) \/ Rested(r)
        /\ r.state \in {"Searching", "SearchComplete"} =>
             pmtud.state \in {"Searching", "SearchComplete"} /\ r.plpmtu = pmtud.plpmtu
    BY <2>1, <2>2, TickSends
  <2>4. r.state \in {"Searching", "SearchComplete"} => r.plpmtu \in carried
    BY <2>3 DEF PmtudInv, Confirming
  <2>5. Perform(r, pongs)
    BY <1>2, <2>2 DEF PmtudTick
  <2>6. pongs \in SUBSET pongs
    OBVIOUS
  <2> QED
    BY <1>1, <1>2, <2>3, <2>4, <2>5, <2>6, PerformKeeps
<1>3. CASE ~online
  <2>1. /\ pmtud' = pmtud /\ probes' = probes /\ pongs' = pongs /\ carried' = carried /\ online' = online
        /\ pathSize' = pathSize /\ changes' = changes /\ timely' = timely
    BY <1>3 DEF PmtudTick
  <2>2. PmtudTypeOK' /\ DiscoveryArmed'
    BY <1>1, <1>3, <2>1 DEF PmtudInv, PmtudTypeOK, DiscoveryArmed
  <2> QED
    BY <2>1, <2>2, QuietDiscovery
<1> QED
  BY <1>2, <1>3

LEMMA PongKeeps ==
  ASSUME PmtudInv, NEW p, PongReceived(p)
  PROVE  PmtudInv'
<1>0. /\ p \in pongs /\ online /\ expired' = expired /\ expired \in 0..MaxTicks
      /\ Perform(pong_received(pmtud, p.id), pongs \ {p})
  BY DEF PongReceived, PmtudInv, PmtudTypeOK
<1>1. CASE p.id # 0 /\ pmtud.pending_probe # NoProbe /\ pmtud.pending_probe.id = p.id
  <2>1. Held(pmtud)
    BY <1>0 DEF PmtudInv, PmtudTypeOK, Held
  <2>2. PICK r : r = Confirmed(pmtud)
    OBVIOUS
  <2>3. /\ Fresh(r) \/ Rested(r)
        /\ r.plpmtu = pmtud.pending_probe.size \/ (pmtud.state = "SearchComplete" /\ r.plpmtu = pmtud.plpmtu)
    BY <1>1, <2>1, <2>2, PongSends
  <2>4. pmtud.pending_probe.size \in carried
    BY <1>0, <1>1 DEF PmtudInv
  <2>5. r.plpmtu \in carried
    BY <2>3, <2>4 DEF PmtudInv, Confirming
  <2>6. Perform(r, pongs \ {p})
    BY <1>0, <1>1, <2>2 DEF pong_received
  <2>7. pongs \ {p} \in SUBSET pongs /\ expired' \in 0..MaxTicks
    BY <1>0
  <2> QED
    BY <1>0, <2>3, <2>5, <2>6, <2>7, PerformKeeps
<1>2. CASE ~(p.id # 0 /\ pmtud.pending_probe # NoProbe /\ pmtud.pending_probe.id = p.id)
  <2>1. Perform(pmtud, pongs \ {p})
    BY <1>0, <1>2 DEF pong_received
  <2>2. pmtud \in Managers /\ pmtud.out = NoProbe
    BY DEF PmtudInv, PmtudTypeOK
  <2>3. pmtud' = pmtud
    <3>1. PICK m : m = pmtud
      OBVIOUS
    <3>2. [m EXCEPT !.out = NoProbe] = m
      BY <2>2, <3>1, ManagerFields DEF Managers
    <3> QED
      BY <2>1, <3>1, <3>2 DEF Perform
  <2>4. /\ online' = online /\ pathSize' = pathSize /\ changes' = changes /\ timely' = timely
        /\ probes' \subseteq probes /\ pongs' \subseteq pongs /\ carried' = carried
    BY <2>1, <2>2 DEF Perform
  <2>5. PmtudTypeOK' /\ DiscoveryArmed'
    BY <1>0, <2>3, <2>4 DEF PmtudInv, PmtudTypeOK, DiscoveryArmed
  <2> QED
    BY <2>3, <2>4, <2>5, QuietDiscovery
<1> QED
  BY <1>1, <1>2

LEMMA OnlineKeeps ==
  ASSUME PmtudInv, GoOnline
  PROVE  PmtudInv'
<1>0. pmtud \in Managers /\ pmtud.state = "Disabled" /\ pongs = {}
  BY DEF PmtudInv, PmtudTypeOK, GoOnline
<1>1. PICK r : r = base_probe_start(pmtud)
  OBVIOUS
<1>2. Fresh(r) /\ r.state = "Base" /\ r \in Managers /\ r.out \in Probes
  BY <1>0, <1>1, BaseStarts, ManagerFields DEF Fresh
<1>3. PICK m \in Managers : /\ m = [r EXCEPT !.out = NoProbe] /\ m.out = NoProbe /\ m.state = r.state
                            /\ m.probe_count = r.probe_count
                            /\ m.pending_probe = r.pending_probe /\ m.timer = r.timer
  BY <1>2, NothingSent, OutSet
<1>4. /\ pmtud' = m /\ probes' = {r.out} /\ online' = TRUE /\ expired' = expired /\ pongs' = pongs
      /\ pathSize' = pathSize /\ changes' = changes /\ carried' = carried /\ timely' = timely
  BY <1>1, <1>3 DEF GoOnline
<1>5. PmtudTypeOK'
  BY <1>2, <1>3, <1>4 DEF PmtudInv, PmtudTypeOK, Fresh
<1> QED
  BY <1>0, <1>2, <1>3, <1>4, <1>5 DEF PmtudInv, Fresh, Confirming, DiscoveryArmed

LEMMA ElapseKeeps ==
  ASSUME PmtudInv, TimerElapses
  PROVE  PmtudInv'
<1>0. /\ pmtud \in Managers /\ "off" \in {"off", "probe", "raise"}
      /\ expired' = expired + 1 /\ expired < MaxTicks /\ expired \in 0..MaxTicks
  BY DEF PmtudInv, PmtudTypeOK, TimerElapses
<1>1. PICK m \in Managers : /\ m = [pmtud EXCEPT !.timer = "off"] /\ m.out = pmtud.out /\ m.state = pmtud.state
                            /\ m.plpmtu = pmtud.plpmtu /\ m.probe_count = pmtud.probe_count
                            /\ m.pending_probe = pmtud.pending_probe
  BY <1>0, TimerSet
<1>2. /\ pmtud' = m /\ online' = online /\ probes' = probes /\ pongs' = pongs
      /\ pathSize' = pathSize /\ changes' = changes /\ carried' = carried /\ timely' = timely
  BY <1>1 DEF TimerElapses
<1>3. expired' \in 0..MaxTicks /\ expired' > 0
  BY <1>0, PmtudAssumption
<1>4. PmtudTypeOK'
  BY <1>1, <1>2, <1>3 DEF PmtudInv, PmtudTypeOK
<1> QED
  BY <1>1, <1>2, <1>3, <1>4 DEF PmtudInv, Confirming, DiscoveryArmed

LEMMA PmtudInvNext == PmtudInv /\ [PmtudNext]_pmtudVars => PmtudInv'
<1> SUFFICES ASSUME PmtudInv, [PmtudNext]_pmtudVars PROVE PmtudInv'
  OBVIOUS
<1>1. CASE GoOnline
  BY <1>1, OnlineKeeps
<1>2. CASE GoOffline
  <2>1. /\ pmtud' = pmtud /\ online' = FALSE /\ UNCHANGED <<expired, probes, pongs, pathSize, changes, carried, timely>>
    BY <1>2 DEF GoOffline
  <2>2. PmtudTypeOK' /\ DiscoveryArmed'
    BY <2>1 DEF PmtudInv, PmtudTypeOK, DiscoveryArmed
  <2> QED
    BY <2>1, <2>2, QuietDiscovery
<1>3. CASE TimerElapses
  BY <1>3, ElapseKeeps
<1>4. CASE PmtudTick
  BY <1>4, TickKeeps
<1>5. ASSUME NEW p \in pongs, PongReceived(p) PROVE PmtudInv'
  BY <1>5, PongKeeps
<1>6. ASSUME NEW p \in probes, Cross(p) PROVE PmtudInv'
  <2>1. /\ UNCHANGED <<pmtud, expired, online, pathSize, changes, timely>> /\ probes' \subseteq probes
        /\ pongs' \subseteq pongs \cup {p} /\ carried \subseteq carried' /\ carried' \subseteq carried \cup {p.size}
        /\ \A q \in pongs' : q \in pongs \/ q.size \in carried'
    BY <1>6 DEF Cross
  <2>2. p \in Probes /\ p.size \in Sizes
    BY DEF PmtudInv, PmtudTypeOK, Probes
  <2>3. PmtudTypeOK' /\ DiscoveryArmed'
    BY <2>1, <2>2 DEF PmtudInv, PmtudTypeOK, DiscoveryArmed
  <2> QED
    BY <2>1, <2>3, QuietDiscovery
<1>7. ASSUME NEW p \in probes \cup pongs, PmtudLose(p) PROVE PmtudInv'
  <2>1. /\ UNCHANGED <<pmtud, expired, online, pathSize, changes, carried, timely>>
        /\ probes' \subseteq probes /\ pongs' \subseteq pongs
    BY <1>7 DEF PmtudLose
  <2>2. PmtudTypeOK' /\ DiscoveryArmed'
    BY <2>1 DEF PmtudInv, PmtudTypeOK, DiscoveryArmed
  <2> QED
    BY <2>1, <2>2, QuietDiscovery
<1>8. ASSUME NEW s \in PathSizes, PathChanges(s) PROVE PmtudInv'
  <2>1. /\ UNCHANGED <<pmtud, expired, online, probes, pongs, carried, timely>>
        /\ pathSize' = s /\ changes' = changes + 1 /\ changes < MaxPathChanges
    BY <1>8 DEF PathChanges
  <2>2. PmtudTypeOK' /\ DiscoveryArmed'
    BY <2>1, PmtudAssumption DEF PmtudInv, PmtudTypeOK, DiscoveryArmed
  <2> QED
    BY <2>1, <2>2, QuietDiscovery
<1>9. CASE UNCHANGED pmtudVars
  <2>1. UNCHANGED <<pmtud, expired, online, probes, pongs, pathSize, changes, carried, timely>>
    BY <1>9 DEF pmtudVars
  <2>2. PmtudTypeOK' /\ DiscoveryArmed'
    BY <2>1 DEF PmtudInv, PmtudTypeOK, DiscoveryArmed
  <2> QED
    BY <2>1, <2>2, QuietDiscovery
<1> QED
  BY <1>1, <1>2, <1>3, <1>4, <1>5, <1>6, <1>7, <1>8, <1>9 DEF PmtudNext

(* For every step size, base and maximum, every number of probes per size  *)
(* and every width of the probe id: late ticks, late, lost and stale       *)
(* answers and a path that changes under the search neither raise the      *)
(* estimate above what the path carried since the last fall back to the    *)
(* base, nor leave an Online connection without a timer                    *)
(* (Dplpmtud::tick, pong_received, handle_pmtud_action).                   *)
THEOREM DiscoveryIsSafe == PmtudSpec => []DiscoverySafe
<1>1. PmtudInit => PmtudInv
  BY PmtudInvInit
<1>2. PmtudInv /\ [PmtudNext]_pmtudVars => PmtudInv'
  BY PmtudInvNext
<1>3. PmtudInv => DiscoverySafe
  BY DEF PmtudInv, DiscoverySafe, EstimateCarried, Confirming, current_plpmtu
<1> QED
  BY <1>1, <1>2, <1>3, PTL DEF PmtudSpec

-----------------------------------------------------------------------------
(* The health check.  On a healthy path only packets in flight can look    *)
(* like loss: Compared says what the last reading saw, `told` packets at   *)
(* the peer and `more` of them on the way, and that a strike is held only  *)
(* when these were many, which leaves none for the next window.            *)
MaxBurst == CHOOSE b \in Bursts : /\ \A burst \in Bursts : burst <= b
                                  /\ MaxReplies * b + MIN_PACKETS_FOR_LOSS_CHECK < CounterSpace
Counters == 0..(CounterSpace - 1)

HealthTyped ==
  /\ path \in Paths /\ degraded \in BOOLEAN /\ answered \in 0..MaxReplies
  /\ sent \in [me : Nat, peer : Nat] /\ recv \in [me : Nat, peer : Nat]
  /\ replies \subseteq [no : Nat, sent : Counters, recv : Counters, stats : BOOLEAN]
  /\ last \in [meSent : Counters, meRecv : Counters, peerSent : Counters, peerRecv : Counters]
  /\ strikes \in [in : 0..EXPRESSLANE_DEGRADE_STRIKES, out : 0..EXPRESSLANE_DEGRADE_STRIKES]
  /\ missing \in [peer : 0..EXPRESSLANE_MISSING_STATS_LIMIT, here : 0..EXPRESSLANE_MISSING_STATS_LIMIT]
  /\ windows \in Seq(BOOLEAN)
Spared ==
  \/ degraded
  \/ /\ strikes.in < EXPRESSLANE_DEGRADE_STRIKES /\ strikes.out < EXPRESSLANE_DEGRADE_STRIKES
     /\ missing.peer < EXPRESSLANE_MISSING_STATS_LIMIT /\ missing.here < EXPRESSLANE_MISSING_STATS_LIMIT

\* The bucket's level n is the largest excess of a run of windows up to now.
Tallied(w, n) == /\ \A i \in DOMAIN w : Excess(w, i) <= n
                 /\ n > 0 => \E i \in DOMAIN w : Excess(w, i) = n

Healthy == path.lossless /\ path.ordered /\ path.readable /\ path.calm
Compared(told, more) ==
  /\ last.peerRecv = told % CounterSpace /\ last.meSent = (told + more) % CounterSpace
  /\ told + more <= sent.me /\ sent.me <= told + more + answered * MaxBurst
  /\ more <= MIN_PACKETS_FOR_LOSS_CHECK /\ (strikes.out = 1 => 2 * more > MIN_PACKETS_FOR_LOSS_CHECK)
Unharmed ==
  Healthy =>
    /\ ~degraded /\ strikes.in = 0 /\ strikes.out <= 1
    /\ recv.me = sent.me /\ recv.peer = sent.peer /\ last.peerSent = last.meRecv
    /\ \A p \in replies : /\ p.stats /\ p.sent = sent.peer % CounterSpace /\ p.recv = sent.me % CounterSpace
                          /\ \A q \in replies : q = p
    /\ \E told, more \in Nat : Compared(told, more)

HealthInv == HealthTyped /\ Spared /\ StrikesExact /\ Unharmed

(* What the constants of the health check are assumed to be.               *)
LEMMA HealthFacts ==
  /\ MIN_PACKETS_FOR_LOSS_CHECK \in Nat /\ EXPRESSLANE_DEGRADE_STRIKES \in Nat /\ EXPRESSLANE_DEGRADE_STRIKES > 1
  /\ EXPRESSLANE_MISSING_STATS_LIMIT \in Nat /\ EXPRESSLANE_MISSING_STATS_LIMIT > 0
  /\ CounterSpace \in Nat /\ CounterSpace > 0 /\ MaxReplies \in Nat /\ MaxBurst \in Nat
  /\ MaxReplies * MaxBurst + MIN_PACKETS_FOR_LOSS_CHECK < CounterSpace /\ MaxReplies * MaxBurst \in Nat
  /\ \A b \in Bursts : b \in Nat /\ b <= MaxBurst
  /\ \A m \in InFlights : m \in Nat
  /\ \A x \in Nat : x % CounterSpace \in Counters
<1>1. /\ MaxBurst \in Bursts /\ \A b \in Bursts : b <= MaxBurst
      /\ MaxReplies * MaxBurst + MIN_PACKETS_FOR_LOSS_CHECK < CounterSpace
  BY HealthBounds, Zenon DEF MaxBurst
<1>2. MaxBurst \in Nat /\ MaxReplies \in Nat /\ MIN_PACKETS_FOR_LOSS_CHECK \in Nat /\ CounterSpace \in Nat
  BY <1>1, HealthBounds
<1>3. MaxReplies * MaxBurst \in Nat
  BY <1>2
<1>4. CounterSpace > 0
  BY <1>1, <1>2, <1>3
<1>5. \A x \in Nat : x % CounterSpace \in Counters
  BY <1>2, <1>4 DEF Counters
<1> QED
  BY <1>1, <1>2, <1>3, <1>4, <1>5, HealthBounds

(* wrapping_sub of two wrapped counters is their true difference, if that  *)
(* is less than a lap.                                                     *)
LEMMA MinusIs ==
  ASSUME NEW x \in Nat, NEW y \in Nat, y <= x, x - y < CounterSpace
  PROVE  Minus(x % CounterSpace, y % CounterSpace) = x - y
<1> DEFINE C == CounterSpace  a == x % C  b == y % C  k == 1 + (y \div C) - (x \div C)
<1>1. C \in Nat /\ C > 0
  BY HealthFacts
<1> HIDE DEF C
<1>2. /\ x = C * (x \div C) + a /\ y = C * (y \div C) + b /\ x \div C \in Int /\ y \div C \in Int
      /\ a \in 0..(C - 1) /\ b \in 0..(C - 1)
  BY <1>1
<1>3. k \in Int /\ C * k \in Int
  BY <1>1, <1>2
<1>4. C * k = C + C * (y \div C) - C * (x \div C)
  BY <1>1, <1>2
<1> HIDE DEF a, b, k
<1>5. a + C - b = (x - y) + C * k
  BY <1>1, <1>2, <1>3, <1>4
<1>6. k >= 2 => C * k >= C + C
  BY <1>1, <1>3
<1>7. k < 0 => C * k <= 0 - C
  BY <1>1, <1>3
<1>8. x - y \in 0..(C - 1)
  BY <1>1 DEF C
<1>9. C * k = 0 \/ C * k = C
  <2>1. k = 0 \/ k = 1
    BY <1>1, <1>2, <1>3, <1>5, <1>6, <1>7, <1>8
  <2>2. k = 0 => C * k = 0
    BY <1>1
  <2>3. k = 1 => C * k = C
    BY <1>1
  <2> QED
    BY <2>1, <2>2, <2>3
<1>10. \A d \in 0..(C - 1) : d % C = d /\ (d + C) % C = d
  BY <1>1
<1>11. (a + C - b) % C = x - y
  <2>1. a + C - b = x - y \/ a + C - b = (x - y) + C
    BY <1>1, <1>2, <1>5, <1>8, <1>9
  <2> QED
    BY <1>8, <1>10, <2>1
<1> QED
  BY <1>11 DEF Minus, C, a, b

LEMMA HealthInvInit == HealthInit => HealthInv
<1> SUFFICES ASSUME HealthInit PROVE HealthInv
  OBVIOUS
<1>1. 0 \in Counters /\ 0 \in 0..MaxReplies /\ 0 \in 0..EXPRESSLANE_DEGRADE_STRIKES /\ 0 \in 0..EXPRESSLANE_MISSING_STATS_LIMIT
  BY HealthFacts DEF Counters
<1>2. HealthTyped
  <2>0. windows \in Seq(BOOLEAN)
    <3>1. windows = <<>> /\ <<>> \in Seq(BOOLEAN)
      BY DEF HealthInit
    <3> QED
      BY <3>1, Zenon
  <2>1. path \in Paths /\ degraded \in BOOLEAN /\ answered \in 0..MaxReplies
    BY <1>1 DEF HealthInit
  <2>2. sent \in [me : Nat, peer : Nat] /\ recv \in [me : Nat, peer : Nat]
    BY DEF HealthInit
  <2>3. last \in [meSent : Counters, meRecv : Counters, peerSent : Counters, peerRecv : Counters]
    BY <1>1 DEF HealthInit
  <2>4. strikes \in [in : 0..EXPRESSLANE_DEGRADE_STRIKES, out : 0..EXPRESSLANE_DEGRADE_STRIKES]
    BY <1>1 DEF HealthInit
  <2>5. missing \in [peer : 0..EXPRESSLANE_MISSING_STATS_LIMIT, here : 0..EXPRESSLANE_MISSING_STATS_LIMIT]
    BY <1>1 DEF HealthInit
  <2>6. replies \subseteq [no : Nat, sent : Counters, recv : Counters, stats : BOOLEAN]
    BY DEF HealthInit
  <2> QED
    BY <2>0, <2>1, <2>2, <2>3, <2>4, <2>5, <2>6 DEF HealthTyped
<1>3. Spared
  BY HealthFacts DEF HealthInit, Spared
<1>4. StrikesExact
  <2>1. windows = <<>> /\ strikes.in = 0 /\ DOMAIN windows = {}
    BY DEF HealthInit
  <2> QED
    BY <2>1, HealthFacts DEF StrikesExact
<1>5. Unharmed
  <2>1. 0 % CounterSpace = 0 /\ 0 * MaxBurst = 0
    BY HealthFacts
  <2>2. Compared(0, 0)
    BY <2>1, HealthFacts DEF HealthInit, Compared
  <2> QED
    BY <2>2 DEF HealthInit, Unharmed
<1> QED
  BY <1>2, <1>3, <1>4, <1>5 DEF HealthInv

LEMMA ReportKeeps ==
  ASSUME HealthInv, NEW mine \in Bursts, NEW theirs \in Bursts, NEW stats \in BOOLEAN, Report(mine, theirs, stats)
  PROVE  HealthInv'
<1>0. HealthTyped /\ Spared /\ StrikesExact /\ Unharmed
  BY DEF HealthInv
<1>1. PICK a \in Arriving(mine), b \in Arriving(theirs) :
        /\ answered < MaxReplies /\ ~degraded /\ (path.readable => stats) /\ (path.ordered => replies = {})
        /\ sent' = [me |-> sent.me + mine, peer |-> sent.peer + theirs]
        /\ recv' = [me |-> recv.me + a, peer |-> recv.peer + b]
        /\ answered' = answered + 1
        /\ replies' = replies \cup {[no |-> answered + 1, sent |-> sent'.peer % CounterSpace,
                                     recv |-> recv'.me % CounterSpace, stats |-> stats]}
        /\ UNCHANGED <<last, strikes, missing, degraded, windows, path>>
  BY DEF Report
<1>2. mine \in Nat /\ theirs \in Nat /\ mine <= MaxBurst /\ a \in Nat /\ b \in Nat /\ (path.lossless => a = mine /\ b = theirs)
  BY HealthFacts DEF Arriving
<1>3. answered \in Nat /\ answered + 1 \in 0..MaxReplies /\ sent.me \in Nat /\ sent.peer \in Nat /\ recv.me \in Nat /\ recv.peer \in Nat
  BY <1>0, <1>1, HealthFacts DEF HealthTyped
<1>4. sent'.me = sent.me + mine /\ sent'.peer = sent.peer + theirs /\ recv'.me = recv.me + a /\ recv'.peer = recv.peer + b
  BY <1>1
<1>5. sent'.peer % CounterSpace \in Counters /\ recv'.me % CounterSpace \in Counters
  BY <1>2, <1>3, <1>4, HealthFacts
<1>6. HealthTyped'
  <2>1. [no |-> answered + 1, sent |-> sent'.peer % CounterSpace, recv |-> recv'.me % CounterSpace, stats |-> stats]
          \in [no : Nat, sent : Counters, recv : Counters, stats : BOOLEAN]
    BY <1>3, <1>5
  <2>2. sent' \in [me : Nat, peer : Nat] /\ recv' \in [me : Nat, peer : Nat]
    BY <1>1, <1>2, <1>3
  <2> QED
    BY <1>0, <1>1, <1>3, <2>1, <2>2 DEF HealthTyped
<1>7. Spared' /\ StrikesExact'
  BY <1>0, <1>1 DEF Spared, StrikesExact, Excess, Since
<1>8. Unharmed'
  <2> SUFFICES ASSUME Healthy PROVE
                 /\ ~degraded' /\ strikes'.in = 0 /\ strikes'.out <= 1
                 /\ recv'.me = sent'.me /\ recv'.peer = sent'.peer /\ last'.peerSent = last'.meRecv
                 /\ \A p \in replies' : /\ p.stats /\ p.sent = sent'.peer % CounterSpace /\ p.recv = sent'.me % CounterSpace
                                        /\ \A q \in replies' : q = p
                 /\ \E told, more \in Nat : Compared(told, more)'
    BY <1>1 DEF Unharmed, Healthy
  <2>1. /\ ~degraded /\ strikes.in = 0 /\ strikes.out <= 1 /\ recv.me = sent.me /\ recv.peer = sent.peer
        /\ last.peerSent = last.meRecv /\ replies = {} /\ a = mine /\ b = theirs /\ stats
    BY <1>0, <1>1, <1>2 DEF Unharmed, Healthy
  <2>2. PICK told \in Nat, more \in Nat : Compared(told, more)
    BY <1>0 DEF Unharmed
  <2>3. (answered + 1) * MaxBurst = answered * MaxBurst + MaxBurst /\ answered * MaxBurst \in Nat
    BY <1>3, HealthFacts
  <2>4. told + more <= sent.me + mine /\ sent.me + mine <= told + more + (answered + 1) * MaxBurst
    <3>1. told + more <= sent.me /\ sent.me <= told + more + answered * MaxBurst
      BY <2>2 DEF Compared
    <3> QED
      BY <1>2, <1>3, <2>3, <3>1, HealthFacts
  <2>5. Compared(told, more)'
    BY <1>1, <1>4, <2>2, <2>4 DEF Compared
  <2>6. \A p \in replies' : p = [no |-> answered + 1, sent |-> sent'.peer % CounterSpace,
                                 recv |-> recv'.me % CounterSpace, stats |-> stats]
    BY <1>1, <2>1
  <2>7. recv'.me = sent'.me /\ recv'.peer = sent'.peer
    BY <1>4, <2>1
  <2>8. \A p \in replies' : p.stats /\ p.sent = sent'.peer % CounterSpace /\ p.recv = sent'.me % CounterSpace
    BY <2>1, <2>6, <2>7
  <2> QED
    BY <1>1, <2>1, <2>5, <2>6, <2>7, <2>8
<1> QED
  BY <1>6, <1>7, <1>8 DEF HealthInv

LEMMA LoseKeeps ==
  ASSUME HealthInv, NEW p \in replies, LoseReply(p)
  PROVE  HealthInv'
<1>1. /\ replies' \subseteq replies
      /\ UNCHANGED <<sent, recv, answered, last, strikes, missing, degraded, windows, path>>
  BY DEF LoseReply
<1>2. HealthTyped'
  BY <1>1 DEF HealthInv, HealthTyped
<1>4. Spared'
  BY <1>1 DEF HealthInv, Spared
<1>5. StrikesExact'
  BY <1>1 DEF HealthInv, StrikesExact
<1>3. Unharmed'
  BY <1>1 DEF HealthInv, Unharmed, Healthy, Compared
<1> QED
  BY <1>2, <1>3, <1>4, <1>5 DEF HealthInv

(* A new window shifts every excess by one.                                *)
LEMMA WindowsGrow ==
  ASSUME NEW w \in Seq(BOOLEAN), NEW drops \in BOOLEAN, NEW v, v = Append(w, drops)
  PROVE  /\ v \in Seq(BOOLEAN) /\ Len(w) \in Nat /\ DOMAIN w = 1..Len(w) /\ DOMAIN v = 1..(Len(w) + 1)
         /\ \A i \in 1..Len(w) : /\ Excess(w, i) \in Int
                                 /\ drops => Excess(v, i) = Excess(w, i) + 1
                                 /\ ~drops => Excess(v, i) = Excess(w, i) - 1
         /\ drops => Excess(v, Len(w) + 1) = 1
         /\ ~drops => Excess(v, Len(w) + 1) = -1
<1>1. /\ v \in Seq(BOOLEAN) /\ Len(w) \in Nat /\ Len(v) = Len(w) + 1
      /\ DOMAIN w = 1..Len(w) /\ DOMAIN v = 1..(Len(w) + 1)
      /\ v[Len(w) + 1] = drops /\ \A j \in 1..Len(w) : v[j] = w[j]
  BY AppendProperties, LenProperties
<1>2. PICK n \in Nat : n = Len(w)
  BY <1>1
<1>3. ASSUME NEW i \in 1..(n + 1), NEW d \in BOOLEAN
      PROVE  /\ IsFiniteSet(Since(w, i, d)) /\ Cardinality(Since(w, i, d)) \in Nat
             /\ d = drops => Cardinality(Since(v, i, d)) = Cardinality(Since(w, i, d)) + 1
             /\ d # drops => Cardinality(Since(v, i, d)) = Cardinality(Since(w, i, d))
  <2>1. i..(n + 1) = (i..n) \cup {n + 1} /\ \A j \in i..n : j \in 1..n
    OBVIOUS
  <2>2. \A j \in i..n : v[j] = w[j]
    BY <1>1, <1>2, <2>1
  <2>3. Since(w, i, d) = {j \in i..n : w[j] = d} /\ Since(v, i, d) = {j \in i..(n + 1) : v[j] = d}
    BY <1>1, <1>2 DEF Since
  <2>4. IsFiniteSet(i..n)
    BY FS_Interval
  <2>5. IsFiniteSet(Since(w, i, d)) /\ Cardinality(Since(w, i, d)) \in Nat
    <3>1. Since(w, i, d) \in SUBSET (i..n)
      BY <2>3
    <3> QED
      BY <2>4, <3>1, FS_Subset, FS_CardinalityType
  <2>6. n + 1 \notin Since(w, i, d)
    BY <2>3
  <2>7. Cardinality(Since(w, i, d) \cup {n + 1}) = Cardinality(Since(w, i, d)) + 1
    BY <2>5, <2>6, FS_AddElement
  <2>8. d = drops => Since(v, i, d) = Since(w, i, d) \cup {n + 1}
    BY <1>1, <1>2, <2>1, <2>2, <2>3
  <2>9. d # drops => Since(v, i, d) = Since(w, i, d)
    BY <1>1, <1>2, <2>1, <2>2, <2>3
  <2> QED
    BY <2>5, <2>7, <2>8, <2>9
<1>4. ASSUME NEW i \in 1..(n + 1)
      PROVE  /\ Excess(w, i) \in Int
             /\ drops => Excess(v, i) = Excess(w, i) + 1
             /\ ~drops => Excess(v, i) = Excess(w, i) - 1
  <2>1. Cardinality(Since(w, i, TRUE)) \in Nat /\ Cardinality(Since(w, i, FALSE)) \in Nat
    BY <1>3
  <2>2. ASSUME drops
        PROVE  /\ Cardinality(Since(v, i, TRUE)) = Cardinality(Since(w, i, TRUE)) + 1
               /\ Cardinality(Since(v, i, FALSE)) = Cardinality(Since(w, i, FALSE))
    <3>1. TRUE = drops /\ FALSE # drops
      BY <2>2, Zenon
    <3> QED
      BY <1>3, <3>1
  <2>3. ASSUME ~drops
        PROVE  /\ Cardinality(Since(v, i, FALSE)) = Cardinality(Since(w, i, FALSE)) + 1
               /\ Cardinality(Since(v, i, TRUE)) = Cardinality(Since(w, i, TRUE))
    <3>1. FALSE = drops /\ TRUE # drops
      BY <2>3, Zenon
    <3> QED
      BY <1>3, <3>1
  <2>4. PICK t \in Nat, f \in Nat : t = Cardinality(Since(w, i, TRUE)) /\ f = Cardinality(Since(w, i, FALSE))
    BY <2>1
  <2>5. Excess(w, i) = t - f
    BY <2>4 DEF Excess
  <2>6. drops => Excess(v, i) = (t + 1) - f
    BY <2>2, <2>4 DEF Excess
  <2>7. ~drops => Excess(v, i) = t - (f + 1)
    BY <2>3, <2>4 DEF Excess
  <2> QED
    BY <2>5, <2>6, <2>7
<1>5. Excess(w, n + 1) = 0
  <2>1. (n + 1)..n = {}
    OBVIOUS
  <2>2. Since(w, n + 1, TRUE) = {} /\ Since(w, n + 1, FALSE) = {}
    BY <1>2, <2>1 DEF Since
  <2>3. Cardinality({}) = 0
    BY FS_EmptySet
  <2>4. Excess(w, n + 1) = Cardinality({}) - Cardinality({})
    BY <2>2 DEF Excess
  <2>5. 0 - 0 = 0
    OBVIOUS
  <2> QED
    BY <2>3, <2>4, <2>5
<1>6. (drops => Excess(v, n + 1) = 1) /\ (~drops => Excess(v, n + 1) = -1)
  <2>1. n + 1 \in 1..(n + 1)
    OBVIOUS
  <2> QED
    BY <1>4, <1>5, <2>1
<1>7. \A i \in 1..n : i \in 1..(n + 1)
  OBVIOUS
<1> QED
  BY <1>1, <1>2, <1>4, <1>6, <1>7

(* advance_strikes: one up on drops, one down otherwise, never below zero. *)
LEMMA AdvanceFacts ==
  ASSUME NEW n \in 0..EXPRESSLANE_DEGRADE_STRIKES, n < EXPRESSLANE_DEGRADE_STRIKES, NEW s, NEW r, NEW a,
         a = advance_strikes(n, s, r)
  PROVE  /\ a.strikes \in 0..EXPRESSLANE_DEGRADE_STRIKES /\ a.degrade \in BOOLEAN
         /\ has_packet_drops(s, r) => a.strikes = n + 1 /\ (~a.degrade => n + 1 < EXPRESSLANE_DEGRADE_STRIKES)
         /\ has_packet_drops(s, r) /\ a.degrade => n + 1 >= EXPRESSLANE_DEGRADE_STRIKES
         /\ ~has_packet_drops(s, r) => ~a.degrade /\ a.strikes = IF n = 0 THEN 0 ELSE n - 1
         /\ has_packet_drops(s, r) <=> a.strikes > n
<1>1. EXPRESSLANE_DEGRADE_STRIKES \in Nat /\ EXPRESSLANE_DEGRADE_STRIKES > 1 /\ n \in Nat
  BY HealthFacts
<1>2. CASE has_packet_drops(s, r)
  <2>1. a = [strikes |-> n + 1, degrade |-> n + 1 >= EXPRESSLANE_DEGRADE_STRIKES]
    BY <1>2, Zenon DEF advance_strikes
  <2>2. PICK d \in BOOLEAN : d = (n + 1 >= EXPRESSLANE_DEGRADE_STRIKES)
    <3>1. (n + 1 >= EXPRESSLANE_DEGRADE_STRIKES) \in BOOLEAN
      BY <1>1
    <3> QED
      BY <3>1, Zenon
  <2>3. a = [strikes |-> n + 1, degrade |-> d]
    BY <2>1, <2>2, Zenon
  <2>4. a.strikes = n + 1 /\ a.degrade = d
    BY <2>3
  <2>5. n + 1 >= EXPRESSLANE_DEGRADE_STRIKES <=> ~(n + 1 < EXPRESSLANE_DEGRADE_STRIKES)
    BY <1>1
  <2>6. a.degrade \in BOOLEAN /\ (a.degrade <=> n + 1 >= EXPRESSLANE_DEGRADE_STRIKES)
    BY <2>2, <2>4, Zenon
  <2>7. n + 1 \in 0..EXPRESSLANE_DEGRADE_STRIKES /\ n + 1 > n
    BY <1>1
  <2> QED
    BY <1>2, <2>4, <2>5, <2>6, <2>7, Zenon
<1>3. CASE ~has_packet_drops(s, r)
  <2>1. a = [strikes |-> IF n = 0 THEN 0 ELSE n - 1, degrade |-> FALSE]
    BY <1>3, Zenon DEF advance_strikes
  <2>2. a.strikes = (IF n = 0 THEN 0 ELSE n - 1) /\ a.degrade = FALSE
    BY <2>1
  <2>3. a.strikes \in 0..EXPRESSLANE_DEGRADE_STRIKES /\ ~(a.strikes > n)
    BY <1>1, <2>2
  <2> QED
    BY <1>3, <2>2, <2>3, Zenon
<1> QED
  BY <1>2, <1>3

(* What a reply does whatever its readings are.                            *)
LEMMA CheckFacts ==
  ASSUME HealthInv, NEW p \in replies, NEW more \in InFlights, NEW readable \in BOOLEAN,
         check_expresslane_health(p, more, readable)
  PROVE  /\ ~degraded /\ more \in Nat /\ replies' \subseteq replies /\ answered' = answered /\ path' = path
         /\ sent \in [me : Nat, peer : Nat] /\ recv \in [me : Nat, peer : Nat]
         /\ sent' \in [me : Nat, peer : Nat] /\ recv' \in [me : Nat, peer : Nat]
         /\ sent'.me = sent.me + more /\ sent'.peer = sent.peer /\ recv'.peer = recv.peer
         /\ path.lossless => recv'.me = recv.me + more
         /\ Healthy => readable /\ p.stats /\ more <= MIN_PACKETS_FOR_LOSS_CHECK /\ replies' = {}
<1>0. HealthTyped /\ Unharmed
  BY DEF HealthInv
<1>1. PICK a \in Arriving(more) : recv' = [recv EXCEPT !.me = @ + a]
  BY DEF check_expresslane_health
<1>2. more \in Nat /\ a \in Nat /\ (path.lossless => a = more)
  BY HealthFacts DEF Arriving
<1>3. /\ ~degraded /\ replies' = replies \ {p} /\ answered' = answered /\ path' = path
      /\ sent' = [sent EXCEPT !.me = @ + more]
      /\ (path.readable => readable) /\ (path.calm => more <= MIN_PACKETS_FOR_LOSS_CHECK)
  BY DEF check_expresslane_health
<1>4. sent \in [me : Nat, peer : Nat] /\ recv \in [me : Nat, peer : Nat]
  BY <1>0 DEF HealthTyped
<1>5. /\ sent' \in [me : Nat, peer : Nat] /\ sent'.me = sent.me + more /\ sent'.peer = sent.peer
  BY <1>2, <1>3, <1>4
<1>6. /\ recv' \in [me : Nat, peer : Nat] /\ recv'.me = recv.me + a /\ recv'.peer = recv.peer
  BY <1>1, <1>2, <1>4
<1>7. Healthy => readable /\ p.stats /\ more <= MIN_PACKETS_FOR_LOSS_CHECK /\ replies' = {}
  <2> SUFFICES ASSUME Healthy PROVE readable /\ p.stats /\ more <= MIN_PACKETS_FOR_LOSS_CHECK /\ replies' = {}
    OBVIOUS
  <2>1. p.stats /\ \A q \in replies : q = p
    BY <1>0 DEF Unharmed
  <2> QED
    BY <1>3, <2>1 DEF Healthy
<1> QED
  BY <1>2, <1>3, <1>4, <1>5, <1>6, <1>7

LEMMA NoReadingKeeps ==
  ASSUME HealthInv, NEW p \in replies, NEW more \in InFlights, NEW readable \in BOOLEAN,
         check_expresslane_health(p, more, readable), NoReading(p, readable)
  PROVE  HealthInv'
<1> DEFINE side == IF ~p.stats THEN "peer" ELSE "here"
           Limit == EXPRESSLANE_MISSING_STATS_LIMIT
<1>0. HealthTyped /\ Spared /\ StrikesExact
  BY DEF HealthInv
<1>1. /\ ~degraded /\ more \in Nat /\ replies' \subseteq replies /\ answered' = answered /\ path' = path
      /\ sent' \in [me : Nat, peer : Nat] /\ recv' \in [me : Nat, peer : Nat] /\ (Healthy => readable /\ p.stats)
  BY CheckFacts
<1>2. /\ ~p.stats \/ ~readable
      /\ missing' = IF side = "peer" THEN [missing EXCEPT !.peer = @ + 1] ELSE [peer |-> 0, here |-> missing.here + 1]
      /\ degraded' = (missing'[side] >= Limit)
      /\ UNCHANGED <<last, strikes, windows>>
  BY Zenon DEF NoReading
<1>3. /\ missing \in [peer : 0..Limit, here : 0..Limit] /\ Limit \in Nat /\ Limit > 0
      /\ missing.peer < Limit /\ missing.here < Limit
  BY <1>0, <1>1, HealthFacts DEF HealthTyped, Spared
<1>4. /\ missing' \in [peer : 0..Limit, here : 0..Limit]
      /\ ~(missing'[side] >= Limit) => missing'.peer < Limit /\ missing'.here < Limit
  <2>1. CASE side = "peer"
    <3>1. missing' = [missing EXCEPT !.peer = @ + 1]
      BY <1>2, <2>1
    <3>2. missing' \in [peer : 0..Limit, here : 0..Limit] /\ missing'.peer = missing.peer + 1 /\ missing'.here = missing.here
      BY <1>3, <3>1
    <3>3. missing'[side] = missing'.peer
      BY <2>1
    <3> QED
      BY <1>3, <3>2, <3>3
  <2>2. CASE side = "here"
    <3>1. missing' = [peer |-> 0, here |-> missing.here + 1]
      BY <1>2, <2>2
    <3>2. missing' \in [peer : 0..Limit, here : 0..Limit] /\ missing'.peer = 0 /\ missing'.here = missing.here + 1
      BY <1>3, <3>1
    <3>3. missing'[side] = missing'.here
      BY <2>2
    <3> QED
      BY <1>3, <3>2, <3>3
  <2> QED
    BY <2>1, <2>2
<1>5. degraded' \in BOOLEAN /\ (~degraded' => missing'.peer < Limit /\ missing'.here < Limit)
  <2>1. missing'[side] \in Nat
    <3>1. side \in {"peer", "here"}
      OBVIOUS
    <3> QED
      BY <1>3, <1>4, <3>1
  <2>2. (missing'[side] >= Limit) \in BOOLEAN
    BY <1>3, <2>1
  <2> QED
    BY <1>2, <1>4, <2>2, Zenon
<1>6. HealthTyped'
  BY <1>0, <1>1, <1>2, <1>4, <1>5 DEF HealthTyped
<1>7. Spared'
  <2>1. strikes'.in < EXPRESSLANE_DEGRADE_STRIKES /\ strikes'.out < EXPRESSLANE_DEGRADE_STRIKES
    BY <1>0, <1>1, <1>2 DEF Spared
  <2> QED
    BY <1>5, <2>1, Zenon DEF Spared
<1>8. StrikesExact'
  <2>1. ~(strikes.in >= EXPRESSLANE_DEGRADE_STRIKES)
    BY <1>0, <1>1, HealthFacts DEF HealthTyped, Spared
  <2> QED
    BY <1>0, <1>2, <2>1 DEF StrikesExact
<1>9. Unharmed'
  BY <1>1, <1>2 DEF Unharmed, Healthy
<1> QED
  BY <1>6, <1>7, <1>8, <1>9 DEF HealthInv

(* The bucket stays the largest excess when a window is added to it.       *)
LEMMA ExactGrows ==
  ASSUME NEW w \in Seq(BOOLEAN), NEW drops \in BOOLEAN, NEW v, v = Append(w, drops), NEW n \in Nat, NEW m \in Nat,
         Tallied(w, n), drops => m = n + 1, ~drops => m = IF n = 0 THEN 0 ELSE n - 1
  PROVE  Tallied(v, m)
<1>0. (\A i \in DOMAIN w : Excess(w, i) <= n) /\ (n > 0 => \E i \in DOMAIN w : Excess(w, i) = n)
  BY DEF Tallied
<1>1. PICK l \in Nat : l = Len(w)
  BY WindowsGrow
<1>2. /\ DOMAIN w = 1..l /\ DOMAIN v = 1..(l + 1)
      /\ \A i \in 1..l : /\ Excess(w, i) \in Int
                         /\ drops => Excess(v, i) = Excess(w, i) + 1
                         /\ ~drops => Excess(v, i) = Excess(w, i) - 1
      /\ drops => Excess(v, l + 1) = 1
      /\ ~drops => Excess(v, l + 1) = -1
  BY <1>1, WindowsGrow
<1>3. \A i \in 1..(l + 1) : i \in 1..l \/ i = l + 1
  OBVIOUS
<1>4. \A i \in 1..l : i \in 1..(l + 1)
  OBVIOUS
<1>5. l + 1 \in 1..(l + 1)
  OBVIOUS
<1>6. ASSUME NEW i \in DOMAIN v PROVE Excess(v, i) <= m
  <2>1. CASE i = l + 1
    BY <1>2, <2>1
  <2>2. CASE i \in 1..l
    <3>1. Excess(w, i) \in Int /\ Excess(w, i) <= n
      BY <1>0, <1>2, <2>2
    <3> QED
      BY <1>2, <2>2, <3>1
  <2> QED
    BY <1>2, <1>3, <2>1, <2>2
<1>7. ASSUME m > 0 PROVE \E i \in DOMAIN v : Excess(v, i) = m
  <2>1. CASE n > 0
    <3>1. PICK i \in 1..l : Excess(w, i) = n
      BY <1>0, <1>2, <2>1
    <3>2. Excess(v, i) = m
      BY <1>2, <2>1, <3>1
    <3> QED
      BY <1>2, <1>4, <3>2
  <2>2. CASE n = 0
    <3>1. drops /\ m = 1
      BY <1>7, <2>2
    <3> QED
      BY <1>2, <1>5, <3>1
  <2> QED
    BY <2>1, <2>2
<1> QED
  BY <1>6, <1>7 DEF Tallied

(* An outbound window with drops on a lossless path: more than half of the *)
(* least window was in flight at its end, and no more than that at its     *)
(* start, so that the window before it had none.                           *)
LEMMA OutboundSpared ==
  ASSUME NEW now \in Nat, NEW told \in Nat, NEW was \in Nat, NEW more \in Nat, NEW most \in Nat,
         told + was <= now, now <= told + was + most, most + MIN_PACKETS_FOR_LOSS_CHECK < CounterSpace,
         was <= MIN_PACKETS_FOR_LOSS_CHECK, more <= MIN_PACKETS_FOR_LOSS_CHECK,
         has_packet_drops(Minus((now + more) % CounterSpace, (told + was) % CounterSpace),
                          Minus(now % CounterSpace, told % CounterSpace))
  PROVE  2 * more > MIN_PACKETS_FOR_LOSS_CHECK /\ ~(2 * was > MIN_PACKETS_FOR_LOSS_CHECK)
<1>1. MIN_PACKETS_FOR_LOSS_CHECK \in Nat /\ CounterSpace \in Nat
  BY HealthFacts
<1>2. Minus((now + more) % CounterSpace, (told + was) % CounterSpace) = (now + more) - (told + was)
  <2>1. now + more \in Nat /\ told + was \in Nat /\ told + was <= now + more /\ (now + more) - (told + was) < CounterSpace
    BY <1>1
  <2> QED
    BY <2>1, MinusIs
<1>3. Minus(now % CounterSpace, told % CounterSpace) = now - told
  <2>1. told <= now /\ now - told < CounterSpace
    BY <1>1
  <2> QED
    BY <2>1, MinusIs
<1>4. /\ (now + more) - (told + was) >= MIN_PACKETS_FOR_LOSS_CHECK
      /\ 2 * (((now + more) - (told + was)) - (now - told)) > (now + more) - (told + was)
  BY <1>2, <1>3 DEF has_packet_drops
<1> QED
  BY <1>1, <1>4

LEMMA CompareKeeps ==
  ASSUME HealthInv, NEW p \in replies, NEW more \in InFlights, NEW readable \in BOOLEAN,
         check_expresslane_health(p, more, readable), Compare(p)
  PROVE  HealthInv'
<1> DEFINE D == EXPRESSLANE_DEGRADE_STRIKES  C == CounterSpace
           si == Minus(p.sent, last.peerSent)      ri == Minus(recv.peer % C, last.meRecv)
           so == Minus(sent'.me % C, last.meSent)  ro == Minus(p.recv, last.peerRecv)
<1>0. HealthTyped /\ Spared /\ StrikesExact /\ Unharmed
  BY DEF HealthInv
<1>1. /\ ~degraded /\ more \in Nat /\ replies' \subseteq replies /\ answered' = answered /\ path' = path
      /\ sent \in [me : Nat, peer : Nat] /\ recv \in [me : Nat, peer : Nat]
      /\ sent' \in [me : Nat, peer : Nat] /\ recv' \in [me : Nat, peer : Nat]
      /\ sent'.me = sent.me + more /\ sent'.peer = sent.peer /\ recv'.peer = recv.peer
      /\ path.lossless => recv'.me = recv.me + more
      /\ Healthy => more <= MIN_PACKETS_FOR_LOSS_CHECK /\ replies' = {}
  BY CheckFacts
<1>2. PICK in, out : in = advance_strikes(strikes.in, si, ri) /\ out = advance_strikes(strikes.out, so, ro)
  OBVIOUS
<1>3. /\ missing' = [peer |-> 0, here |-> 0]
      /\ last' = [meSent |-> sent'.me % C, meRecv |-> recv.peer % C, peerSent |-> p.sent, peerRecv |-> p.recv]
      /\ windows' = Append(windows, in.strikes > strikes.in)
      /\ strikes' = [in |-> in.strikes, out |-> IF in.degrade THEN strikes.out ELSE out.strikes]
      /\ degraded' = (in.degrade \/ out.degrade)
  BY <1>2 DEF Compare
<1> HIDE DEF si, ri, so, ro
<1>4. D \in Nat /\ strikes.in \in 0..D /\ strikes.out \in 0..D /\ strikes.in < D /\ strikes.out < D /\ D > 1
  BY <1>0, <1>1, HealthFacts DEF HealthTyped, Spared
<1>5. /\ in.strikes \in 0..D /\ in.degrade \in BOOLEAN
      /\ has_packet_drops(si, ri) => in.strikes = strikes.in + 1 /\ (~in.degrade => strikes.in + 1 < D)
      /\ ~has_packet_drops(si, ri) => ~in.degrade /\ in.strikes = IF strikes.in = 0 THEN 0 ELSE strikes.in - 1
      /\ has_packet_drops(si, ri) <=> in.strikes > strikes.in
  BY <1>2, <1>4, AdvanceFacts
<1>6. /\ out.strikes \in 0..D /\ out.degrade \in BOOLEAN
      /\ has_packet_drops(so, ro) => out.strikes = strikes.out + 1 /\ (~out.degrade => strikes.out + 1 < D)
      /\ has_packet_drops(so, ro) /\ out.degrade => strikes.out + 1 >= D
      /\ ~has_packet_drops(so, ro) => ~out.degrade /\ out.strikes = IF strikes.out = 0 THEN 0 ELSE strikes.out - 1
  BY <1>2, <1>4, AdvanceFacts
<1>7. strikes'.in = in.strikes /\ strikes'.out = IF in.degrade THEN strikes.out ELSE out.strikes
  BY <1>3
<1>8. in.strikes < D \/ in.degrade
  <2>1. CASE has_packet_drops(si, ri)
    BY <1>4, <1>5, <2>1
  <2>2. CASE ~has_packet_drops(si, ri)
    <3>1. in.strikes = IF strikes.in = 0 THEN 0 ELSE strikes.in - 1
      BY <1>5, <2>2
    <3> QED
      BY <1>4, <3>1
  <2> QED
    BY <2>1, <2>2
<1>9. out.strikes < D \/ out.degrade
  <2>1. CASE has_packet_drops(so, ro)
    BY <1>4, <1>6, <2>1
  <2>2. CASE ~has_packet_drops(so, ro)
    <3>1. out.strikes = IF strikes.out = 0 THEN 0 ELSE strikes.out - 1
      BY <1>6, <2>2
    <3> QED
      BY <1>4, <3>1
  <2> QED
    BY <2>1, <2>2
<1>10. PICK drops \in BOOLEAN : drops = (in.strikes > strikes.in)
  <2>1. (in.strikes > strikes.in) \in BOOLEAN
    BY <1>4, <1>5
  <2> QED
    BY <2>1, Zenon
<1>11. windows \in Seq(BOOLEAN) /\ windows' = Append(windows, drops) /\ windows' \in Seq(BOOLEAN)
  <2>1. windows' = Append(windows, drops)
    BY <1>3, <1>10, Zenon
  <2>2. windows \in Seq(BOOLEAN)
    BY <1>0 DEF HealthTyped
  <2> QED
    BY <2>1, <2>2
<1>12. HealthTyped'
  <2>1. 0 \in 0..EXPRESSLANE_MISSING_STATS_LIMIT
    BY HealthFacts
  <2>2. missing' \in [peer : 0..EXPRESSLANE_MISSING_STATS_LIMIT, here : 0..EXPRESSLANE_MISSING_STATS_LIMIT]
    BY <1>3, <2>1
  <2>3. strikes' \in [in : 0..D, out : 0..D]
    BY <1>3, <1>4, <1>5, <1>6
  <2>4. last' \in [meSent : Counters, meRecv : Counters, peerSent : Counters, peerRecv : Counters]
    <3>1. sent'.me % C \in Counters /\ recv.peer % C \in Counters
      BY <1>1, HealthFacts
    <3>2. p.sent \in Counters /\ p.recv \in Counters
      BY <1>0 DEF HealthTyped
    <3> QED
      BY <1>3, <3>1, <3>2
  <2>5. degraded' \in BOOLEAN
    BY <1>3, <1>5, <1>6, Zenon
  <2>6. path' \in Paths /\ answered' \in 0..MaxReplies
    BY <1>0, <1>1 DEF HealthTyped
  <2>7. replies' \subseteq [no : Nat, sent : Counters, recv : Counters, stats : BOOLEAN]
    BY <1>0, <1>1 DEF HealthTyped
  <2> QED
    BY <1>1, <1>11, <2>2, <2>3, <2>4, <2>5, <2>6, <2>7 DEF HealthTyped
<1>13. degraded' <=> in.degrade \/ out.degrade
  BY <1>3, <1>5, <1>6, Zenon
<1>14. Spared'
  <2> SUFFICES ASSUME ~degraded'
               PROVE  /\ strikes'.in < D /\ strikes'.out < D
                      /\ missing'.peer < EXPRESSLANE_MISSING_STATS_LIMIT /\ missing'.here < EXPRESSLANE_MISSING_STATS_LIMIT
    BY DEF Spared
  <2>1. ~in.degrade /\ ~out.degrade
    BY <1>13
  <2>2. missing'.peer = 0 /\ missing'.here = 0
    BY <1>3
  <2> QED
    BY <1>7, <1>8, <1>9, <2>1, <2>2, HealthFacts
<1>15. StrikesExact'
  <2> DEFINE n == strikes.in  m == in.strikes
  <2>1. n \in Nat /\ m \in Nat
    BY <1>4, <1>5
  <2>2. Tallied(windows, n)
    BY <1>0 DEF StrikesExact, Tallied
  <2>3. (drops => m = n + 1) /\ (~drops => m = IF n = 0 THEN 0 ELSE n - 1)
    <3>1. drops <=> has_packet_drops(si, ri)
      BY <1>5, <1>10, Zenon
    <3> QED
      BY <1>5, <3>1
  <2> HIDE DEF n, m
  <2>4. Tallied(windows', m)
    BY <1>11, <2>1, <2>2, <2>3, ExactGrows
  <2>5. strikes'.in = m /\ (m >= D => degraded')
    BY <1>4, <1>5, <1>7, <1>8, <1>13 DEF m
  <2>6. \A i : Excess(windows, i)' = Excess(windows', i)
    BY DEF Excess, Since
  <2> QED
    BY <2>4, <2>5, <2>6 DEF StrikesExact, Tallied
<1>16. Unharmed'
  <2> SUFFICES ASSUME Healthy PROVE
                 /\ ~degraded' /\ strikes'.in = 0 /\ strikes'.out <= 1
                 /\ recv'.me = sent'.me /\ recv'.peer = sent'.peer /\ last'.peerSent = last'.meRecv
                 /\ \E told, was \in Nat : Compared(told, was)'
    BY <1>1 DEF Unharmed, Healthy
  <2>1. /\ strikes.in = 0 /\ strikes.out <= 1 /\ recv.me = sent.me /\ recv.peer = sent.peer
        /\ last.peerSent = last.meRecv /\ p.sent = sent.peer % C /\ p.recv = sent.me % C
        /\ path.lossless /\ more <= MIN_PACKETS_FOR_LOSS_CHECK
    BY <1>0, <1>1 DEF Unharmed, Healthy
  <2>2. PICK told \in Nat, was \in Nat : Compared(told, was)
    BY <1>0 DEF Unharmed
  <2>3. /\ last.peerRecv = told % C /\ last.meSent = (told + was) % C
        /\ told + was <= sent.me /\ sent.me <= told + was + answered * MaxBurst
        /\ was <= MIN_PACKETS_FOR_LOSS_CHECK /\ (strikes.out = 1 => 2 * was > MIN_PACKETS_FOR_LOSS_CHECK)
    BY <2>2 DEF Compared
  <2>4. /\ answered * MaxBurst \in Nat /\ answered * MaxBurst + MIN_PACKETS_FOR_LOSS_CHECK < C
    <3>1. answered \in Nat /\ answered <= MaxReplies
      BY <1>0, HealthFacts DEF HealthTyped
    <3>2. answered * MaxBurst \in Nat /\ answered * MaxBurst <= MaxReplies * MaxBurst
      BY <3>1, HealthFacts
    <3> QED
      BY <3>2, HealthFacts
  <2>5. ~has_packet_drops(si, ri)
    <3>1. si = ri
      BY <2>1 DEF si, ri
    <3>2. si \in Int
      <4>1. p.sent \in Counters /\ last.peerSent \in Counters
        BY <1>0 DEF HealthTyped
      <4> QED
        BY <4>1, HealthFacts DEF si, Minus, Counters
    <3> QED
      BY <3>1, <3>2 DEF has_packet_drops
  <2>6. has_packet_drops(so, ro) =>
          2 * more > MIN_PACKETS_FOR_LOSS_CHECK /\ ~(2 * was > MIN_PACKETS_FOR_LOSS_CHECK)
    <3>1. so = Minus((sent.me + more) % C, (told + was) % C) /\ ro = Minus(sent.me % C, told % C)
      BY <1>1, <2>1, <2>3 DEF so, ro
    <3>2. sent.me \in Nat
      BY <1>1
    <3> QED
      BY <1>1, <2>1, <2>3, <2>4, <3>1, <3>2, OutboundSpared
  <2>7. ~in.degrade /\ in.strikes = 0
    BY <1>5, <2>1, <2>5
  <2>8. /\ ~out.degrade /\ out.strikes <= 1
        /\ out.strikes = 1 => 2 * more > MIN_PACKETS_FOR_LOSS_CHECK
    <3>1. CASE has_packet_drops(so, ro)
      <4>1. strikes.out = 0
        BY <1>4, <2>1, <2>3, <2>6, <3>1
      <4> QED
        BY <1>4, <1>6, <2>6, <3>1, <4>1
    <3>2. CASE ~has_packet_drops(so, ro)
      <4>1. ~out.degrade /\ out.strikes = IF strikes.out = 0 THEN 0 ELSE strikes.out - 1
        BY <1>6, <3>2
      <4> QED
        BY <1>4, <2>1, <4>1
    <3> QED
      BY <3>1, <3>2
  <2>9. ~degraded' /\ strikes'.in = 0 /\ strikes'.out = out.strikes
    BY <1>7, <1>13, <2>7, <2>8
  <2>10. recv'.me = sent'.me /\ recv'.peer = sent'.peer /\ last'.peerSent = last'.meRecv
    BY <1>1, <1>3, <2>1
  <2>11. PICK at \in Nat : at = sent.me
    BY <1>1
  <2>12. Compared(at, more)'
    <3>1. last'.peerRecv = at % C /\ last'.meSent = (at + more) % C
      BY <1>1, <1>3, <2>1, <2>11
    <3>2. at + more <= sent'.me /\ sent'.me <= at + more + answered * MaxBurst
      BY <1>1, <2>4, <2>11
    <3>3. strikes'.out = 1 => 2 * more > MIN_PACKETS_FOR_LOSS_CHECK
      BY <2>8, <2>9
    <3> QED
      BY <1>1, <2>1, <3>1, <3>2, <3>3 DEF Compared
  <2> QED
    BY <1>1, <2>8, <2>9, <2>10, <2>12
<1> QED
  BY <1>12, <1>14, <1>15, <1>16 DEF HealthInv

(* Every step of the health check keeps its inductive invariant.           *)
LEMMA HealthInvNext == HealthInv /\ [HealthNext]_healthVars => HealthInv'
<1> SUFFICES ASSUME HealthInv, [HealthNext]_healthVars PROVE HealthInv'
  OBVIOUS
<1>1. ASSUME NEW mine \in Bursts, NEW theirs \in Bursts, NEW stats \in BOOLEAN, Report(mine, theirs, stats)
      PROVE  HealthInv'
  BY <1>1, ReportKeeps
<1>2. ASSUME NEW p \in replies, NEW more \in InFlights, NEW readable \in BOOLEAN, check_expresslane_health(p, more, readable)
      PROVE  HealthInv'
  <2>1. NoReading(p, readable) \/ Compare(p)
    BY <1>2 DEF check_expresslane_health
  <2> QED
    BY <1>2, <2>1, NoReadingKeeps, CompareKeeps
<1>3. ASSUME NEW p \in replies, LoseReply(p) PROVE HealthInv'
  BY <1>3, LoseKeeps
<1>4. CASE UNCHANGED healthVars
  <2>1. UNCHANGED <<sent, recv, replies, answered, last, strikes, missing, degraded, windows, path>>
    BY <1>4 DEF healthVars
  <2>2. HealthTyped' /\ Spared'
    BY <2>1 DEF HealthInv, HealthTyped, Spared
  <2>3. StrikesExact'
    BY <2>1 DEF HealthInv, StrikesExact
  <2>4. Unharmed'
    BY <2>1 DEF HealthInv, Unharmed, Healthy, Compared
  <2> QED
    BY <2>2, <2>3, <2>4 DEF HealthInv
<1> QED
  BY <1>1, <1>2, <1>3, <1>4 DEF HealthNext

(* The inductive invariant of the health check gives what is wanted of it. *)
LEMMA HealthInvSafe == HealthInv => HealthExact
<1> SUFFICES ASSUME HealthInv PROVE HealthExact
  OBVIOUS
<1>1. HealthTyped /\ StrikesExact /\ Unharmed
  BY DEF HealthInv
<1>2. last \in [{"meSent", "meRecv", "peerSent", "peerRecv"} -> 0..(CounterSpace - 1)]
  BY <1>1 DEF HealthTyped, Counters
<1>3. HealthTypeOK
  BY <1>1, <1>2 DEF HealthTyped, HealthTypeOK
<1>4. HealthyKept
  BY <1>1 DEF Unharmed, Healthy, HealthyKept
<1> QED
  BY <1>1, <1>3, <1>4 DEF HealthExact

(* check_expresslane_health gives up a path exactly when its leaky bucket  *)
(* has earned the strikes, whatever the traffic, the losses and the order  *)
(* of the replies; and it never gives up a path that loses and reorders    *)
(* nothing while at most MIN_PACKETS_FOR_LOSS_CHECK packets are in flight, *)
(* although it compares counters the two ends read at different times.     *)
THEOREM HealthIsExact == HealthSpec => []HealthExact
<1>1. HealthInit => HealthInv
  BY HealthInvInit
<1>2. HealthInv /\ [HealthNext]_healthVars => HealthInv'
  BY HealthInvNext
<1>3. HealthInv => HealthExact
  BY HealthInvSafe
<1> QED
  BY <1>1, <1>2, <1>3, PTL DEF HealthSpec
-----------------------------------------------------------------------------
(* Fragmentation.  A packet cut into pieces, in order and without gap, and *)
(* the run of its pieces a to b, of which a fragment is the case a = b.    *)
Piece  == [pkt : Nat, id : Nat, from : Nat, to : Nat]
RunSet == [id : Nat, start : Nat, end : Nat, last : BOOLEAN, data : Seq(Piece)]
Entry  == [id : Nat, frags : Seq(RunSet)]

Cut(P, p) ==
  /\ P \in Seq(Piece) /\ Len(P) > 0 /\ P[1].from = 0
  /\ \A k \in 1..Len(P) : P[k].pkt = p /\ P[k].id = P[1].id /\ P[k].from < P[k].to
  /\ \A j, k \in 1..Len(P) : j < k => P[j].to <= P[k].from
  /\ \A j, k \in 1..Len(P) : k = j + 1 => P[j].to = P[k].from

Span(P, a, b) ==
  [id |-> P[1].id, start |-> P[a].from, end |-> P[b].to, last |-> b = Len(P), data |-> SubSeq(P, a, b)]

(* Runs of one packet, sorted and apart, and the pieces they cover.        *)
IsSpan(P, r) == \E a, b \in 1..Len(P) : a <= b /\ r = Span(P, a, b)
Apart(P, runs) ==
  /\ runs \in Seq(RunSet) /\ \A i \in 1..Len(runs) : IsSpan(P, runs[i])
  /\ \A i, j \in 1..Len(runs) : i < j => runs[i].end < runs[j].start
Covers(r, c) == r.start <= c.from /\ c.to <= r.end
Covered(runs, c) == \E i \in 1..Len(runs) : Covers(runs[i], c)

(* A run that may mix packets of one id: its pieces follow each other.     *)
Tiled(r, id, ps) ==
  /\ r \in RunSet /\ r.id = id /\ Len(r.data) > 0 /\ r.start = r.data[1].from /\ r.end = r.data[Len(r.data)].to
  /\ \A i \in 1..Len(r.data) : r.data[i].id = id
  /\ \A i, j \in 1..Len(r.data) : j = i + 1 => r.data[j].from = r.data[i].to
  /\ r.last => \E p \in 1..Len(ps) : r.data[Len(r.data)] = ps[p][Len(ps[p])]
AllTiled(runs, id, ps) == runs \in Seq(RunSet) /\ \A i \in 1..Len(runs) : Tiled(runs[i], id, ps)

SentWell(ps, ids) ==
  /\ ps \in Seq(Seq(Piece)) /\ \A p \in 1..Len(ps) : Cut(ps[p], p) /\ ps[p][1].id \in 0..(ids - 1)
IdOf(p, ids) == IF p = ids THEN 0 ELSE p
Flown(f, ps) == \E p \in 1..Len(ps) : \E k \in 1..Len(ps[p]) : f = Span(ps[p], k, k)

EntryWell(e, ps, s) ==
  /\ e.id \in 0..(s.ids - 1) /\ e.frags # <<>> /\ ~try_complete(e.frags)
  /\ AllTiled(e.frags, e.id, ps)
OneEach(m) == \A i, j \in 1..Len(m) : m[i].id = m[j].id => i = j
MapWell(m, ps, s) ==
  m \in Seq(Entry) /\ Len(m) <= s.capacity /\ OneEach(m) /\ \A i \in 1..Len(m) : EntryWell(m[i], ps, s)

(* Until ids come round.                                                   *)
Numbered(ps, c, ids) ==
  c = IdOf(Len(ps), ids) /\ \A p \in 1..Len(ps) : ps[p][1].id = IdOf(p, ids)
Belongs(e, ps) == \E p \in 1..Len(ps) : ps[p][1].id = e.id /\ Apart(ps[p], e.frags)
Unmixed(m, ps) == \A i \in 1..Len(m) : Belongs(m[i], ps)

(* Until then, with room and without duplicates: each piece of a packet is *)
(* under way or in the map, until the packet is done.                      *)
InMap(m, id, c) == \E i \in 1..Len(m) : m[i].id = id /\ Covered(m[i].frags, c)
Awaited(P, fl, m) == \A k \in 1..Len(P) : Span(P, k, k) \in fl <=> ~InMap(m, P[1].id, P[k])
Finished(P, fl, m) ==
  /\ \A k \in 1..Len(P) : Span(P, k, k) \notin fl
  /\ \A i \in 1..Len(m) : m[i].id # P[1].id
Quiet(ps, s) == ~s.dups /\ Len(ps) <= s.capacity /\ Len(ps) <= s.ids
Arrival(ps, fl, m, d) ==
  \A p \in 1..Len(ps) : IF p \in d THEN Finished(ps[p], fl, m) ELSE Awaited(ps[p], fl, m)

FragTyped ==
  /\ setting \in [ids : IdSpaces, capacity : Capacities, dups : Duplicates]
  /\ counter \in 0..(setting.ids - 1) /\ Len(packets) <= MaxPackets /\ done \subseteq 1..Len(packets)

FragInv ==
  /\ FragTyped
  /\ SentWell(packets, setting.ids)
  /\ \A f \in flying : Flown(f, packets)
  /\ MapWell(lru, packets, setting)
  /\ NotComeRound => Numbered(packets, counter, setting.ids) /\ Unmixed(lru, packets)
  /\ Quiet(packets, setting) => Arrival(packets, flying, lru, done)
  /\ RebuiltTiles /\ RebuiltWhole

(* What the operations on a sequence make of it.                           *)
LEMMA SeqIs ==
  ASSUME NEW S, NEW s \in Seq(S)
  PROVE  /\ Len(s) \in Nat /\ DOMAIN s = 1..Len(s)
         /\ \A i \in 1..Len(s) : s[i] \in S /\ s[i] \in ToSet(s)
         /\ \A x \in ToSet(s) : \E i \in 1..Len(s) : x = s[i]
<1>1. Len(s) \in Nat /\ DOMAIN s = 1..Len(s) /\ \A i \in 1..Len(s) : s[i] \in S
  BY LenProperties, ElementOfSeq
<1> QED
  BY <1>1 DEF ToSet

LEMMA OneIs ==
  ASSUME NEW S, NEW x \in S
  PROVE  <<x>> \in Seq(S) /\ Len(<<x>>) = 1 /\ <<x>>[1] = x
OBVIOUS

LEMMA FrontPart ==
  ASSUME NEW S, NEW s \in Seq(S), NEW n \in Nat, n <= Len(s)
  PROVE  /\ SubSeq(s, 1, n) \in Seq(S) /\ Len(SubSeq(s, 1, n)) = n
         /\ \A i \in 1..n : SubSeq(s, 1, n)[i] = s[i]
<1> DEFINE t == SubSeq(s, 1, n)
<1> HIDE DEF t
<1>1. PICK l \in Nat : l = Len(s)
  BY SeqIs
<1>2. \A i \in 1..n : s[i] \in S
  BY <1>1, SeqIs
<1>3. t \in Seq(S) /\ Len(t) = n /\ \A i \in 1..(n - 1 + 1) : t[i] = s[1 + i - 1]
  BY <1>2, SubSeqProperties DEF t
<1> QED
  BY <1>3 DEF t

LEMMA BackPart ==
  ASSUME NEW S, NEW s \in Seq(S), NEW l \in Nat, l = Len(s), NEW a \in 1..(l + 1)
  PROVE  /\ SubSeq(s, a, l) \in Seq(S) /\ Len(SubSeq(s, a, l)) = l - a + 1
         /\ \A i \in 1..(l - a + 1) : SubSeq(s, a, l)[i] = s[a + i - 1]
<1> DEFINE t == SubSeq(s, a, l)
<1> HIDE DEF t
<1>1. \A i \in a..l : s[i] \in S
  BY SeqIs
<1>2. a \in Int /\ l \in Int /\ (a <= l \/ l - a + 1 = 0)
  OBVIOUS
<1>3. /\ t \in Seq(S) /\ Len(t) = (IF a <= l THEN l - a + 1 ELSE 0)
      /\ \A i \in 1..(l - a + 1) : t[i] = s[a + i - 1]
  BY <1>1, <1>2, SubSeqProperties DEF t
<1> QED
  BY <1>2, <1>3 DEF t

SeqReplaced(S, s, k, x, t) ==
  t \in Seq(S) /\ Len(t) = Len(s) /\ t[k] = x /\ \A i \in 1..Len(s) : i # k => t[i] = s[i]
SeqRemoved(S, s, k, t) ==
  /\ t \in Seq(S) /\ Len(t) = Len(s) - 1
  /\ \A i \in 1..(Len(s) - 1) : (i < k => t[i] = s[i]) /\ (~(i < k) => t[i] = s[i + 1])
SeqInserted(S, s, k, x, t) ==
  /\ t \in Seq(S) /\ Len(t) = Len(s) + 1 /\ t[k] = x
  /\ \A i \in 1..(Len(s) + 1) : (i < k => t[i] = s[i]) /\ (i > k => t[i] = s[i - 1])

LEMMA ReplaceIs ==
  ASSUME NEW S, NEW s \in Seq(S), NEW k \in 1..Len(s), NEW x \in S
  PROVE  SeqReplaced(S, s, k, x, ReplaceAt(s, k, x))
BY ExceptSeq DEF ReplaceAt, SeqReplaced

LEMMA RemoveIs ==
  ASSUME NEW S, NEW s \in Seq(S), NEW k \in 1..Len(s)
  PROVE  SeqRemoved(S, s, k, RemoveAt(s, k))
<1>0. PICK n \in Nat : n = Len(s)
  BY SeqIs
<1>9. k \in 1..n
  BY <1>0
<1> DEFINE a == SubSeq(s, 1, k - 1)  b == SubSeq(s, k + 1, n)  t == RemoveAt(s, k)
<1> HIDE DEF a, b, t
<1>1. a \in Seq(S) /\ Len(a) = k - 1 /\ \A i \in 1..(k - 1) : a[i] = s[i]
  BY <1>0, <1>9, FrontPart DEF a
<1>2. b \in Seq(S) /\ Len(b) = n - k /\ \A i \in 1..(n - k) : b[i] = s[k + 1 + i - 1]
  <2>1. k + 1 \in 1..(n + 1) /\ n - (k + 1) + 1 = n - k
    BY <1>9
  <2> QED
    BY <1>0, <2>1, BackPart DEF b
<1>3. t = a \o b
  BY <1>0 DEF a, b, t, RemoveAt
<1>4. t \in Seq(S) /\ Len(t) = n - 1
      /\ \A i \in 1..(n - 1) : t[i] = IF i <= k - 1 THEN a[i] ELSE b[i - (k - 1)]
  <2>1. Len(a) + Len(b) = n - 1
    BY <1>1, <1>2, <1>9
  <2>2. t \in Seq(S) /\ Len(t) = Len(a) + Len(b)
    BY <1>1, <1>2, <1>3, ConcatProperties
  <2>3. \A i \in 1..(Len(a) + Len(b)) : t[i] = IF i <= Len(a) THEN a[i] ELSE b[i - Len(a)]
    BY <1>1, <1>2, <1>3, ConcatProperties
  <2> QED
    BY <1>1, <1>2, <1>3, <2>1, <2>2, <2>3
<1>5. ASSUME NEW i \in 1..(n - 1) PROVE t[i] = IF i < k THEN s[i] ELSE s[i + 1]
  <2>1. CASE i < k
    BY <1>1, <1>4, <1>9, <2>1
  <2>2. CASE ~(i < k)
    <3>1. i - (k - 1) \in 1..(n - k) /\ k + 1 + (i - (k - 1)) - 1 = i + 1 /\ ~(i <= k - 1)
      BY <1>9, <2>2
    <3> QED
      BY <1>2, <1>4, <2>2, <3>1
  <2> QED
    BY <2>1, <2>2
<1> QED
  BY <1>0, <1>4, <1>5 DEF t, SeqRemoved

LEMMA InsertIs ==
  ASSUME NEW S, NEW s \in Seq(S), NEW k \in 1..Len(s), NEW x \in S
  PROVE  SeqInserted(S, s, k, x, InsertAt(s, k, x))
<1>0. PICK n \in Nat : n = Len(s)
  BY SeqIs
<1>9. k \in 1..n
  BY <1>0
<1> DEFINE a == SubSeq(s, 1, k - 1)  b == SubSeq(s, k, n)  c == a \o <<x>>  t == InsertAt(s, k, x)
<1> HIDE DEF a, b, c, t
<1>1. a \in Seq(S) /\ Len(a) = k - 1 /\ \A i \in 1..(k - 1) : a[i] = s[i]
  BY <1>0, <1>9, FrontPart DEF a
<1>2. b \in Seq(S) /\ Len(b) = n - k + 1 /\ \A i \in 1..(n - k + 1) : b[i] = s[k + i - 1]
  BY <1>0, <1>9, BackPart DEF b
<1>3. c \in Seq(S) /\ Len(c) = k /\ \A i \in 1..k : c[i] = IF i <= k - 1 THEN a[i] ELSE <<x>>[i - (k - 1)]
  <2>1. (k - 1) + 1 = k
    BY <1>9
  <2> QED
    BY <1>1, <2>1, OneIs, ConcatProperties DEF c
<1>4. t = c \o b
  BY <1>0 DEF a, b, c, t, InsertAt
<1>5. t \in Seq(S) /\ Len(t) = n + 1 /\ \A i \in 1..(n + 1) : t[i] = IF i <= k THEN c[i] ELSE b[i - k]
  <2>1. k + (n - k + 1) = n + 1
    BY <1>9
  <2> QED
    BY <1>2, <1>3, <1>4, <2>1, ConcatProperties
<1>6. ASSUME NEW i \in 1..(n + 1) PROVE t[i] = IF i < k THEN s[i] ELSE IF i = k THEN x ELSE s[i - 1]
  <2>1. CASE i < k
    <3>1. i <= k /\ i \in 1..k /\ i <= k - 1 /\ i \in 1..(k - 1)
      BY <1>9, <2>1
    <3>2. t[i] = c[i] /\ c[i] = a[i] /\ a[i] = s[i]
      BY <1>1, <1>3, <1>5, <3>1
    <3> QED
      BY <2>1, <3>2
  <2>2. CASE i = k
    <3>1. i - (k - 1) = 1 /\ ~(i <= k - 1)
      BY <1>9, <2>2
    <3> QED
      BY <1>3, <1>5, <1>9, <2>2, <3>1, OneIs
  <2>3. CASE i > k
    <3>1. i - k \in 1..(n - k + 1) /\ k + (i - k) - 1 = i - 1 /\ ~(i <= k)
      BY <1>9, <2>3
    <3> QED
      <4>1. t[i] = b[i - k]
        BY <1>5, <3>1
      <4>2. b[i - k] = s[k + (i - k) - 1]
        BY <1>2, <3>1
      <4>3. ~(i < k) /\ i # k
        BY <1>9, <2>3
      <4> QED
        BY <3>1, <4>1, <4>2, <4>3
  <2> QED
    BY <1>9, <2>1, <2>2, <2>3
<1> QED
  BY <1>0, <1>9, <1>5, <1>6 DEF t, SeqInserted

LEMMA AppendIs ==
  ASSUME NEW S, NEW s \in Seq(S), NEW n \in Nat, n = Len(s), NEW x \in S
  PROVE  /\ Append(s, x) \in Seq(S) /\ Len(Append(s, x)) = n + 1
         /\ Append(s, x)[n + 1] = x /\ \A i \in 1..n : Append(s, x)[i] = s[i]
<1>1. \A i \in 1..(n + 1) : i \in 1..n \/ i = n + 1
  OBVIOUS
<1> QED
  BY <1>1, AppendProperties

LEMMA TailIs ==
  ASSUME NEW S, NEW s \in Seq(S), NEW n \in Nat, n = Len(s), n > 0
  PROVE  /\ Tail(s) \in Seq(S) /\ Len(Tail(s)) = n - 1
         /\ \A i \in 1..(n - 1) : Tail(s)[i] = s[i + 1]
<1>1. s # <<>>
  BY EmptySeq
<1> QED
  BY <1>1, HeadTailProperties

(* A set of numbers has a least one.                                       *)
LEMMA LeastExists ==
  ASSUME NEW K \in SUBSET Nat, K # {}
  PROVE  \E m \in K : \A k \in K : m <= k
<1>1. PICK x \in K : \A y \in K : <<y, x>> \notin OpToRel(<, Nat)
  BY NatLessThanWellFounded, WFMin
<1>2. \A y \in K : ~(y < x)
  BY <1>1, Zenon DEF OpToRel
<1> QED
  BY <1>2

(* The offset word carries a multiple of 8 and the flag exactly.           *)
LEMMA WireExact ==
  ASSUME NEW s \in Nat, s < 8192, NEW start \in Nat, start = s * 8, NEW more \in BOOLEAN
  PROVE  into_parts(from_parts(start, more)) = [offset |-> start, more |-> more]
<1>1. start \div 8 = s
  OBVIOUS
<1>2. PICK w \in Nat : w = (IF more THEN 8192 ELSE 0) + s
  OBVIOUS
<1>3. from_parts(start, more) = w
  BY <1>1, <1>2 DEF from_parts, MORE_FRAGMENTS_MASK, OFFSET_UNIT
<1>4. (more => w = 8192 + s) /\ (~more => w = s)
  BY <1>2
<1>5. PICK a \in Nat : a = (w \div 8192) % 2
  OBVIOUS
<1>6. (w % 8192) * 8 = start /\ (a = 1 <=> more)
  BY <1>4, <1>5
<1>7. PICK o \in Nat : o = (w % 8192) * 8
  OBVIOUS
<1>8. into_parts(w) = [offset |-> o, more |-> a = 1]
  BY <1>5, <1>7 DEF into_parts, MORE_FRAGMENTS_MASK, OFFSET_UNIT
<1>9. (a = 1) = more /\ o = start
  BY <1>6, <1>7
<1> QED
  BY <1>3, <1>8, <1>9

LEMMA TimesGrows ==
  ASSUME NEW a \in Nat, NEW b \in Nat, NEW m \in Nat, a <= b
  PROVE  a * m <= b * m
OBVIOUS

(* The number of chunks of m bytes in size bytes.                          *)
LEMMA ChunkCount ==
  ASSUME NEW size \in Nat, size > 0, NEW m \in Nat, m > 0
  PROVE  LET n == (size + m - 1) \div m
         IN n \in Nat /\ n > 0 /\ (n - 1) * m < size /\ size <= n * m
<1>1. PICK n \in Nat : n = (size + m - 1) \div m
  OBVIOUS
<1>2. n * m <= size + m - 1 /\ size + m - 1 < (n + 1) * m
  BY <1>1
<1>3. (n + 1) * m = n * m + m /\ (n - 1) * m = n * m - m
  OBVIOUS
<1>4. n # 0
  BY <1>2
<1> QED
  BY <1>1, <1>2, <1>3, <1>4

(* Where the i-th of n chunks starts and ends, in bytes.                   *)
LEMMA ChunkIs ==
  ASSUME NEW size \in Nat, size > 0, NEW m \in Nat, m > 0, NEW n \in Nat,
         (n - 1) * m < size, size <= n * m, NEW i \in 1..n, NEW start, start = (i - 1) * m,
         NEW len, len = IF size - start < m THEN size - start ELSE m
  PROVE  /\ start \in Nat /\ len \in Nat /\ len > 0 /\ start < size
         /\ start + len = IF i = n THEN size ELSE i * m
         /\ start + len < size <=> i # n
<1>1. start \in Nat /\ i * m = start + m
  OBVIOUS
<1>2. CASE i = n
  BY <1>1, <1>2
<1>3. CASE i < n
  <2>1. i * m <= (n - 1) * m
    BY <1>3, TimesGrows
  <2> QED
    BY <1>1, <1>3, <2>1
<1> QED
  BY <1>2, <1>3

LEMMA ChunkOrder ==
  ASSUME NEW m \in Nat, NEW j \in Nat, NEW k \in Nat, j > 0, j < k
  PROVE  j * m <= (k - 1) * m /\ (k = j + 1 => j * m = (k - 1) * m)
<1>1. j <= k - 1 /\ k - 1 \in Nat /\ (k = j + 1 => k - 1 = j)
  OBVIOUS
<1> QED
  BY <1>1, TimesGrows

(* The pieces of a packet in chunks of m bytes.                            *)
ChunkStart(m, i) == (i - 1) * m
ChunkLen(size, m, i) == IF size - ChunkStart(m, i) < m THEN size - ChunkStart(m, i) ELSE m
ChunkEnd(size, m, n, i) == IF i = n THEN size ELSE i * m
Chunk(id, p, size, m, n, i) == [pkt |-> p, id |-> id, from |-> (i - 1) * m, to |-> ChunkEnd(size, m, n, i)]
Chunks(id, p, size, m, n) == [i \in 1..n |-> Chunk(id, p, size, m, n, i)]

LEMMA WireFragmentIs ==
  ASSUME NEW id, NEW pkt, NEW s \in Nat, s < 8192, NEW start \in Nat, start = s * 8,
         NEW len \in Nat, NEW more \in BOOLEAN
  PROVE  WireFragment(id, pkt, start, len, more) =
           [id |-> id, start |-> start, end |-> start + len, last |-> ~more,
            data |-> <<[pkt |-> pkt, id |-> id, from |-> start, to |-> start + len]>>]
<1>1. PICK w : w = into_parts(from_parts(start, more))
  OBVIOUS
<1>2. w = [offset |-> start, more |-> more]
  BY <1>1, WireExact
<1>3. w.offset = start /\ w.more = more
  BY <1>2
<1>4. WireFragment(id, pkt, start, len, more) =
        [id |-> id, start |-> w.offset, end |-> w.offset + len, last |-> ~w.more,
         data |-> <<[pkt |-> pkt, id |-> id, from |-> start, to |-> start + len]>>]
  BY <1>1 DEF WireFragment
<1> QED
  BY <1>3, <1>4

LEMMA ChunksCut ==
  ASSUME NEW id \in Nat, NEW p \in Nat, NEW size \in Nat, size > 0, NEW m \in Nat, m > 0,
         NEW n \in Nat, n > 0, (n - 1) * m < size, size <= n * m
  PROVE  LET P == Chunks(id, p, size, m, n)
         IN /\ Cut(P, p) /\ Len(P) = n
            /\ \A i \in 1..n : P[i] = Chunk(id, p, size, m, n, i)
<1> DEFINE P == Chunks(id, p, size, m, n)
<1> HIDE DEF P
<1>1. \A i \in 1..n : P[i] = Chunk(id, p, size, m, n, i)
  BY DEF P, Chunks
<1>2. ASSUME NEW i \in 1..n
      PROVE  /\ (i - 1) * m \in Nat /\ ChunkEnd(size, m, n, i) \in Nat
             /\ (i - 1) * m < ChunkEnd(size, m, n, i)
  <2>1. PICK start \in Nat : start = (i - 1) * m
    OBVIOUS
  <2>2. PICK len : len = IF size - start < m THEN size - start ELSE m
    OBVIOUS
  <2>3. len \in Nat /\ len > 0 /\ start + len = IF i = n THEN size ELSE i * m
    BY <2>1, <2>2, ChunkIs
  <2>4. start + len = ChunkEnd(size, m, n, i)
    BY <2>3 DEF ChunkEnd
  <2> QED
    BY <2>1, <2>3, <2>4
<1>3. \A i \in 1..n : /\ P[i] \in Piece /\ P[i].pkt = p /\ P[i].id = id /\ P[i].from = (i - 1) * m
                      /\ P[i].to = ChunkEnd(size, m, n, i) /\ P[i].from < P[i].to
  <2> SUFFICES ASSUME NEW i \in 1..n
               PROVE  /\ P[i] \in Piece /\ P[i].pkt = p /\ P[i].id = id /\ P[i].from = (i - 1) * m
                      /\ P[i].to = ChunkEnd(size, m, n, i) /\ P[i].from < P[i].to
    OBVIOUS
  <2>1. PICK a \in Nat, b \in Nat : a = (i - 1) * m /\ b = ChunkEnd(size, m, n, i) /\ a < b
    BY <1>2
  <2>2. P[i] = [pkt |-> p, id |-> id, from |-> a, to |-> b]
    BY <1>1, <2>1 DEF Chunk
  <2>3. P[i] \in Piece /\ P[i].pkt = p /\ P[i].id = id /\ P[i].from = a /\ P[i].to = b
    BY <2>2 DEF Piece
  <2> QED
    BY <2>1, <2>3
<1>4. P \in [1..n -> Piece] /\ P \in Seq(Piece) /\ Len(P) = n
  <2>1. P \in [1..n -> Piece]
    BY <1>1, <1>3 DEF P, Chunks
  <2>2. P \in Seq(Piece)
    BY <2>1, SeqDef
  <2> QED
    BY <2>1, <2>2, LenProperties
<1>5. ASSUME NEW j \in 1..n, NEW k \in 1..n, j < k
      PROVE  P[j].to <= P[k].from /\ (k = j + 1 => P[j].to = P[k].from)
  <2>1. j * m <= (k - 1) * m /\ (k = j + 1 => j * m = (k - 1) * m)
    BY <1>5, ChunkOrder
  <2>2. ChunkEnd(size, m, n, j) = j * m
    BY <1>5 DEF ChunkEnd
  <2> QED
    BY <1>3, <2>1, <2>2
<1>6. \A j, k \in 1..n : k = j + 1 => j < k
  OBVIOUS
<1>7. P[1].from = 0 /\ 1 \in 1..n
  BY <1>3
<1>8. Cut(P, p)
  BY <1>3, <1>4, <1>5, <1>6, <1>7 DEF Cut
<1> QED
  BY <1>1, <1>4, <1>8 DEF P

LEMMA OneOf ==
  ASSUME NEW P \in Seq(Piece), NEW k \in 1..Len(P)
  PROVE  SubSeq(P, k, k) = <<P[k]>>
<1>1. SubSeq(P, k, k) \in Seq(Piece) /\ Len(SubSeq(P, k, k)) = 1 /\ SubSeq(P, k, k)[1] = P[k]
  <2>1. Len(P) \in Nat /\ P[k] \in Piece /\ k - k + 1 = 1 /\ k + 1 - 1 = k /\ k \in Int
    BY SeqIs
  <2>2. \A i \in k..k : P[i] \in Piece
    BY <2>1
  <2> QED
    BY <2>1, <2>2, SubSeqProperties
<1>2. P[k] \in Piece
  BY SeqIs
<1>3. <<P[k]>> \in Seq(Piece) /\ Len(<<P[k]>>) = 1 /\ <<P[k]>>[1] = P[k]
  BY <1>2, OneIs
<1>4. \A i \in 1..1 : i = 1
  OBVIOUS
<1>5. \A i \in 1..Len(SubSeq(P, k, k)) : SubSeq(P, k, k)[i] = <<P[k]>>[i]
  BY <1>1, <1>3, <1>4
<1> QED
  BY <1>1, <1>3, <1>5, SeqEqual

LEMMA LengthIs ==
  ASSUME NEW n \in PacketLengths
  PROVE  n \in Nat /\ n > 0 /\ n < 65536
BY DEF PacketLengths

(* The fragments of a packet are its pieces, each a run of its own.        *)
FragmentsCut(frags, P, id, p) ==
  Cut(P, p) /\ P[1].id = id /\ ToSet(frags) = {Span(P, k, k) : k \in 1..Len(P)}

LEMMA FragmentsAre ==
  ASSUME NEW id \in Nat, NEW p \in Nat, NEW size \in Nat, size \in PacketLengths, NEW plpmtu \in Nat, plpmtu >= 15,
         NEW frags, frags = Fragments(id, p, size, maximum_packet_size_for_plpmtu(plpmtu)),
         NEW P, P = [i \in DOMAIN frags |-> frags[i].data[1]]
  PROVE  FragmentsCut(frags, P, id, p)
<1>1. PICK u \in Nat : u = (plpmtu - 7) \div 8
  OBVIOUS
<1>2. PICK m \in Nat : m = u * 8
  OBVIOUS
<1>0. size \in Nat /\ size > 0
  BY LengthIs, SMT
<1>3. u > 0 /\ m > 0 /\ maximum_packet_size_for_plpmtu(plpmtu) = m
  BY <1>1, <1>2 DEF maximum_packet_size_for_plpmtu, FRAME_OVERHEAD, OFFSET_UNIT
<1>4. PICK n : n = (size + m - 1) \div m
  OBVIOUS
<1>5. n \in Nat /\ n > 0 /\ (n - 1) * m < size /\ size <= n * m
  BY <1>0, <1>3, <1>4, ChunkCount
<1>6. frags = [i \in 1..n |-> WireFragment(id, p, ChunkStart(m, i), ChunkLen(size, m, i),
                                            ChunkStart(m, i) + ChunkLen(size, m, i) < size)]
  BY <1>3, <1>4, Zenon DEF Fragments, ChunkStart, ChunkLen
<1> DEFINE Q == Chunks(id, p, size, m, n)
<1>7. Cut(Q, p) /\ Len(Q) = n /\ \A i \in 1..n : Q[i] = Chunk(id, p, size, m, n, i)
  BY <1>0, <1>3, <1>5, ChunksCut
<1> HIDE DEF Q
<1>8. ASSUME NEW i \in 1..n PROVE frags[i] = Span(Q, i, i) /\ frags[i].data[1] = Q[i]
  <2>1. PICK start \in Nat : start = (i - 1) * m /\ start = ChunkStart(m, i)
    BY DEF ChunkStart
  <2>2. PICK len : len = (IF size - start < m THEN size - start ELSE m) /\ len = ChunkLen(size, m, i)
    BY <2>1 DEF ChunkLen
  <2>3. /\ len \in Nat /\ start < size /\ start + len = IF i = n THEN size ELSE i * m
        /\ start + len < size <=> i # n
    <3>1. m > 0 /\ start = (i - 1) * m /\ len = IF size - start < m THEN size - start ELSE m
      BY <1>3, <2>1, <2>2
    <3>2. n > 0 /\ (n - 1) * m < size /\ size <= n * m /\ n \in Nat /\ size > 0
      BY <1>0, <1>5
    <3> HIDE <1>0
    <3> QED
      BY <3>1, <3>2, ChunkIs, SMT
  <2>4. PICK s \in Nat : s = (i - 1) * u
    OBVIOUS
  <2>5. start = s * 8
    BY <1>2, <2>1, <2>4
  <2>6. s < 8192
    <3>1. start < size
      BY <2>3
    <3>2. size < 65536
      BY LengthIs, SMT
    <3> QED
      BY <2>5, <1>0, <3>1, <3>2, SMT
  <2>7. PICK end \in Nat : end = start + len
    BY <2>3
  <2>8. PICK more \in BOOLEAN : more = (i # n)
    OBVIOUS
  <2>9. (end < size) = more /\ end = ChunkEnd(size, m, n, i)
    BY <2>3, <2>7, <2>8 DEF ChunkEnd
  <2>10. frags[i] = WireFragment(id, p, start, len, end < size)
    BY <1>6, <2>1, <2>2, <2>7, Zenon
  <2>11. WireFragment(id, p, start, len, more) =
           [id |-> id, start |-> start, end |-> end, last |-> ~more,
            data |-> <<[pkt |-> p, id |-> id, from |-> start, to |-> end]>>]
    BY <2>3, <2>5, <2>6, <2>7, WireFragmentIs
  <2>12. [pkt |-> p, id |-> id, from |-> start, to |-> end] = Q[i]
    BY <1>7, <2>1, <2>9 DEF Chunk
  <2>13. (~more) = (i = n)
    BY <2>8
  <2>14. frags[i] = [id |-> id, start |-> start, end |-> end, last |-> i = n, data |-> <<Q[i]>>]
    BY <2>9, <2>10, <2>11, <2>12, <2>13
  <2>15. Q[i].from = start /\ Q[i].to = end /\ Q[1].id = id
    <3>1. 1 \in 1..n /\ Q[1] = Chunk(id, p, size, m, n, 1)
      BY <1>5, <1>7
    <3> QED
      BY <2>12, <3>1 DEF Chunk
  <2>16. Q \in Seq(Piece) /\ SubSeq(Q, i, i) = <<Q[i]>>
    BY <1>7, OneOf DEF Cut
  <2>17. Span(Q, i, i) = [id |-> id, start |-> start, end |-> end, last |-> i = n, data |-> <<Q[i]>>]
    BY <1>7, <2>15, <2>16 DEF Span
  <2> QED
    BY <2>14, <2>17
<1>9. DOMAIN frags = 1..n
  BY <1>6
<1>10. P = Q
  <2>1. DOMAIN Q = 1..n /\ Q = [i \in 1..n |-> Q[i]]
    BY DEF Q, Chunks
  <2>2. P = [i \in 1..n |-> Q[i]]
    BY <1>8, <1>9
  <2> QED
    BY <2>1, <2>2
<1>11. ToSet(frags) = {Span(P, k, k) : k \in 1..Len(P)}
  <2>1. ToSet(frags) = {frags[i] : i \in 1..n}
    BY <1>9 DEF ToSet
  <2>2. {frags[i] : i \in 1..n} = {Span(Q, i, i) : i \in 1..n}
    BY <1>8
  <2> QED
    BY <1>7, <1>10, <2>1, <2>2, ZenonT(40)
<1>12. P[1].id = id
  <2>1. 1 \in 1..n /\ Q[1] = Chunk(id, p, size, m, n, 1)
    BY <1>5, <1>7
  <2> QED
    BY <1>10, <2>1 DEF Chunk
<1> QED
  BY <1>7, <1>10, <1>11, <1>12 DEF FragmentsCut

(* The order of the pieces of a packet.                                    *)
LEMMA CutFacts ==
  ASSUME NEW P, NEW p, Cut(P, p)
  PROVE  /\ P \in Seq(Piece) /\ Len(P) \in Nat /\ Len(P) > 0 /\ P[1].id \in Nat
         /\ \A k \in 1..Len(P) : /\ P[k] \in Piece /\ P[k].from \in Nat /\ P[k].to \in Nat
                                 /\ P[k].from < P[k].to /\ P[k].pkt = p /\ P[k].id = P[1].id
<1>1. P \in Seq(Piece) /\ Len(P) \in Nat /\ Len(P) > 0 /\ \A k \in 1..Len(P) : P[k] \in Piece
  BY SeqIs DEF Cut
<1>2. 1 \in 1..Len(P)
  BY <1>1
<1> QED
  BY <1>1, <1>2 DEF Cut, Piece

LEMMA PieceOrder ==
  ASSUME NEW P, NEW p, Cut(P, p), NEW j \in 1..Len(P), NEW k \in 1..Len(P)
  PROVE  /\ P[j].to <= P[k].from <=> j < k
         /\ P[j].to = P[k].from <=> k = j + 1
         /\ P[j].to < P[k].from <=> j + 1 < k
         /\ P[j].from <= P[k].from <=> j <= k
         /\ P[j].to <= P[k].to <=> j <= k
<1>1. PICK n \in Nat : n = Len(P)
  BY CutFacts
<1>2. /\ \A i \in 1..n : P[i].from \in Nat /\ P[i].to \in Nat /\ P[i].from < P[i].to
      /\ \A i, l \in 1..n : i < l => P[i].to <= P[l].from
      /\ \A i, l \in 1..n : l = i + 1 => P[i].to = P[l].from
  BY <1>1, CutFacts DEF Cut
<1>3. j \in 1..n /\ k \in 1..n
  BY <1>1
<1>4. CASE j = k
  BY <1>2, <1>3, <1>4
<1>5. CASE k < j
  BY <1>2, <1>3, <1>5
<1>6. CASE k = j + 1
  BY <1>2, <1>3, <1>6
<1>7. CASE j + 1 < k
  <2>1. j + 1 \in 1..n
    BY <1>3, <1>7
  <2>2. P[j].to = P[j + 1].from /\ P[j + 1].to <= P[k].from
    BY <1>2, <1>3, <1>7, <2>1
  <2>3. /\ P[j].from \in Nat /\ P[j].to \in Nat /\ P[k].from \in Nat /\ P[k].to \in Nat
        /\ P[j + 1].from \in Nat /\ P[j + 1].to \in Nat
        /\ P[j].from < P[j].to /\ P[k].from < P[k].to /\ P[j + 1].from < P[j + 1].to
    BY <1>2, <1>3, <2>1
  <2>4. P[j].to < P[k].from /\ P[j].from < P[k].from /\ P[j].to < P[k].to
    <3>1. PICK a \in Nat, b \in Nat, c \in Nat, d \in Nat, e \in Nat :
            a = P[j].from /\ b = P[j].to /\ c = P[j + 1].to /\ d = P[k].from /\ e = P[k].to
      BY <2>3
    <3>2. a < b /\ b < c /\ c <= d /\ d < e
      BY <2>2, <2>3, <3>1
    <3>3. b < d /\ a < d /\ b < e
      BY <3>2
    <3> QED
      BY <3>1, <3>3
  <2> QED
    <3>1. j \in Nat /\ k \in Nat /\ j < k /\ k # j + 1
      BY <1>3, <1>7
    <3>2. /\ P[j].to <= P[k].from /\ P[j].to # P[k].from /\ P[j].to < P[k].from
          /\ P[j].from <= P[k].from /\ P[j].to <= P[k].to
      BY <2>3, <2>4
    <3>3. j <= k /\ j + 1 < k
      BY <1>7, <3>1
    <3> QED
      BY <3>1, <3>2, <3>3
<1> QED
  BY <1>3, <1>4, <1>5, <1>6, <1>7

SpanWell(P, a, b, r) ==
  /\ r \in RunSet /\ r.id = P[1].id /\ r.start = P[a].from /\ r.end = P[b].to
  /\ (r.last <=> b = Len(P)) /\ r.data = SubSeq(P, a, b) /\ r.start < r.end
  /\ Len(r.data) = b - a + 1 /\ \A i \in 1..(b - a + 1) : r.data[i] = P[a + i - 1]

LEMMA SpanIs ==
  ASSUME NEW P, NEW p, Cut(P, p), NEW a \in 1..Len(P), NEW b \in 1..Len(P), a <= b
  PROVE  SpanWell(P, a, b, Span(P, a, b))
<1>1. PICK n \in Nat : n = Len(P)
  BY CutFacts
<1>2. SubSeq(P, a, b) \in Seq(Piece) /\ Len(SubSeq(P, a, b)) = b - a + 1
      /\ \A i \in 1..(b - a + 1) : SubSeq(P, a, b)[i] = P[a + i - 1]
  <2>1. \A i \in a..b : P[i] \in Piece
    BY <1>1, CutFacts
  <2> QED
    BY <1>1, <2>1, SubSeqProperties
<1>3. P[1].id \in Nat /\ P[a].from \in Nat /\ P[b].to \in Nat
  BY CutFacts
<1>4. P[a].from < P[b].to
  <2>1. P[a].to <= P[b].to /\ P[a].from < P[a].to /\ P[a].to \in Nat
    BY CutFacts, PieceOrder
  <2> QED
    BY <1>3, <2>1
<1>5. (b = Len(P)) \in BOOLEAN
  OBVIOUS
<1>6. Span(P, a, b) \in RunSet
  BY <1>2, <1>3, <1>5 DEF Span, RunSet
<1> QED
  BY <1>2, <1>4, <1>6 DEF Span, SpanWell

LEMMA SpanCovers ==
  ASSUME NEW P, NEW p, Cut(P, p), NEW a \in 1..Len(P), NEW b \in 1..Len(P), a <= b, NEW c \in 1..Len(P)
  PROVE  Covers(Span(P, a, b), P[c]) <=> a <= c /\ c <= b
<1>1. Span(P, a, b).start = P[a].from /\ Span(P, a, b).end = P[b].to
  BY SpanIs DEF SpanWell
<1> QED
  BY <1>1, PieceOrder DEF Covers

LEMMA JoinedIs ==
  ASSUME NEW r \in RunSet, NEW t \in RunSet
  PROVE  Joined(r, t) \in RunSet
<1>1. r.data \o t.data \in Seq(Piece) /\ t.end \in Nat /\ t.last \in BOOLEAN
  BY ConcatProperties DEF RunSet
<1> QED
  BY <1>1 DEF RunSet, Joined

LEMMA JoinSpans ==
  ASSUME NEW P, NEW p, Cut(P, p), NEW a \in 1..Len(P), NEW b \in 1..Len(P), NEW d \in 1..Len(P),
         NEW c \in 1..Len(P), a <= b, d = b + 1, d <= c
  PROVE  Joined(Span(P, a, b), Span(P, d, c)) = Span(P, a, c)
<1>1. PICK n \in Nat : n = Len(P) /\ P \in Seq(Piece)
  BY CutFacts
<1>2. SubSeq(P, a, b) \o SubSeq(P, d, c) = SubSeq(P, a, c)
  <2>1. a \in 1..(Len(P) + 1) /\ b \in (a - 1)..Len(P) /\ c \in b..Len(P)
    BY <1>1
  <2> QED
    BY <1>1, <2>1, ConcatAdjacentSubSeq
<1>3. Joined(Span(P, a, b), Span(P, d, c)) =
        [id |-> P[1].id, start |-> P[a].from, end |-> P[c].to, last |-> c = Len(P),
         data |-> SubSeq(P, a, b) \o SubSeq(P, d, c)]
  BY DEF Span, Joined
<1> QED
  BY <1>2, <1>3 DEF Span

LEMMA PiecesDiffer ==
  ASSUME NEW P, NEW p, Cut(P, p), NEW Q, NEW q, Cut(Q, q), NEW j \in 1..Len(P), NEW k \in 1..Len(Q),
         Span(P, j, j) = Span(Q, k, k)
  PROVE  p = q /\ P[j] = Q[k] /\ (P = Q => j = k)
<1>1. P \in Seq(Piece) /\ Q \in Seq(Piece) /\ P[j] \in Piece /\ Q[k] \in Piece
  BY CutFacts
<1>2. Span(P, j, j).data = <<P[j]>> /\ Span(Q, k, k).data = <<Q[k]>>
  BY <1>1, OneOf DEF Span
<1>3. <<P[j]>> = <<Q[k]>>
  BY <1>2
<1>4. P[j] = Q[k]
  BY <1>3
<1>5. p = q
  <2>1. P[j].pkt = p
    BY CutFacts
  <2>2. Q[k].pkt = q
    BY CutFacts
  <2> QED
    BY <1>4, <2>1, <2>2
<1>6. ASSUME P = Q PROVE j = k
  <2>1. k \in 1..Len(P) /\ P[j].from = P[k].from /\ P[j].from \in Nat
    BY <1>4, <1>6, CutFacts
  <2>2. j <= k /\ k <= j
    BY <2>1, PieceOrder
  <2> QED
    BY <2>2, CutFacts
<1> QED
  BY <1>4, <1>5, <1>6

(* What update does with a fragment f: the runs before the i-th end before *)
(* f; f grows a run into g, on either side of it.                          *)
Clear(f, runs, i) == \A j \in 1..Len(runs) : j < i => runs[j].end < f.start
Grew(f, run, g) ==
  \/ f.end = run.start /\ ~f.last /\ g = Joined(f, run)
  \/ run.end = f.start /\ f.end # run.start /\ ~run.last /\ g = Joined(run, f)

Inserted(f, runs, i, t) == Clear(f, runs, i) /\ f.end < runs[i].start /\ t = InsertAt(runs, i, f)
Widened(f, runs, i, g, t) ==
  /\ Clear(f, runs, i) /\ Grew(f, runs[i], g) /\ (i < Len(runs) => g.end # runs[i + 1].start)
  /\ t = ReplaceAt(runs, i, g)
Closed(f, runs, i, g, t) ==
  /\ Clear(f, runs, i) /\ Grew(f, runs[i], g) /\ i < Len(runs) /\ g.end = runs[i + 1].start
  /\ t = RemoveAt(ReplaceAt(runs, i, Joined(g, runs[i + 1])), i + 1)
Refused(f, runs, i) ==
  \/ Overlaps(f, runs[i])
  \/ f.end = runs[i].start /\ f.last
  \/ runs[i].end = f.start /\ runs[i].last
  \/ \E g : Grew(f, runs[i], g) /\ i < Len(runs) /\ g.end = runs[i + 1].start /\ g.last

LEMMA StopsIs ==
  ASSUME NEW f \in RunSet, NEW runs \in Seq(RunSet), NEW n \in Nat, n = Len(runs)
  PROVE  LET i == StopsAt(f, runs)
         IN \/ i = 0 /\ \A j \in 1..n : runs[j].end < f.start
            \/ /\ i \in 1..n /\ Clear(f, runs, i)
               /\ Overlaps(f, runs[i]) \/ Touches(f, runs[i]) \/ f.end < runs[i].start
<1> DEFINE stop(j) == Overlaps(f, runs[j]) \/ Touches(f, runs[j]) \/ f.end < runs[j].start
           K == {j \in 1..n : stop(j)}
<1>1. DOMAIN runs = 1..n /\ \A j \in 1..n : runs[j] \in RunSet
  BY SeqIs
<1>2. f.start \in Nat /\ f.end \in Nat /\ \A j \in 1..n : runs[j].start \in Nat /\ runs[j].end \in Nat
  BY <1>1 DEF RunSet
<1>3. ASSUME NEW j \in 1..n, ~stop(j) PROVE runs[j].end < f.start
  BY <1>2, <1>3 DEF Overlaps, Touches
<1>4. StopsAt(f, runs) = IF K = {} THEN 0 ELSE CHOOSE i \in K : \A j \in K : i <= j
  BY <1>1 DEF StopsAt
<1>5. CASE K = {}
  <2>1. \A j \in 1..n : ~stop(j)
    BY <1>5
  <2> QED
    BY <1>3, <1>4, <1>5, <2>1
<1>6. CASE K # {}
  <2>1. K \in SUBSET Nat
    OBVIOUS
  <2>2. \E i \in K : \A j \in K : i <= j
    BY <1>6, <2>1, LeastExists
  <2>3. PICK i \in K : i = StopsAt(f, runs) /\ \A j \in K : i <= j
    <3>1. (CHOOSE i \in K : \A j \in K : i <= j) \in K
          /\ \A j \in K : (CHOOSE i \in K : \A k \in K : i <= k) <= j
      BY <2>2
    <3> QED
      BY <1>4, <1>6, <3>1
  <2>4. \A j \in 1..n : j < i => ~stop(j)
    BY <2>3
  <2>5. Clear(f, runs, i)
    BY <1>3, <2>4 DEF Clear
  <2> QED
    BY <2>3, <2>5
<1> QED
  BY <1>5, <1>6

LEMMA AddIs ==
  ASSUME NEW f \in RunSet, NEW runs \in Seq(RunSet), NEW i \in 1..Len(runs),
         Clear(f, runs, i), Touches(f, runs[i])
  PROVE  LET r == AddWireFrag(f, runs, i)
         IN \/ r.ok = FALSE /\ Refused(f, runs, i)
            \/ r.ok = TRUE /\ \E g : Widened(f, runs, i, g, r.runs) \/ Closed(f, runs, i, g, r.runs)
<1>1. PICK r : r = AddWireFrag(f, runs, i)
  OBVIOUS
<1>2. PICK g : g = IF f.end = runs[i].start THEN Joined(f, runs[i]) ELSE Joined(runs[i], f)
  OBVIOUS
<1> DEFINE closes == i < Len(runs) /\ g.end = runs[i + 1].start
           refused == \/ f.end = runs[i].start /\ f.last
                      \/ ~(f.end = runs[i].start) /\ runs[i].last
                      \/ closes /\ g.last
<1>3. r = IF refused THEN [ok |-> FALSE, runs |-> runs]
          ELSE IF closes
          THEN [ok |-> TRUE, runs |-> RemoveAt(ReplaceAt(runs, i, Joined(g, runs[i + 1])), i + 1)]
          ELSE [ok |-> TRUE, runs |-> ReplaceAt(runs, i, g)]
  BY <1>1, <1>2, Zenon DEF AddWireFrag
<1>4. ~(f.end = runs[i].start) => runs[i].end = f.start
  BY DEF Touches
<1>5. ~(f.end = runs[i].start /\ f.last) /\ ~(~(f.end = runs[i].start) /\ runs[i].last) => Grew(f, runs[i], g)
  BY <1>2, <1>4 DEF Grew
<1>6. CASE refused
  <2>1. r.ok = FALSE
    BY <1>3, <1>6
  <2>2. Refused(f, runs, i)
    BY <1>4, <1>5, <1>6, Zenon DEF Refused
  <2> QED
    BY <1>1, <2>1, <2>2
<1>7. CASE ~refused
  <2>1. Grew(f, runs[i], g)
    BY <1>5, <1>7
  <2>2. CASE closes
    <3>1. r = [ok |-> TRUE, runs |-> RemoveAt(ReplaceAt(runs, i, Joined(g, runs[i + 1])), i + 1)]
      BY <1>3, <1>7, <2>2
    <3>2. r.ok = TRUE /\ r.runs = RemoveAt(ReplaceAt(runs, i, Joined(g, runs[i + 1])), i + 1)
      BY <3>1
    <3>3. Closed(f, runs, i, g, r.runs)
      BY <2>1, <2>2, <3>2 DEF Closed
    <3> QED
      BY <1>1, <3>2, <3>3
  <2>3. CASE ~closes
    <3>1. r = [ok |-> TRUE, runs |-> ReplaceAt(runs, i, g)]
      BY <1>3, <1>7, <2>3
    <3>2. r.ok = TRUE /\ r.runs = ReplaceAt(runs, i, g)
      BY <3>1
    <3>3. Widened(f, runs, i, g, r.runs)
      BY <2>1, <2>3, <3>2 DEF Widened
    <3> QED
      BY <1>1, <3>2, <3>3
  <2> QED
    BY <2>2, <2>3
<1> QED
  BY <1>6, <1>7

LEMMA UpdateIs ==
  ASSUME NEW f \in RunSet, NEW runs \in Seq(RunSet), f.start < f.end
  PROVE  LET r == update(f, runs)
         IN \/ r.ok = FALSE /\ \E i \in 1..Len(runs) : Refused(f, runs, i)
            \/ r.ok = TRUE /\ Clear(f, runs, Len(runs) + 1) /\ r.runs = Append(runs, f)
            \/ r.ok = TRUE /\ \E i \in 1..Len(runs) : Inserted(f, runs, i, r.runs)
            \/ r.ok = TRUE /\ \E i \in 1..Len(runs) : \E g : Widened(f, runs, i, g, r.runs)
            \/ r.ok = TRUE /\ \E i \in 1..Len(runs) : \E g : Closed(f, runs, i, g, r.runs)
<1>1. PICK r : r = update(f, runs)
  OBVIOUS
<1>2. PICK i : i = StopsAt(f, runs)
  OBVIOUS
<1>3. PICK n \in Nat : n = Len(runs)
  BY SeqIs
<1>4. f.start \in Nat /\ f.end \in Nat /\ f.end # f.start
  BY DEF RunSet
<1>5. r = CASE i = 0 -> [ok |-> TRUE, runs |-> Append(runs, f)]
            [] i # 0 /\ Overlaps(f, runs[i]) -> [ok |-> FALSE, runs |-> runs]
            [] i # 0 /\ ~Overlaps(f, runs[i]) /\ f.end < runs[i].start ->
                 [ok |-> TRUE, runs |-> InsertAt(runs, i, f)]
            [] OTHER -> AddWireFrag(f, runs, i)
  BY <1>1, <1>2, <1>4, Zenon DEF update
<1>6. CASE i = 0
  <2>1. r = [ok |-> TRUE, runs |-> Append(runs, f)]
    BY <1>5, <1>6
  <2>2. r.ok = TRUE /\ r.runs = Append(runs, f)
    BY <2>1
  <2>3. i \notin 1..n
    BY <1>6
  <2>4. \A j \in 1..n : runs[j].end < f.start
    BY <1>2, <1>3, <2>3, StopsIs
  <2>5. Clear(f, runs, Len(runs) + 1)
    BY <1>3, <2>4 DEF Clear
  <2> QED
    BY <1>1, <2>2, <2>5
<1>7. CASE i # 0
  <2>1. /\ i \in 1..n /\ Clear(f, runs, i)
        /\ Overlaps(f, runs[i]) \/ Touches(f, runs[i]) \/ f.end < runs[i].start
    BY <1>2, <1>3, <1>7, StopsIs
  <2>2. i \in 1..Len(runs)
    BY <1>3, <2>1
  <2>3. CASE Overlaps(f, runs[i])
    <3>1. r = [ok |-> FALSE, runs |-> runs]
      BY <1>5, <1>7, <2>3
    <3>2. r.ok = FALSE
      BY <3>1
    <3>3. Refused(f, runs, i)
      BY <2>3 DEF Refused
    <3> QED
      BY <1>1, <2>2, <3>2, <3>3
  <2>4. CASE ~Overlaps(f, runs[i]) /\ f.end < runs[i].start
    <3>1. r = [ok |-> TRUE, runs |-> InsertAt(runs, i, f)]
      BY <1>5, <1>7, <2>4
    <3>2. r.ok = TRUE /\ r.runs = InsertAt(runs, i, f)
      BY <3>1
    <3>3. Inserted(f, runs, i, r.runs)
      BY <2>1, <2>4, <3>2 DEF Inserted
    <3> QED
      BY <1>1, <2>2, <3>2, <3>3
  <2>5. CASE ~Overlaps(f, runs[i]) /\ ~(f.end < runs[i].start)
    <3>1. r = AddWireFrag(f, runs, i)
      BY <1>5, <1>7, <2>5
    <3>2. Touches(f, runs[i])
      BY <2>1, <2>5
    <3>3. \/ r.ok = FALSE /\ Refused(f, runs, i)
          \/ r.ok = TRUE /\ \E g : Widened(f, runs, i, g, r.runs) \/ Closed(f, runs, i, g, r.runs)
      BY <2>1, <2>2, <3>1, <3>2, AddIs
    <3> QED
      BY <1>1, <2>2, <3>3, Zenon
  <2> QED
    BY <2>3, <2>4, <2>5
<1> QED
  BY <1>6, <1>7

(* Pieces of one id keep following each other, whatever packets they are of. *)
LEMMA JoinTiled ==
  ASSUME NEW a, NEW b, NEW id, NEW ps, Tiled(a, id, ps), Tiled(b, id, ps), a.end = b.start
  PROVE  Tiled(Joined(a, b), id, ps)
<1>1. a \in RunSet /\ b \in RunSet /\ a.data \in Seq(Piece) /\ b.data \in Seq(Piece)
  BY DEF Tiled, RunSet
<1>2. PICK m \in Nat, n \in Nat : m = Len(a.data) /\ n = Len(b.data) /\ m > 0 /\ n > 0
  BY <1>1, SeqIs DEF Tiled
<1>13. m > 0 /\ n > 0
  BY <1>2
<1>3. PICK d : d = a.data \o b.data
  OBVIOUS
<1>4. d \in Seq(Piece) /\ Len(d) = m + n /\ \A i \in 1..(m + n) : d[i] = IF i <= m THEN a.data[i] ELSE b.data[i - m]
  BY <1>1, <1>2, <1>3, ConcatProperties
<1>5. PICK g : g = Joined(a, b)
  OBVIOUS
<1>6. g \in RunSet /\ g.id = a.id /\ g.start = a.start /\ g.end = b.end /\ g.last = b.last /\ g.data = d
  BY <1>1, <1>3, <1>5, JoinedIs DEF Joined
<1>7. \A i \in 1..(m + n) : (i <= m => i \in 1..m) /\ (~(i <= m) => i - m \in 1..n)
  BY <1>13
<1>8. d[1] = a.data[1] /\ d[m + n] = b.data[n]
  <2>1. 1 \in 1..(m + n) /\ 1 <= m /\ m + n \in 1..(m + n) /\ ~(m + n <= m) /\ (m + n) - m = n
    BY <1>13
  <2> QED
    BY <1>4, <2>1
<1>9. \A i \in 1..(m + n) : d[i].id = id
  <2>1. (\A i \in 1..m : a.data[i].id = id) /\ \A i \in 1..n : b.data[i].id = id
    BY <1>2 DEF Tiled
  <2> QED
    BY <1>4, <1>7, <2>1
<1>10. ASSUME NEW i \in 1..(m + n), NEW j \in 1..(m + n), j = i + 1 PROVE d[j].from = d[i].to
  <2>1. CASE j <= m
    <3>1. i \in 1..m /\ j \in 1..m /\ i <= m
      BY <1>13, <1>10, <2>1
    <3>2. d[i] = a.data[i] /\ d[j] = a.data[j]
      BY <1>4, <2>1, <3>1
    <3>3. \A k, l \in 1..m : l = k + 1 => a.data[l].from = a.data[k].to
      BY <1>2 DEF Tiled
    <3> QED
      BY <1>10, <3>1, <3>2, <3>3
  <2>2. CASE i <= m /\ ~(j <= m)
    <3>1. i = m /\ j - m = 1
      BY <1>13, <1>10, <2>2
    <3>2. d[i] = a.data[m] /\ d[j] = b.data[1]
      BY <1>4, <2>2, <3>1
    <3> QED
      BY <1>2, <3>2 DEF Tiled
  <2>3. CASE ~(i <= m)
    <3>1. i - m \in 1..n /\ j - m \in 1..n /\ j - m = (i - m) + 1 /\ ~(j <= m)
      BY <1>13, <1>10, <2>3
    <3>2. d[i] = b.data[i - m] /\ d[j] = b.data[j - m]
      BY <1>4, <2>3, <3>1
    <3>3. \A k, l \in 1..n : l = k + 1 => b.data[l].from = b.data[k].to
      BY <1>2 DEF Tiled
    <3> QED
      BY <3>1, <3>2, <3>3
  <2> QED
    BY <1>13, <1>10, <2>1, <2>2, <2>3
<1>11. g.id = id /\ g.start = d[1].from /\ g.end = d[m + n].to
       /\ (g.last => \E p \in 1..Len(ps) : d[m + n] = ps[p][Len(ps[p])])
  BY <1>2, <1>6, <1>8 DEF Tiled
<1>12. Len(g.data) = m + n /\ m + n > 0
  BY <1>13, <1>4, <1>6
<1>14. \A i, j \in 1..(m + n) : j = i + 1 => d[j].from = d[i].to
  BY <1>10
<1>15. g.data \in Seq(Piece) /\ g.data # <<>>
  BY <1>4, <1>6, <1>12
<1> QED
  <2>1. Tiled(g, id, ps)
    <3>1. g.start = g.data[1].from /\ g.end = g.data[Len(g.data)].to
          /\ (g.last => \E p \in 1..Len(ps) : g.data[Len(g.data)] = ps[p][Len(ps[p])])
      BY <1>6, <1>11, <1>12
    <3>2. /\ \A i \in 1..Len(g.data) : g.data[i].id = id
          /\ \A i, j \in 1..Len(g.data) : j = i + 1 => g.data[j].from = g.data[i].to
      BY <1>6, <1>9, <1>12, <1>14
    <3> QED
      BY <1>6, <1>11, <1>12, <3>1, <3>2 DEF Tiled
  <2> QED
    BY <1>5, <2>1

LEMMA GrewTiled ==
  ASSUME NEW f, NEW run, NEW g, NEW id, NEW ps, Tiled(f, id, ps), Tiled(run, id, ps), Grew(f, run, g)
  PROVE  Tiled(g, id, ps)
BY JoinTiled DEF Grew

LEMMA ReplacedTiled ==
  ASSUME NEW id, NEW ps, NEW runs, AllTiled(runs, id, ps), NEW i \in 1..Len(runs), NEW g, Tiled(g, id, ps)
  PROVE  AllTiled(ReplaceAt(runs, i, g), id, ps) /\ Len(ReplaceAt(runs, i, g)) = Len(runs)
<1>1. runs \in Seq(RunSet) /\ Len(runs) \in Nat /\ g \in RunSet
  BY SeqIs DEF AllTiled, Tiled
<1>2. PICK n \in Nat : n = Len(runs) /\ i \in 1..n
  BY <1>1
<1>3. ReplaceAt(runs, i, g) \in Seq(RunSet) /\ Len(ReplaceAt(runs, i, g)) = n /\ ReplaceAt(runs, i, g)[i] = g
      /\ \A j \in 1..n : j # i => ReplaceAt(runs, i, g)[j] = runs[j]
  <2>1. SeqReplaced(RunSet, runs, i, g, ReplaceAt(runs, i, g))
    BY <1>1, ReplaceIs
  <2> QED
    BY <1>2, <2>1 DEF SeqReplaced
<1> QED
  BY <1>2, <1>3 DEF AllTiled

LEMMA RemovedTiled ==
  ASSUME NEW id, NEW ps, NEW runs, AllTiled(runs, id, ps), NEW i \in 1..Len(runs)
  PROVE  AllTiled(RemoveAt(runs, i), id, ps)
<1>1. runs \in Seq(RunSet) /\ Len(runs) \in Nat
  BY SeqIs DEF AllTiled
<1>2. PICK n \in Nat : n = Len(runs) /\ i \in 1..n
  BY <1>1
<1>3. RemoveAt(runs, i) \in Seq(RunSet) /\ Len(RemoveAt(runs, i)) = n - 1
      /\ \A j \in 1..(n - 1) : (j < i => RemoveAt(runs, i)[j] = runs[j])
                               /\ (~(j < i) => RemoveAt(runs, i)[j] = runs[j + 1])
  <2>1. SeqRemoved(RunSet, runs, i, RemoveAt(runs, i))
    BY <1>1, RemoveIs
  <2> QED
    BY <1>2, <2>1 DEF SeqRemoved
<1>4. \A j \in 1..(n - 1) : j \in 1..n /\ j + 1 \in 1..n
  BY <1>2
<1>5. \A j \in 1..n : Tiled(runs[j], id, ps)
  BY <1>2 DEF AllTiled
<1>6. ASSUME NEW j \in 1..(n - 1) PROVE Tiled(RemoveAt(runs, i)[j], id, ps)
  <2>1. CASE j < i
    <3>1. RemoveAt(runs, i)[j] = runs[j] /\ j \in 1..n
      BY <1>3, <1>4, <2>1, Zenon
    <3> QED
      BY <1>5, <3>1
  <2>2. CASE ~(j < i)
    <3>1. RemoveAt(runs, i)[j] = runs[j + 1] /\ j + 1 \in 1..n
      BY <1>3, <1>4, <2>2
    <3> QED
      BY <1>5, <3>1
  <2> QED
    BY <2>1, <2>2
<1> QED
  BY <1>3, <1>6 DEF AllTiled

LEMMA AddedTiled ==
  ASSUME NEW id, NEW ps, NEW runs, AllTiled(runs, id, ps), NEW f, Tiled(f, id, ps)
  PROVE  /\ AllTiled(Append(runs, f), id, ps)
         /\ \A i \in 1..Len(runs) : AllTiled(InsertAt(runs, i, f), id, ps)
<1>1. runs \in Seq(RunSet) /\ Len(runs) \in Nat /\ f \in RunSet
  BY SeqIs DEF AllTiled, Tiled
<1>2. PICK n \in Nat : n = Len(runs)
  BY <1>1
<1>3. AllTiled(Append(runs, f), id, ps)
  <2>1. Append(runs, f) \in Seq(RunSet) /\ Len(Append(runs, f)) = n + 1
        /\ Append(runs, f)[n + 1] = f /\ \A j \in 1..n : Append(runs, f)[j] = runs[j]
    BY <1>1, <1>2, AppendIs
  <2>2. \A j \in 1..(n + 1) : j # n + 1 => j \in 1..n
    OBVIOUS
  <2> QED
    BY <1>2, <2>1, <2>2 DEF AllTiled
<1>4. ASSUME NEW i \in 1..Len(runs) PROVE AllTiled(InsertAt(runs, i, f), id, ps)
  <2>1. InsertAt(runs, i, f) \in Seq(RunSet) /\ Len(InsertAt(runs, i, f)) = n + 1
        /\ InsertAt(runs, i, f)[i] = f
        /\ \A j \in 1..(n + 1) : (j < i => InsertAt(runs, i, f)[j] = runs[j])
                                 /\ (j > i => InsertAt(runs, i, f)[j] = runs[j - 1])
    <3>1. SeqInserted(RunSet, runs, i, f, InsertAt(runs, i, f))
      BY <1>1, InsertIs
    <3> QED
      BY <1>2, <3>1 DEF SeqInserted
  <2>2. \A j \in 1..(n + 1) : j = i \/ (j < i /\ j \in 1..n) \/ (j > i /\ j - 1 \in 1..n)
    BY <1>2
  <2>3. \A j \in 1..n : Tiled(runs[j], id, ps)
    BY <1>2 DEF AllTiled
  <2>4. ASSUME NEW j \in 1..(n + 1) PROVE Tiled(InsertAt(runs, i, f)[j], id, ps)
    <3>1. CASE j = i
      BY <2>1, <3>1
    <3>2. CASE j < i /\ j \in 1..n
      <4>1. InsertAt(runs, i, f)[j] = runs[j]
        BY <2>1, <3>2, Zenon
      <4> QED
        BY <2>3, <3>2, <4>1
    <3>3. CASE j > i /\ j - 1 \in 1..n
      <4>1. InsertAt(runs, i, f)[j] = runs[j - 1]
        BY <2>1, <3>3
      <4> QED
        BY <2>3, <3>3, <4>1
    <3> QED
      BY <2>2, <3>1, <3>2, <3>3
  <2> QED
    BY <2>1, <2>4 DEF AllTiled
<1> QED
  BY <1>3, <1>4

LEMMA UpdateTiled ==
  ASSUME NEW id, NEW ps, NEW runs, AllTiled(runs, id, ps), NEW f, Tiled(f, id, ps), f.start < f.end,
         update(f, runs).ok
  PROVE  AllTiled(update(f, runs).runs, id, ps)
<1>1. PICK r : r = update(f, runs) /\ r.ok
  OBVIOUS
<1>2. f \in RunSet /\ runs \in Seq(RunSet)
  BY DEF AllTiled, Tiled
<1>3. CASE Clear(f, runs, Len(runs) + 1) /\ r.runs = Append(runs, f)
  BY <1>1, <1>3, AddedTiled
<1>4. CASE \E i \in 1..Len(runs) : Inserted(f, runs, i, r.runs)
  BY <1>1, <1>4, AddedTiled DEF Inserted
<1>5. CASE \E i \in 1..Len(runs) : \E g : Widened(f, runs, i, g, r.runs)
  <2>0. PICK i \in 1..Len(runs) : \E g : Widened(f, runs, i, g, r.runs)
    BY <1>5
  <2>1. PICK g : Widened(f, runs, i, g, r.runs)
    BY <2>0
  <2>2. Tiled(runs[i], id, ps) /\ Grew(f, runs[i], g)
    BY <2>1 DEF AllTiled, Widened
  <2>3. Tiled(g, id, ps)
    BY <2>2, GrewTiled
  <2> QED
    BY <1>1, <2>1, <2>3, ReplacedTiled DEF Widened
<1>6. CASE \E i \in 1..Len(runs) : \E g : Closed(f, runs, i, g, r.runs)
  <2>0. PICK i \in 1..Len(runs) : \E g : Closed(f, runs, i, g, r.runs)
    BY <1>6
  <2>1. PICK g : Closed(f, runs, i, g, r.runs)
    BY <2>0
  <2>2. Tiled(runs[i], id, ps) /\ Grew(f, runs[i], g) /\ i + 1 \in 1..Len(runs) /\ g.end = runs[i + 1].start
    BY <1>2, <2>1, SeqIs DEF AllTiled, Closed
  <2>3. Tiled(g, id, ps) /\ Tiled(runs[i + 1], id, ps)
    BY <2>2, GrewTiled DEF AllTiled
  <2>4. Tiled(Joined(g, runs[i + 1]), id, ps)
    BY <2>2, <2>3, JoinTiled
  <2>5. PICK t : t = ReplaceAt(runs, i, Joined(g, runs[i + 1]))
    OBVIOUS
  <2>6. AllTiled(t, id, ps) /\ Len(t) = Len(runs)
    BY <2>4, <2>5, ReplacedTiled
  <2>7. AllTiled(RemoveAt(t, i + 1), id, ps)
    BY <2>2, <2>6, RemovedTiled
  <2> QED
    BY <1>1, <2>1, <2>5, <2>7 DEF Closed
<1>7. r.ok # FALSE
  BY <1>1
<1> QED
  BY <1>1, <1>2, <1>3, <1>4, <1>5, <1>6, <1>7, UpdateIs

LEMMA SpanTiled ==
  ASSUME NEW ps, NEW p \in 1..Len(ps), Cut(ps[p], p), NEW a \in 1..Len(ps[p]), NEW b \in 1..Len(ps[p]), a <= b
  PROVE  Tiled(Span(ps[p], a, b), ps[p][1].id, ps)
<1>1. PICK P : P = ps[p] /\ Cut(P, p)
  OBVIOUS
<1>2. PICK n \in Nat : n = Len(P)
  BY <1>1, CutFacts
<1>12. a \in 1..n /\ b \in 1..n
  BY <1>1, <1>2
<1>3. PICK r : r = Span(P, a, b)
  OBVIOUS
<1>4. /\ r \in RunSet /\ r.id = P[1].id /\ r.start = P[a].from /\ r.end = P[b].to /\ (r.last <=> b = n)
      /\ Len(r.data) = b - a + 1 /\ \A i \in 1..(b - a + 1) : r.data[i] = P[a + i - 1]
  <2>1. a \in 1..Len(P) /\ b \in 1..Len(P)
    BY <1>1
  <2>2. SpanWell(P, a, b, r)
    BY <1>1, <1>3, <2>1, SpanIs
  <2> QED
    BY <1>2, <2>2 DEF SpanWell
<1>5. PICK l \in Nat : l = b - a + 1 /\ l > 0
  BY <1>12
<1>6. \A i \in 1..l : a + i - 1 \in 1..n /\ r.data[i] = P[a + i - 1]
  BY <1>12, <1>4, <1>5
<1>7. r.data[1] = P[a] /\ r.data[l] = P[b]
  <2>1. 1 \in 1..l /\ l \in 1..l /\ a + 1 - 1 = a /\ a + l - 1 = b
    BY <1>12, <1>5
  <2> QED
    BY <1>6, <2>1
<1>8. \A i \in 1..l : r.data[i].id = P[1].id
  BY <1>1, <1>2, <1>6, CutFacts, ZenonT(40)
<1>9. ASSUME NEW i \in 1..l, NEW j \in 1..l, j = i + 1 PROVE r.data[j].from = r.data[i].to
  <2>1. a + i - 1 \in 1..n /\ a + j - 1 \in 1..n /\ a + j - 1 = (a + i - 1) + 1
    BY <1>12, <1>6, <1>9
  <2>2. P[a + i - 1].to = P[a + j - 1].from
    BY <1>1, <1>2, <2>1, PieceOrder
  <2> QED
    BY <1>6, <2>2
<1>10. r.last => r.data[l] = ps[p][Len(ps[p])]
  BY <1>1, <1>2, <1>4, <1>7
<1>11. Len(r.data) = l
  BY <1>4, <1>5
<1> QED
  BY <1>1, <1>3, <1>4, <1>5, <1>7, <1>8, <1>9, <1>10, <1>11 DEF Tiled

(* The runs of one packet: joining two that meet covers what both cover.   *)
LEMMA RunIs ==
  ASSUME NEW P, NEW p, Cut(P, p), NEW r, IsSpan(P, r)
  PROVE  r \in RunSet /\ r.start \in Nat /\ r.end \in Nat /\ r.start < r.end /\ r.id = P[1].id
<1>1. PICK a \in 1..Len(P), b \in 1..Len(P) : a <= b /\ r = Span(P, a, b)
  BY DEF IsSpan
<1>2. SpanWell(P, a, b, r)
  BY <1>1, SpanIs
<1> QED
  BY <1>2 DEF SpanWell, RunSet

LEMMA JoinRuns ==
  ASSUME NEW P, NEW p, Cut(P, p), NEW r, NEW t, IsSpan(P, r), IsSpan(P, t), r.end = t.start
  PROVE  /\ IsSpan(P, Joined(r, t)) /\ Joined(r, t).start = r.start /\ Joined(r, t).end = t.end
         /\ ~r.last
         /\ \A c \in 1..Len(P) : Covers(Joined(r, t), P[c]) <=> Covers(r, P[c]) \/ Covers(t, P[c])
<1>1. PICK a \in 1..Len(P), b \in 1..Len(P) : a <= b /\ r = Span(P, a, b)
  BY DEF IsSpan
<1>2. PICK d \in 1..Len(P), e \in 1..Len(P) : d <= e /\ t = Span(P, d, e)
  BY DEF IsSpan
<1>3. PICK n \in Nat : n = Len(P)
  BY CutFacts
<1>4. a \in 1..n /\ b \in 1..n /\ d \in 1..n /\ e \in 1..n
  BY <1>1, <1>2, <1>3
<1>5. SpanWell(P, a, b, r) /\ SpanWell(P, d, e, t)
  BY <1>1, <1>2, SpanIs
<1>6. P[b].to = P[d].from
  BY <1>5 DEF SpanWell
<1>7. d = b + 1
  BY <1>6, PieceOrder
<1>8. a <= e /\ b # n
  BY <1>1, <1>2, <1>4, <1>7
<1>9. Joined(r, t) = Span(P, a, e)
  BY <1>1, <1>2, <1>7, JoinSpans
<1>10. IsSpan(P, Joined(r, t))
  BY <1>8, <1>9 DEF IsSpan
<1>11. ~r.last
  BY <1>3, <1>5, <1>8 DEF SpanWell
<1>12. ASSUME NEW c \in 1..Len(P)
       PROVE  Covers(Joined(r, t), P[c]) <=> Covers(r, P[c]) \/ Covers(t, P[c])
  <2>1. Covers(r, P[c]) <=> a <= c /\ c <= b
    BY <1>1, SpanCovers
  <2>2. Covers(t, P[c]) <=> d <= c /\ c <= e
    BY <1>2, SpanCovers
  <2>3. Covers(Joined(r, t), P[c]) <=> a <= c /\ c <= e
    BY <1>8, <1>9, SpanCovers
  <2>4. c \in 1..n
    BY <1>3
  <2> QED
    BY <1>1, <1>2, <1>4, <1>7, <2>1, <2>2, <2>3, <2>4
<1> QED
  BY <1>10, <1>11, <1>12 DEF Joined

(* A piece and a run of the same packet: it is before, after or in it.     *)
LEMMA PieceAndRun ==
  ASSUME NEW P, NEW p, Cut(P, p), NEW k \in 1..Len(P), NEW r, IsSpan(P, r)
  PROVE  /\ Overlaps(Span(P, k, k), r) => Covers(r, P[k])
         /\ r.start > P[k].from => P[k].to <= r.start
         /\ \A c \in 1..Len(P) : Covers(Span(P, k, k), P[c]) <=> c = k
<1>1. PICK a \in 1..Len(P), b \in 1..Len(P) : a <= b /\ r = Span(P, a, b)
  BY DEF IsSpan
<1>2. PICK n \in Nat : n = Len(P)
  BY CutFacts
<1>3. a \in 1..n /\ b \in 1..n /\ k \in 1..n
  BY <1>1, <1>2
<1>4. SpanWell(P, a, b, r) /\ SpanWell(P, k, k, Span(P, k, k))
  BY <1>1, <1>3, SpanIs
<1>5. r.start = P[a].from /\ r.end = P[b].to /\ Span(P, k, k).start = P[k].from /\ Span(P, k, k).end = P[k].to
  BY <1>4 DEF SpanWell
<1>6. P[k].from \in Nat /\ P[k].to \in Nat /\ P[a].from \in Nat /\ P[b].to \in Nat
  BY CutFacts
<1>7. ASSUME Overlaps(Span(P, k, k), r) PROVE Covers(r, P[k])
  <2>1. ~(P[k].to <= P[a].from) /\ ~(P[b].to <= P[k].from)
    BY <1>5, <1>6, <1>7 DEF Overlaps
  <2>2. ~(k < a) /\ ~(b < k)
    BY <2>1, PieceOrder
  <2>3. a <= k /\ k <= b
    BY <1>3, <2>2
  <2> QED
    BY <1>1, <2>3, SpanCovers
<1>8. ASSUME r.start > P[k].from PROVE P[k].to <= r.start
  <2>1. ~(P[a].from <= P[k].from)
    BY <1>5, <1>6, <1>8
  <2>2. ~(a <= k)
    BY <2>1, PieceOrder
  <2>3. k < a
    BY <1>3, <2>2
  <2> QED
    BY <1>5, <2>3, PieceOrder
<1>9. ASSUME NEW c \in 1..Len(P) PROVE Covers(Span(P, k, k), P[c]) <=> c = k
  <2>1. k <= k /\ c \in 1..n
    BY <1>2, <1>3
  <2>2. Covers(Span(P, k, k), P[c]) <=> k <= c /\ c <= k
    BY <2>1, SpanCovers
  <2> QED
    BY <1>3, <2>1, <2>2
<1> QED
  BY <1>7, <1>8, <1>9

LEMMA PieceRun ==
  ASSUME NEW P, NEW p, Cut(P, p), NEW k \in 1..Len(P)
  PROVE  IsSpan(P, Span(P, k, k)) /\ Span(P, k, k).start = P[k].from /\ Span(P, k, k).end = P[k].to
<1>1. k <= k
  BY CutFacts
<1> QED
  BY <1>1, SpanIs DEF IsSpan, SpanWell

LEMMA GrewRun ==
  ASSUME NEW P, NEW p, Cut(P, p), NEW k \in 1..Len(P), NEW r, IsSpan(P, r), NEW f, f = Span(P, k, k),
         NEW g, Grew(f, r, g)
  PROVE  /\ IsSpan(P, g) /\ \A c \in 1..Len(P) : Covers(g, P[c]) <=> Covers(r, P[c]) \/ c = k
         /\ \/ g.start = f.start /\ g.end = r.end
            \/ g.start = r.start /\ g.end = f.end /\ r.end = f.start
<1>1. IsSpan(P, f) /\ \A c \in 1..Len(P) : Covers(f, P[c]) <=> c = k
  BY PieceRun, PieceAndRun
<1>2. CASE f.end = r.start /\ g = Joined(f, r)
  <2>1. IsSpan(P, g) /\ g.start = f.start /\ g.end = r.end
        /\ \A c \in 1..Len(P) : Covers(g, P[c]) <=> Covers(f, P[c]) \/ Covers(r, P[c])
    BY <1>1, <1>2, JoinRuns
  <2> QED
    BY <1>1, <2>1
<1>3. CASE r.end = f.start /\ g = Joined(r, f)
  <2>1. IsSpan(P, g) /\ g.start = r.start /\ g.end = f.end
        /\ \A c \in 1..Len(P) : Covers(g, P[c]) <=> Covers(r, P[c]) \/ Covers(f, P[c])
    BY <1>1, <1>3, JoinRuns
  <2> QED
    BY <1>1, <1>3, <2>1
<1> QED
  BY <1>2, <1>3 DEF Grew

(* A piece that no run covers is not refused.                              *)
LEMMA NotRefused ==
  ASSUME NEW P, NEW p, Cut(P, p), NEW k \in 1..Len(P), NEW f, f = Span(P, k, k), NEW runs, Apart(P, runs),
         NEW i \in 1..Len(runs), Refused(f, runs, i)
  PROVE  Covered(runs, P[k])
<1>1. IsSpan(P, runs[i]) /\ IsSpan(P, f) /\ runs \in Seq(RunSet) /\ Len(runs) \in Nat
  BY PieceRun, SeqIs DEF Apart
<1>2. ASSUME f.end = runs[i].start, f.last PROVE FALSE
  BY <1>1, <1>2, JoinRuns
<1>3. ASSUME runs[i].end = f.start, runs[i].last PROVE FALSE
  BY <1>1, <1>3, JoinRuns
<1>4. ASSUME NEW g, Grew(f, runs[i], g), i < Len(runs), g.end = runs[i + 1].start, g.last PROVE FALSE
  <2>1. i + 1 \in 1..Len(runs)
    BY <1>1, <1>4
  <2>2. IsSpan(P, runs[i + 1])
    BY <2>1 DEF Apart
  <2>3. IsSpan(P, g)
    BY <1>1, <1>4, GrewRun
  <2> QED
    BY <1>4, <2>2, <2>3, JoinRuns
<1>5. Overlaps(f, runs[i])
  BY <1>2, <1>3, <1>4, Zenon DEF Refused
<1>6. Covers(runs[i], P[k])
  BY <1>1, <1>5, PieceAndRun
<1> QED
  BY <1>6 DEF Covered

(* In every case of update the runs stay apart and cover one piece more.   *)
Gained(P, runs, t, k) ==
  Apart(P, t) /\ \A c \in 1..Len(P) : Covered(t, P[c]) <=> Covered(runs, P[c]) \/ c = k
Ordered(runs) ==
  \A i, j \in 1..Len(runs) : i < j => runs[i].end < runs[j].start
AllRuns(P, runs) == \A i \in 1..Len(runs) : IsSpan(P, runs[i])

LEMMA ApartIs ==
  ASSUME NEW P, NEW p, Cut(P, p), NEW runs
  PROVE  /\ Apart(P, runs) <=> runs \in Seq(RunSet) /\ AllRuns(P, runs) /\ Ordered(runs)
         /\ Apart(P, runs) =>
              /\ Len(runs) \in Nat
              /\ \A i \in 1..Len(runs) : /\ runs[i] \in RunSet /\ runs[i].start \in Nat /\ runs[i].end \in Nat
                                         /\ runs[i].start < runs[i].end /\ IsSpan(P, runs[i])
<1>1. Apart(P, runs) <=> runs \in Seq(RunSet) /\ AllRuns(P, runs) /\ Ordered(runs)
  BY DEF Apart, AllRuns, Ordered
<1>2. ASSUME Apart(P, runs)
      PROVE  /\ Len(runs) \in Nat
             /\ \A i \in 1..Len(runs) : /\ runs[i] \in RunSet /\ runs[i].start \in Nat /\ runs[i].end \in Nat
                                        /\ runs[i].start < runs[i].end /\ IsSpan(P, runs[i])
  <2>1. Len(runs) \in Nat /\ \A i \in 1..Len(runs) : runs[i] \in RunSet /\ IsSpan(P, runs[i])
    BY <1>1, <1>2, SeqIs DEF AllRuns
  <2> QED
    BY <2>1, RunIs
<1> QED
  BY <1>1, <1>2

LEMMA AppendGains ==
  ASSUME NEW P, NEW p, Cut(P, p), NEW k \in 1..Len(P), NEW f, f = Span(P, k, k), NEW runs, Apart(P, runs),
         Clear(f, runs, Len(runs) + 1)
  PROVE  Gained(P, runs, Append(runs, f), k)
<1>1. IsSpan(P, f) /\ f \in RunSet /\ \A c \in 1..Len(P) : Covers(f, P[c]) <=> c = k
  BY PieceRun, PieceAndRun, RunIs
<1>2. PICK n \in Nat : n = Len(runs)
  BY ApartIs
<1>3. PICK t : t = Append(runs, f)
  OBVIOUS
<1>4. t \in Seq(RunSet) /\ Len(t) = n + 1 /\ t[n + 1] = f /\ \A i \in 1..n : t[i] = runs[i]
  BY <1>1, <1>2, <1>3, ApartIs, AppendIs
<1>5. \A i \in 1..(n + 1) : i \in 1..n \/ i = n + 1
  OBVIOUS
<1>6. \A i \in 1..n : IsSpan(P, runs[i]) /\ runs[i].end < f.start
  BY <1>2, ApartIs DEF Clear
<1>7. AllRuns(P, t)
  BY <1>1, <1>4, <1>5, <1>6 DEF AllRuns
<1>8. ASSUME NEW i \in 1..(n + 1), NEW j \in 1..(n + 1), i < j PROVE t[i].end < t[j].start
  <2>1. CASE j = n + 1
    BY <1>4, <1>6, <1>8, <2>1
  <2>2. CASE j \in 1..n
    <3>2. i \in 1..n
      BY <1>8, <2>2
    <3>3. \A a, b \in 1..n : a < b => runs[a].end < runs[b].start
      BY <1>2, ApartIs DEF Ordered
    <3>1. i \in 1..n /\ runs[i].end < runs[j].start
      BY <1>8, <2>2, <3>2, <3>3
    <3> QED
      BY <1>4, <2>2, <3>1
  <2> QED
    BY <1>5, <2>1, <2>2
<1>9. ASSUME NEW c \in 1..Len(P) PROVE Covered(t, P[c]) <=> Covered(runs, P[c]) \/ c = k
  <2>1. Covered(t, P[c]) <=> \E i \in 1..(n + 1) : Covers(t[i], P[c])
    BY <1>4 DEF Covered
  <2>2. Covered(runs, P[c]) <=> \E i \in 1..n : Covers(runs[i], P[c])
    BY <1>2 DEF Covered
  <2>3. n + 1 \in 1..(n + 1) /\ \A i \in 1..n : i \in 1..(n + 1)
    OBVIOUS
  <2> QED
    BY <1>1, <1>4, <1>5, <2>1, <2>2, <2>3
<1>10. Apart(P, t)
  BY <1>4, <1>7, <1>8, ApartIs DEF Ordered
<1> QED
  BY <1>3, <1>9, <1>10 DEF Gained

LEMMA InsertGains ==
  ASSUME NEW P, NEW p, Cut(P, p), NEW k \in 1..Len(P), NEW f, f = Span(P, k, k), NEW runs, Apart(P, runs),
         NEW i \in 1..Len(runs), NEW t, Inserted(f, runs, i, t)
  PROVE  Gained(P, runs, t, k)
<1>1. IsSpan(P, f) /\ f \in RunSet /\ \A c \in 1..Len(P) : Covers(f, P[c]) <=> c = k
  BY PieceRun, PieceAndRun, RunIs
<1>2. PICK n \in Nat : n = Len(runs)
  BY ApartIs
<1>3. i \in 1..n /\ runs \in Seq(RunSet)
  BY <1>2, ApartIs
<1>4. SeqInserted(RunSet, runs, i, f, t)
  BY <1>1, <1>3, InsertIs DEF Inserted
<1>5. /\ t \in Seq(RunSet) /\ Len(t) = n + 1 /\ t[i] = f
      /\ \A j \in 1..(n + 1) : (j < i => t[j] = runs[j]) /\ (j > i => t[j] = runs[j - 1])
  BY <1>2, <1>4 DEF SeqInserted
<1>6. \A j \in 1..(n + 1) : j = i \/ (j < i /\ j \in 1..n) \/ (j > i /\ j - 1 \in 1..n /\ j - 1 >= i)
  BY <1>3
<1>7. f.start \in Nat /\ f.end \in Nat /\ f.start < f.end
  BY <1>1, RunIs
<1>8. /\ \A j \in 1..n : IsSpan(P, runs[j]) /\ runs[j].start \in Nat /\ runs[j].end \in Nat /\ runs[j].start < runs[j].end
      /\ \A j, l \in 1..n : j < l => runs[j].end < runs[l].start
  BY <1>2, ApartIs DEF Ordered
<1>9. \A j \in 1..n : j < i => runs[j].end < f.start
  BY <1>2 DEF Inserted, Clear
<1>10. ASSUME NEW j \in 1..n, j >= i PROVE f.end < runs[j].start
  <2>1. f.end < runs[i].start
    BY DEF Inserted
  <2>2. CASE j = i
    BY <2>1, <2>2
  <2>3. CASE j > i
    BY <1>3, <1>7, <1>8, <2>1, <2>3, SMTT(30)
  <2> QED
    BY <1>3, <1>10, <2>2, <2>3
<1>11. ASSUME NEW j \in 1..(n + 1) PROVE IsSpan(P, t[j])
  <2>1. CASE j < i /\ j \in 1..n
    <3>1. t[j] = runs[j]
      BY <1>5, <2>1
    <3> QED
      BY <1>8, <2>1, <3>1
  <2>2. CASE j > i /\ j - 1 \in 1..n
    <3>1. t[j] = runs[j - 1]
      BY <1>5, <2>2
    <3> QED
      BY <1>8, <2>2, <3>1
  <2> QED
    BY <1>1, <1>5, <1>6, <2>1, <2>2
<1>12. ASSUME NEW j \in 1..(n + 1), NEW l \in 1..(n + 1), j < l PROVE t[j].end < t[l].start
  <2>1. CASE l < i
    <3>1. t[j] = runs[j] /\ t[l] = runs[l] /\ j \in 1..n /\ l \in 1..n
      BY <1>3, <1>5, <1>12, <2>1
    <3> QED
      BY <1>8, <1>12, <3>1
  <2>2. CASE l = i
    <3>1. t[j] = runs[j] /\ t[l] = f /\ j \in 1..n /\ j < i
      BY <1>3, <1>5, <1>12, <2>2
    <3> QED
      BY <1>9, <3>1
  <2>3. CASE l > i /\ j = i
    <3>1. t[j] = f /\ t[l] = runs[l - 1] /\ l - 1 \in 1..n /\ l - 1 >= i
      BY <1>3, <1>5, <1>12, <2>3
    <3> QED
      BY <1>10, <3>1
  <2>4. CASE l > i /\ j < i
    <3>1. t[j] = runs[j] /\ t[l] = runs[l - 1] /\ l - 1 \in 1..n /\ j \in 1..n /\ j < l - 1
      BY <1>3, <1>5, <1>12, <2>4
    <3> QED
      BY <1>8, <3>1
  <2>5. CASE j > i
    <3>1. t[j] = runs[j - 1] /\ t[l] = runs[l - 1] /\ l - 1 \in 1..n /\ j - 1 \in 1..n /\ j - 1 < l - 1
      BY <1>3, <1>5, <1>12, <2>5, SMTT(30)
    <3> QED
      BY <1>8, <3>1
  <2> QED
    BY <1>3, <1>12, <2>1, <2>2, <2>3, <2>4, <2>5
<1>13. ASSUME NEW c \in 1..Len(P) PROVE Covered(t, P[c]) <=> Covered(runs, P[c]) \/ c = k
  <2>1. ASSUME Covered(t, P[c]) PROVE Covered(runs, P[c]) \/ c = k
    <3>1. PICK j \in 1..(n + 1) : Covers(t[j], P[c])
      BY <1>5, <2>1 DEF Covered
    <3>2. CASE j = i
      BY <1>1, <1>5, <3>1, <3>2
    <3>3. CASE j < i /\ j \in 1..n
      BY <1>2, <1>5, <3>1, <3>3 DEF Covered
    <3>4. CASE j > i /\ j - 1 \in 1..n
      <4>1. Covers(runs[j - 1], P[c]) /\ j - 1 \in 1..Len(runs)
        BY <1>2, <1>5, <3>1, <3>4
      <4> QED
        BY <4>1 DEF Covered
    <3> QED
      BY <1>6, <3>2, <3>3, <3>4
  <2>2. ASSUME Covered(runs, P[c]) PROVE Covered(t, P[c])
    <3>1. PICK j \in 1..n : Covers(runs[j], P[c])
      BY <1>2, <2>2 DEF Covered
    <3>2. CASE j < i
      <4>1. t[j] = runs[j] /\ j \in 1..Len(t)
        BY <1>5, <3>2
      <4> QED
        BY <3>1, <4>1 DEF Covered
    <3>3. CASE ~(j < i)
      <4>1. j + 1 \in 1..(n + 1) /\ j + 1 > i /\ (j + 1) - 1 = j
        BY <1>3, <3>3
      <4>2. t[j + 1] = runs[j] /\ j + 1 \in 1..Len(t)
        BY <1>5, <4>1
      <4> QED
        BY <3>1, <4>2 DEF Covered
    <3> QED
      BY <3>2, <3>3
  <2>3. ASSUME c = k PROVE Covered(t, P[c])
    <3>1. i \in 1..Len(t) /\ Covers(t[i], P[c])
      BY <1>1, <1>3, <1>5, <2>3
    <3> QED
      BY <3>1 DEF Covered
  <2> QED
    BY <2>1, <2>2, <2>3
<1>14. Apart(P, t)
  BY <1>5, <1>11, <1>12, ApartIs DEF AllRuns, Ordered
<1> QED
  BY <1>13, <1>14 DEF Gained

(* The run that f has grown is after the runs before it.                   *)
LEMMA GrewAfter ==
  ASSUME NEW P, NEW p, Cut(P, p), NEW k \in 1..Len(P), NEW f, f = Span(P, k, k), NEW runs, Apart(P, runs),
         NEW i \in 1..Len(runs), Clear(f, runs, i), NEW g, Grew(f, runs[i], g)
  PROVE  \A j \in 1..Len(runs) : j < i => runs[j].end < g.start
<1>1. \A j \in 1..Len(runs) : j < i => runs[j].end < f.start /\ runs[j].end < runs[i].start
  BY ApartIs DEF Clear, Ordered
<1>2. IsSpan(P, runs[i])
  BY ApartIs
<1>3. g.start = f.start \/ g.start = runs[i].start
  BY <1>2, GrewRun
<1> QED
  BY <1>1, <1>3

LEMMA GrewBefore ==
  ASSUME NEW P, NEW p, Cut(P, p), NEW k \in 1..Len(P), NEW f, f = Span(P, k, k), NEW runs, Apart(P, runs),
         NEW i \in 1..Len(runs), NEW g, Grew(f, runs[i], g), i < Len(runs) => g.end # runs[i + 1].start
  PROVE  \A j \in 1..Len(runs) : j > i => g.end < runs[j].start
<1>1. PICK n \in Nat : n = Len(runs)
  BY ApartIs
<1>2. /\ i \in 1..n
      /\ \A j \in 1..n : IsSpan(P, runs[j]) /\ runs[j].start \in Nat /\ runs[j].end \in Nat /\ runs[j].start < runs[j].end
      /\ \A j, l \in 1..n : j < l => runs[j].end < runs[l].start
  BY <1>1, ApartIs DEF Ordered
<1>3. /\ f.start = P[k].from /\ f.end = P[k].to /\ P[k].from \in Nat /\ P[k].to \in Nat
  BY PieceRun, CutFacts
<1>4. g.end = runs[i].end \/ (g.end = f.end /\ runs[i].end = f.start)
  BY <1>2, GrewRun
<1>5. ASSUME NEW j \in 1..n, j > i, g.end = f.end, runs[i].end = f.start PROVE g.end < runs[j].start
  <2>1. i + 1 \in 1..n /\ i < i + 1 /\ i < n
    BY <1>2, <1>5
  <2>2. P[k].from < runs[i + 1].start /\ IsSpan(P, runs[i + 1]) /\ runs[i + 1].start \in Nat /\ runs[i + 1].start < runs[i + 1].end
    BY <1>2, <1>3, <1>5, <2>1
  <2>3. runs[i + 1].start > P[k].from => P[k].to <= runs[i + 1].start
    BY <2>2, PieceAndRun
  <2>4. g.end < runs[i + 1].start
    BY <1>1, <1>3, <1>5, <2>1, <2>2, <2>3
  <2>5. CASE j = i + 1
    BY <2>4, <2>5
  <2>6. CASE i + 1 < j
    <3>1. runs[i + 1].end < runs[j].start /\ runs[i + 1].end \in Nat /\ runs[j].start \in Nat /\ g.end \in Nat
      BY <1>2, <1>3, <1>5, <2>1, <2>6
    <3> QED
      BY <2>2, <2>4, <3>1, SMTT(30)
  <2> QED
    BY <1>2, <1>5, <2>5, <2>6
<1>6. \A j \in 1..n : j > i => g.end < runs[j].start
  BY <1>2, <1>4, <1>5
<1> QED
  BY <1>1, <1>6

LEMMA WidenGains ==
  ASSUME NEW P, NEW p, Cut(P, p), NEW k \in 1..Len(P), NEW f, f = Span(P, k, k), NEW runs, Apart(P, runs),
         NEW i \in 1..Len(runs), NEW g, NEW t, Widened(f, runs, i, g, t)
  PROVE  Gained(P, runs, t, k)
<1>1. PICK n \in Nat : n = Len(runs)
  BY ApartIs
<1>2. i \in 1..n /\ runs \in Seq(RunSet) /\ IsSpan(P, runs[i]) /\ Grew(f, runs[i], g) /\ Clear(f, runs, i)
  BY <1>1, ApartIs DEF Widened
<1>3. IsSpan(P, g) /\ g \in RunSet /\ \A c \in 1..Len(P) : Covers(g, P[c]) <=> Covers(runs[i], P[c]) \/ c = k
  BY <1>2, GrewRun, RunIs
<1>4. SeqReplaced(RunSet, runs, i, g, t)
  BY <1>2, <1>3, ReplaceIs DEF Widened
<1>5. t \in Seq(RunSet) /\ Len(t) = n /\ t[i] = g /\ \A j \in 1..n : j # i => t[j] = runs[j]
  BY <1>1, <1>4 DEF SeqReplaced
<1>6. \A j \in 1..n : j < i => runs[j].end < g.start
  BY <1>1, <1>2, GrewAfter
<1>7. \A j \in 1..n : j > i => g.end < runs[j].start
  <2>1. i < Len(runs) => g.end # runs[i + 1].start
    BY DEF Widened
  <2> QED
    BY <1>1, <1>2, <2>1, GrewBefore
<1>8. (\A j \in 1..n : IsSpan(P, runs[j])) /\ \A j, l \in 1..n : j < l => runs[j].end < runs[l].start
  BY <1>1, ApartIs DEF Ordered
<1>9. \A j \in 1..n : IsSpan(P, t[j])
  BY <1>3, <1>5, <1>8
<1>10. ASSUME NEW j \in 1..n, NEW l \in 1..n, j < l PROVE t[j].end < t[l].start
  <2>1. CASE j = i
    BY <1>2, <1>5, <1>7, <1>10, <2>1
  <2>2. CASE l = i
    BY <1>2, <1>5, <1>6, <1>10, <2>2
  <2>3. CASE j # i /\ l # i
    BY <1>5, <1>8, <1>10, <2>3
  <2> QED
    BY <2>1, <2>2, <2>3
<1>11. ASSUME NEW c \in 1..Len(P) PROVE Covered(t, P[c]) <=> Covered(runs, P[c]) \/ c = k
  <2>1. Covered(t, P[c]) <=> \E j \in 1..n : Covers(t[j], P[c])
    BY <1>5 DEF Covered
  <2>2. Covered(runs, P[c]) <=> \E j \in 1..n : Covers(runs[j], P[c])
    BY <1>1 DEF Covered
  <2> QED
    BY <1>2, <1>3, <1>5, <2>1, <2>2
<1>12. Apart(P, t)
  BY <1>5, <1>9, <1>10, ApartIs DEF AllRuns, Ordered
<1> QED
  BY <1>11, <1>12 DEF Gained

LEMMA CloseGains ==
  ASSUME NEW P, NEW p, Cut(P, p), NEW k \in 1..Len(P), NEW f, f = Span(P, k, k), NEW runs, Apart(P, runs),
         NEW i \in 1..Len(runs), NEW g, NEW t, Closed(f, runs, i, g, t)
  PROVE  Gained(P, runs, t, k)
<1>1. PICK n \in Nat : n = Len(runs)
  BY ApartIs
<1>2. i \in 1..n /\ runs \in Seq(RunSet) /\ IsSpan(P, runs[i]) /\ Grew(f, runs[i], g) /\ Clear(f, runs, i) /\ i < n
  BY <1>1, ApartIs DEF Closed
<1>3. i + 1 \in 1..n
  BY <1>2
<1>4. IsSpan(P, g) /\ \A c \in 1..Len(P) : Covers(g, P[c]) <=> Covers(runs[i], P[c]) \/ c = k
  BY <1>2, GrewRun
<1>5. /\ \A j \in 1..n : IsSpan(P, runs[j])
      /\ \A j, l \in 1..n : j < l => runs[j].end < runs[l].start
  BY <1>1, ApartIs DEF Ordered
<1>6. PICK h : h = Joined(g, runs[i + 1])
  OBVIOUS
<1>7. /\ IsSpan(P, h) /\ h \in RunSet /\ h.start = g.start /\ h.end = runs[i + 1].end
      /\ \A c \in 1..Len(P) : Covers(h, P[c]) <=> Covers(runs[i], P[c]) \/ Covers(runs[i + 1], P[c]) \/ c = k
  <2>1. g.end = runs[i + 1].start /\ IsSpan(P, runs[i + 1])
    BY <1>3, <1>5 DEF Closed
  <2>2. /\ IsSpan(P, h) /\ h.start = g.start /\ h.end = runs[i + 1].end
        /\ \A c \in 1..Len(P) : Covers(h, P[c]) <=> Covers(g, P[c]) \/ Covers(runs[i + 1], P[c])
    BY <1>4, <1>6, <2>1, JoinRuns
  <2>3. h \in RunSet
    BY <2>2, RunIs
  <2> QED
    BY <1>4, <2>2, <2>3
<1>8. PICK s : s = ReplaceAt(runs, i, h)
  OBVIOUS
<1>9. s \in Seq(RunSet) /\ Len(s) = n /\ s[i] = h /\ \A j \in 1..n : j # i => s[j] = runs[j]
  <2>1. SeqReplaced(RunSet, runs, i, h, s)
    BY <1>2, <1>7, <1>8, ReplaceIs
  <2> QED
    BY <1>1, <2>1 DEF SeqReplaced
<1>10. /\ t \in Seq(RunSet) /\ Len(t) = n - 1
       /\ \A j \in 1..(n - 1) : (j < i + 1 => t[j] = s[j]) /\ (~(j < i + 1) => t[j] = s[j + 1])
  <2>1. i + 1 \in 1..Len(s) /\ t = RemoveAt(s, i + 1)
    BY <1>3, <1>6, <1>8, <1>9 DEF Closed
  <2>2. SeqRemoved(RunSet, s, i + 1, t)
    BY <1>9, <2>1, RemoveIs
  <2> QED
    BY <1>9, <2>2 DEF SeqRemoved
<1>11. t[i] = h /\ i \in 1..(n - 1)
  <2>1. i \in 1..(n - 1) /\ i < i + 1
    BY <1>2
  <2> QED
    BY <1>9, <1>10, <2>1
<1>12. ASSUME NEW j \in 1..(n - 1), j < i PROVE t[j] = runs[j] /\ j \in 1..n
  <2>1. j < i + 1 /\ j \in 1..n /\ j # i
    BY <1>2, <1>12
  <2> QED
    BY <1>9, <1>10, <2>1
<1>13. ASSUME NEW j \in 1..(n - 1), j > i PROVE t[j] = runs[j + 1] /\ j + 1 \in 1..n
  <2>1. ~(j < i + 1) /\ j + 1 \in 1..n /\ j + 1 # i
    BY <1>2, <1>13
  <2> QED
    BY <1>9, <1>10, <2>1
<1>14. \A j \in 1..n : j < i => runs[j].end < h.start
  BY <1>1, <1>2, <1>7, GrewAfter
<1>15. \A j \in 1..n : j > i + 1 => h.end < runs[j].start
  BY <1>2, <1>3, <1>5, <1>7
<1>16. ASSUME NEW j \in 1..(n - 1) PROVE IsSpan(P, t[j])
  <2>1. CASE j < i
    BY <1>5, <1>12, <2>1
  <2>2. CASE j > i
    BY <1>5, <1>13, <2>2
  <2>3. CASE j = i
    BY <1>7, <1>11, <2>3
  <2> QED
    BY <1>2, <2>1, <2>2, <2>3
<1>17. ASSUME NEW j \in 1..(n - 1), NEW l \in 1..(n - 1), j < l PROVE t[j].end < t[l].start
  <2>1. CASE l < i
    <3>1. j < i
      BY <1>2, <1>17, <2>1
    <3>2. t[j] = runs[j] /\ j \in 1..n /\ t[l] = runs[l] /\ l \in 1..n
      BY <1>12, <2>1, <3>1
    <3> QED
      BY <1>5, <1>17, <3>2
  <2>2. CASE l = i
    <3>1. j < i /\ t[j] = runs[j] /\ j \in 1..n /\ t[l] = h
      BY <1>11, <1>12, <1>17, <2>2
    <3> QED
      BY <1>14, <3>1
  <2>3. CASE l > i /\ j = i
    <3>1. t[l] = runs[l + 1] /\ l + 1 \in 1..n /\ t[j] = h /\ l + 1 > i + 1
      BY <1>2, <1>11, <1>13, <2>3
    <3> QED
      BY <1>15, <3>1
  <2>4. CASE l > i /\ j < i
    <3>1. t[l] = runs[l + 1] /\ l + 1 \in 1..n /\ t[j] = runs[j] /\ j \in 1..n /\ j < l + 1
      BY <1>2, <1>12, <1>13, <2>4
    <3> QED
      BY <1>5, <3>1
  <2>5. CASE j > i
    <3>1. l > i
      BY <1>2, <1>17, <2>5
    <3>2. t[l] = runs[l + 1] /\ l + 1 \in 1..n /\ t[j] = runs[j + 1] /\ j + 1 \in 1..n /\ j + 1 < l + 1
      BY <1>13, <1>17, <2>5, <3>1
    <3> QED
      BY <1>5, <3>2
  <2> QED
    BY <1>2, <1>17, <2>1, <2>2, <2>3, <2>4, <2>5
<1>18. ASSUME NEW c \in 1..Len(P) PROVE Covered(t, P[c]) <=> Covered(runs, P[c]) \/ c = k
  <2>1. ASSUME Covered(t, P[c]) PROVE Covered(runs, P[c]) \/ c = k
    <3>1. PICK j \in 1..(n - 1) : Covers(t[j], P[c])
      BY <1>10, <2>1 DEF Covered
    <3>2. CASE j < i
      BY <1>1, <1>12, <3>1, <3>2 DEF Covered
    <3>3. CASE j > i
      BY <1>1, <1>13, <3>1, <3>3 DEF Covered
    <3>4. CASE j = i
      BY <1>1, <1>2, <1>3, <1>7, <1>11, <3>1, <3>4 DEF Covered
    <3> QED
      BY <1>2, <3>2, <3>3, <3>4
  <2>2. ASSUME Covered(runs, P[c]) PROVE Covered(t, P[c])
    <3>1. PICK j \in 1..n : Covers(runs[j], P[c])
      BY <1>1, <2>2 DEF Covered
    <3>2. CASE j < i
      <4>1. j \in 1..(n - 1)
        BY <1>2, <3>2
      <4>2. t[j] = runs[j] /\ j \in 1..Len(t)
        BY <1>10, <1>12, <3>2, <4>1
      <4> QED
        BY <3>1, <4>2 DEF Covered
    <3>3. CASE j = i \/ j = i + 1
      <4>1. Covers(t[i], P[c]) /\ i \in 1..Len(t)
        BY <1>7, <1>10, <1>11, <3>1, <3>3
      <4> QED
        BY <4>1 DEF Covered
    <3>4. CASE j > i + 1
      <4>1. j - 1 \in 1..(n - 1) /\ j - 1 > i /\ (j - 1) + 1 = j
        BY <1>2, <3>4
      <4>2. t[j - 1] = runs[j] /\ j - 1 \in 1..Len(t)
        BY <1>10, <1>13, <4>1
      <4> QED
        BY <3>1, <4>2 DEF Covered
    <3> QED
      BY <1>2, <3>2, <3>3, <3>4
  <2>3. ASSUME c = k PROVE Covered(t, P[c])
    <3>1. i \in 1..Len(t) /\ Covers(t[i], P[c])
      BY <1>7, <1>10, <1>11, <2>3
    <3> QED
      BY <3>1 DEF Covered
  <2> QED
    BY <2>1, <2>2, <2>3
<1>19. Apart(P, t)
  BY <1>10, <1>16, <1>17, ApartIs DEF AllRuns, Ordered
<1> QED
  BY <1>18, <1>19 DEF Gained

(* A fragment joins the runs of its packet; one they do not cover yet is   *)
(* accepted.                                                               *)
LEMMA UpdateGains ==
  ASSUME NEW P, NEW p, Cut(P, p), NEW k \in 1..Len(P), NEW f, f = Span(P, k, k), NEW runs, Apart(P, runs)
  PROVE  /\ update(f, runs).ok => Gained(P, runs, update(f, runs).runs, k)
         /\ ~Covered(runs, P[k]) => update(f, runs).ok
<1>1. PICK r : r = update(f, runs)
  OBVIOUS
<1>2. f \in RunSet /\ runs \in Seq(RunSet) /\ f.start < f.end
  BY PieceRun, RunIs, ApartIs
<1>3. CASE r.ok = FALSE /\ \E i \in 1..Len(runs) : Refused(f, runs, i)
  BY <1>1, <1>3, NotRefused
<1>4. CASE r.ok = TRUE /\ Clear(f, runs, Len(runs) + 1) /\ r.runs = Append(runs, f)
  BY <1>1, <1>4, AppendGains
<1>5. CASE r.ok = TRUE /\ \E i \in 1..Len(runs) : Inserted(f, runs, i, r.runs)
  BY <1>1, <1>5, InsertGains
<1>6. CASE r.ok = TRUE /\ \E i \in 1..Len(runs) : \E g : Widened(f, runs, i, g, r.runs)
  BY <1>1, <1>6, WidenGains
<1>7. CASE r.ok = TRUE /\ \E i \in 1..Len(runs) : \E g : Closed(f, runs, i, g, r.runs)
  BY <1>1, <1>7, CloseGains
<1> QED
  BY <1>1, <1>2, <1>3, <1>4, <1>5, <1>6, <1>7, UpdateIs, Zenon

(* The runs of a packet cover all its pieces just when they are complete.  *)
LEMMA CompleteIs ==
  ASSUME NEW P, NEW p, Cut(P, p), NEW runs, Apart(P, runs), try_complete(runs)
  PROVE  runs[1].data = P /\ \A c \in 1..Len(P) : Covered(runs, P[c])
<1>1. 1 \in 1..Len(runs) /\ runs[1].start = 0 /\ runs[1].last
  BY DEF try_complete
<1>2. IsSpan(P, runs[1])
  BY <1>1, ApartIs
<1>3. PICK a \in 1..Len(P), b \in 1..Len(P) : a <= b /\ runs[1] = Span(P, a, b)
  BY <1>2 DEF IsSpan
<1>4. SpanWell(P, a, b, runs[1])
  BY <1>3, SpanIs
<1>5. PICK n \in Nat : n = Len(P) /\ n > 0 /\ P \in Seq(Piece)
  BY CutFacts
<1>6. b = n /\ P[a].from = 0 /\ runs[1].data = SubSeq(P, a, b)
  BY <1>1, <1>4, <1>5 DEF SpanWell
<1>7. a = 1
  <2>1. 1 \in 1..Len(P) /\ P[1].from = 0
    BY <1>5 DEF Cut
  <2>2. P[a].from <= P[1].from
    BY <1>6, <2>1
  <2>3. a <= 1
    BY <2>1, <2>2, PieceOrder
  <2>4. a \in 1..n
    BY <1>5
  <2> QED
    BY <2>3, <2>4
<1>8. runs[1].data = P
  BY <1>5, <1>6, <1>7, SubSeqFull
<1>9. ASSUME NEW c \in 1..Len(P) PROVE Covered(runs, P[c])
  <2>1. c \in 1..n
    BY <1>5
  <2>2. a <= c /\ c <= b
    BY <1>6, <1>7, <2>1
  <2>3. Covers(runs[1], P[c])
    BY <1>3, <2>2, SpanCovers
  <2> QED
    BY <1>1, <2>3 DEF Covered
<1> QED
  BY <1>8, <1>9

LEMMA CoveredComplete ==
  ASSUME NEW P, NEW p, Cut(P, p), NEW runs, Apart(P, runs), \A c \in 1..Len(P) : Covered(runs, P[c])
  PROVE  try_complete(runs)
<1>1. PICK n \in Nat : n = Len(P) /\ n > 0
  BY CutFacts
<1>2. PICK m \in Nat : m = Len(runs)
  BY ApartIs
<1>3. /\ \A i \in 1..m : IsSpan(P, runs[i]) /\ runs[i].start \in Nat /\ runs[i].end \in Nat /\ runs[i].start < runs[i].end
      /\ \A i, j \in 1..m : i < j => runs[i].end < runs[j].start
  BY <1>2, ApartIs DEF Ordered
<1>4. 1 \in 1..Len(P) /\ P[1].from = 0 /\ 1 \in 1..n
  BY <1>1 DEF Cut
<1>5. PICK i \in 1..m : Covers(runs[i], P[1])
  BY <1>2, <1>4 DEF Covered
<1>6. PICK a \in 1..Len(P), b \in 1..Len(P) : a <= b /\ runs[i] = Span(P, a, b)
  BY <1>3 DEF IsSpan
<1>7. a \in 1..n /\ b \in 1..n
  BY <1>1
<1>8. SpanWell(P, a, b, runs[i])
  BY <1>6, SpanIs
<1>9. a = 1
  <2>1. a <= 1
    BY <1>4, <1>5, <1>6, SpanCovers
  <2> QED
    BY <1>7, <2>1
<1>10. runs[i].start = 0 /\ runs[i].end = P[b].to
  BY <1>4, <1>8, <1>9 DEF SpanWell
<1>11. ASSUME NEW j \in 1..m, j < i PROVE FALSE
  <2>1. runs[j].end < runs[i].start /\ runs[j].end \in Nat
    BY <1>3, <1>11
  <2> QED
    BY <1>10, <2>1
<1>12. ASSUME NEW j \in 1..m, NEW c \in 1..Len(P), Covers(runs[j], P[c]), c > b PROVE c > b + 1
  <2>1. PICK d \in 1..Len(P), e \in 1..Len(P) : d <= e /\ runs[j] = Span(P, d, e)
    BY <1>3 DEF IsSpan
  <2>2. SpanWell(P, d, e, runs[j])
    BY <2>1, SpanIs
  <2>3. d <= c /\ c <= e
    BY <1>12, <2>1, SpanCovers
  <2>4. c \in 1..n /\ d \in 1..n /\ e \in 1..n
    BY <1>1
  <2>5. j # i
    <3>1. ASSUME j = i PROVE FALSE
      <4>1. Covers(Span(P, a, b), P[c])
        BY <1>6, <1>12, <3>1
      <4>2. c <= b
        BY <1>6, <4>1, SpanCovers
      <4> QED
        BY <1>7, <1>12, <2>4, <4>2
    <3> QED
      BY <3>1
  <2>6. i < j
    BY <1>11, <2>5
  <2>7. P[b].to < P[d].from
    BY <1>3, <1>10, <2>2, <2>6 DEF SpanWell
  <2>8. b + 1 < d
    BY <2>7, PieceOrder
  <2> QED
    BY <1>7, <2>3, <2>4, <2>8
<1>13. b = n
  <2> SUFFICES ASSUME b # n PROVE FALSE
    OBVIOUS
  <2>1. b + 1 \in 1..Len(P) /\ b + 1 > b /\ ~(b + 1 > b + 1)
    BY <1>1, <1>7
  <2>2. PICK j \in 1..m : Covers(runs[j], P[b + 1])
    BY <1>2, <2>1 DEF Covered
  <2> QED
    BY <1>12, <2>1, <2>2
<1>14. ASSUME NEW j \in 1..m PROVE j = i
  <2>1. PICK d \in 1..Len(P), e \in 1..Len(P) : d <= e /\ runs[j] = Span(P, d, e)
    BY <1>3 DEF IsSpan
  <2>2. SpanWell(P, d, e, runs[j])
    BY <2>1, SpanIs
  <2>3. d \in 1..n
    BY <1>1
  <2>4. ASSUME i < j PROVE FALSE
    <3>1. P[b].to < P[d].from
      BY <1>3, <1>10, <2>2, <2>4 DEF SpanWell
    <3>2. b + 1 < d
      BY <3>1, PieceOrder
    <3> QED
      BY <1>13, <2>3, <3>2
  <2> QED
    BY <1>11, <2>4
<1>15. m = 1 /\ i = 1
  <2>1. 1 \in 1..m /\ m \in 1..m
    BY <1>5
  <2>2. 1 = i /\ m = i
    BY <1>14, <2>1
  <2> QED
    BY <2>2
<1>16. runs[i].last
  BY <1>1, <1>8, <1>13 DEF SpanWell
<1> QED
  BY <1>2, <1>10, <1>15, <1>16 DEF try_complete

(* A packet rebuilt of tiled runs is tiled from its first byte to its last. *)
Tiles(d, ps) ==
  d # <<>> =>
    /\ d[1].from = 0
    /\ \A i \in 1..(Len(d) - 1) : d[i + 1].from = d[i].to /\ d[i + 1].id = d[i].id
    /\ \E p \in DOMAIN ps : Last(d) = Last(ps[p])

LEMMA CompleteTiles ==
  ASSUME NEW id, NEW ps \in Seq(Seq(Piece)), NEW runs, AllTiled(runs, id, ps), try_complete(runs)
  PROVE  Tiles(runs[1].data, ps) /\ runs[1].data # <<>>
<1>1. 1 \in 1..Len(runs) /\ runs[1].start = 0 /\ runs[1].last
  BY DEF try_complete
<1>2. PICK r : r = runs[1] /\ Tiled(r, id, ps)
  BY <1>1 DEF AllTiled
<1>3. r.data \in Seq(Piece)
  BY <1>2 DEF Tiled, RunSet
<1>4. PICK n \in Nat : n = Len(r.data)
  BY <1>3, SeqIs
<1>5. n > 0 /\ r.data # <<>>
  BY <1>2, <1>4 DEF Tiled
<1>6. r.data[1].from = 0
  BY <1>1, <1>2 DEF Tiled
<1>7. ASSUME NEW i \in 1..(n - 1) PROVE r.data[i + 1].from = r.data[i].to /\ r.data[i + 1].id = r.data[i].id
  <2>1. i \in 1..n /\ i + 1 \in 1..n
    BY <1>5
  <2>2. /\ \A j, k \in 1..n : k = j + 1 => r.data[k].from = r.data[j].to
        /\ \A j \in 1..n : r.data[j].id = id
    BY <1>2, <1>4 DEF Tiled
  <2> QED
    BY <2>1, <2>2
<1>8. \E p \in DOMAIN ps : Last(r.data) = Last(ps[p])
  <2>1. PICK p \in 1..Len(ps) : r.data[Len(r.data)] = ps[p][Len(ps[p])]
    BY <1>1, <1>2 DEF Tiled
  <2>2. p \in DOMAIN ps
    BY SeqIs
  <2> QED
    BY <2>1, <2>2 DEF Last
<1> QED
  BY <1>2, <1>4, <1>5, <1>6, <1>7, <1>8 DEF Tiles

LEMMA UpdateHolds ==
  ASSUME NEW f \in RunSet, NEW runs \in Seq(RunSet), f.start < f.end, update(f, runs).ok
  PROVE  update(f, runs).runs # <<>>
<1>1. PICK r : r = update(f, runs) /\ r.ok
  OBVIOUS
<1>2. PICK n \in Nat : n = Len(runs)
  BY SeqIs
<1>3. CASE Clear(f, runs, Len(runs) + 1) /\ r.runs = Append(runs, f)
  BY <1>1, <1>3, AppendProperties
<1>4. CASE \E i \in 1..Len(runs) : Inserted(f, runs, i, r.runs)
  <2>1. PICK i \in 1..Len(runs) : r.runs = InsertAt(runs, i, f)
    BY <1>4 DEF Inserted
  <2>2. SeqInserted(RunSet, runs, i, f, r.runs)
    BY <2>1, InsertIs
  <2>3. Len(r.runs) = n + 1 /\ n + 1 # 0
    BY <1>2, <2>2 DEF SeqInserted
  <2> QED
    BY <1>1, <2>3, EmptySeq
<1>5. CASE \E i \in 1..Len(runs) : \E g : Widened(f, runs, i, g, r.runs)
  <2>1. PICK i \in 1..Len(runs) : \E g : r.runs = ReplaceAt(runs, i, g)
    BY <1>5 DEF Widened
  <2>2. i \in 1..n /\ i \in DOMAIN runs /\ DOMAIN r.runs = DOMAIN runs
    BY <1>2, <2>1, SeqIs DEF ReplaceAt
  <2>3. DOMAIN <<>> = {}
    OBVIOUS
  <2> QED
    BY <1>1, <2>2, <2>3
<1>6. CASE \E i \in 1..Len(runs) : \E g : Closed(f, runs, i, g, r.runs)
  <2>0. PICK i \in 1..Len(runs) : \E g : Closed(f, runs, i, g, r.runs)
    BY <1>6
  <2>1. PICK g : Closed(f, runs, i, g, r.runs)
    BY <2>0
  <2>2. i \in 1..n /\ i < n /\ i + 1 \in 1..n
    BY <1>2, <2>1 DEF Closed
  <2>3. runs[i] \in RunSet /\ runs[i + 1] \in RunSet
    BY <1>2, <2>2, SeqIs
  <2>4. g \in RunSet
    BY <2>1, <2>3, JoinedIs DEF Closed, Grew
  <2>5. Joined(g, runs[i + 1]) \in RunSet
    BY <2>3, <2>4, JoinedIs
  <2>6. PICK s : s = ReplaceAt(runs, i, Joined(g, runs[i + 1]))
    OBVIOUS
  <2>7. SeqReplaced(RunSet, runs, i, Joined(g, runs[i + 1]), s)
    BY <2>5, <2>6, ReplaceIs
  <2>8. s \in Seq(RunSet) /\ Len(s) = n
    BY <1>2, <2>7 DEF SeqReplaced
  <2>9. SeqRemoved(RunSet, s, i + 1, r.runs)
    BY <2>1, <2>2, <2>6, <2>8, RemoveIs DEF Closed
  <2>10. Len(r.runs) = n - 1 /\ n - 1 # 0
    BY <2>2, <2>8, <2>9 DEF SeqRemoved
  <2> QED
    BY <1>1, <2>10, EmptySeq
<1>7. r.ok # FALSE
  BY <1>1
<1> QED
  BY <1>1, <1>3, <1>4, <1>5, <1>6, <1>7, UpdateIs

(* The map without the entry of an id.                                     *)
Thinned(m, id, t) ==
  /\ t \in Seq(Entry) /\ OneEach(t)
  /\ \A i \in 1..Len(t) : t[i].id # id /\ \E j \in 1..Len(m) : t[i] = m[j]
Kept(m, id, t) == \A j \in 1..Len(m) : m[j].id # id => \E i \in 1..Len(t) : t[i] = m[j]

LEMMA PlaceIs ==
  ASSUME NEW id, lru \in Seq(Entry), Holds(id)
  PROVE  Place(id) \in 1..Len(lru) /\ lru[Place(id)].id = id
<1>1. DOMAIN lru = 1..Len(lru)
  BY SeqIs
<1>2. \E i \in DOMAIN lru : lru[i].id = id
  BY DEF Holds
<1>3. Place(id) \in DOMAIN lru /\ lru[Place(id)].id = id
  BY <1>2 DEF Place
<1> QED
  BY <1>1, <1>3

LEMMA WithoutIs ==
  ASSUME NEW id, lru \in Seq(Entry), OneEach(lru)
  PROVE  /\ Thinned(lru, id, Without(id)) /\ Kept(lru, id, Without(id))
         /\ Len(Without(id)) <= Len(lru) /\ (Holds(id) => Len(Without(id)) < Len(lru))
<1>1. PICK n \in Nat : n = Len(lru) /\ DOMAIN lru = 1..n
  BY SeqIs
<1>2. CASE ~Holds(id)
  <2>1. Without(id) = lru
    BY <1>2 DEF Without
  <2>2. \A j \in 1..n : lru[j].id # id
    BY <1>1, <1>2 DEF Holds
  <2> QED
    BY <1>1, <1>2, <2>1, <2>2 DEF Thinned, Kept
<1>3. CASE Holds(id)
  <2>1. PICK k \in 1..n : k = Place(id) /\ lru[k].id = id
    BY <1>1, <1>3, PlaceIs
  <2>2. PICK t : t = Without(id)
    OBVIOUS
  <2>3. SeqRemoved(Entry, lru, k, t)
    <3>1. t = RemoveAt(lru, k) /\ k \in 1..Len(lru)
      BY <1>1, <1>3, <2>1, <2>2 DEF Without
    <3> QED
      BY <3>1, RemoveIs
  <2>4. /\ t \in Seq(Entry) /\ Len(t) = n - 1
        /\ \A i \in 1..(n - 1) : (i < k => t[i] = lru[i]) /\ (~(i < k) => t[i] = lru[i + 1])
    BY <1>1, <2>3 DEF SeqRemoved
  <2>5. \A i, j \in 1..n : lru[i].id = lru[j].id => i = j
    BY <1>1 DEF OneEach
  <2>6. ASSUME NEW i \in 1..(n - 1)
        PROVE  \E j \in 1..n : t[i] = lru[j] /\ j # k /\ (i < k => j = i) /\ (~(i < k) => j = i + 1)
    <3>1. CASE i < k
      <4>1. i \in 1..n /\ i # k
        BY <2>1, <3>1
      <4> QED
        BY <2>4, <3>1, <4>1
    <3>2. CASE ~(i < k)
      <4>1. i + 1 \in 1..n /\ i + 1 # k
        BY <2>1, <3>2
      <4> QED
        BY <2>4, <3>2, <4>1
    <3> QED
      BY <3>1, <3>2
  <2>7. ASSUME NEW i \in 1..(n - 1) PROVE t[i].id # id /\ \E j \in 1..n : t[i] = lru[j]
    <3>1. PICK j \in 1..n : t[i] = lru[j] /\ j # k
      BY <2>6
    <3> QED
      BY <2>1, <2>5, <3>1
  <2>8. ASSUME NEW i \in 1..(n - 1), NEW j \in 1..(n - 1), t[i].id = t[j].id PROVE i = j
    <3>1. PICK a \in 1..n : t[i] = lru[a] /\ (i < k => a = i) /\ (~(i < k) => a = i + 1)
      BY <2>6
    <3>2. PICK b \in 1..n : t[j] = lru[b] /\ (j < k => b = j) /\ (~(j < k) => b = j + 1)
      BY <2>6
    <3>3. a = b
      BY <2>5, <2>8, <3>1, <3>2
    <3>4. (i < k => a = i) /\ (~(i < k) => a = i + 1)
      BY <3>1
    <3>5. (j < k => b = j) /\ (~(j < k) => b = j + 1)
      BY <3>2
    <3> QED
      BY <3>3, <3>4, <3>5
  <2>9. ASSUME NEW j \in 1..n, lru[j].id # id PROVE \E i \in 1..(n - 1) : t[i] = lru[j]
    <3>1. j # k
      BY <2>1, <2>9
    <3>2. CASE j < k
      <4>1. j \in 1..(n - 1)
        BY <2>1, <3>2
      <4> QED
        BY <2>4, <3>2, <4>1
    <3>3. CASE j > k
      <4>1. j - 1 \in 1..(n - 1) /\ ~(j - 1 < k) /\ (j - 1) + 1 = j
        BY <2>1, <3>3
      <4> QED
        BY <2>4, <4>1
    <3> QED
      BY <2>1, <3>1, <3>2, <3>3
  <2>10. Thinned(lru, id, t)
    BY <1>1, <2>4, <2>7, <2>8 DEF Thinned, OneEach
  <2>11. Kept(lru, id, t)
    BY <1>1, <2>4, <2>9 DEF Kept
  <2>12. Len(t) <= Len(lru) /\ Len(t) < Len(lru)
    BY <1>1, <2>4
  <2> QED
    BY <2>2, <2>10, <2>11, <2>12
<1> QED
  BY <1>2, <1>3

(* get_or_insert_mut leaves room for one entry more.                       *)
LEMMA EvictedIs ==
  ASSUME NEW id, lru \in Seq(Entry), OneEach(lru), Len(lru) <= setting.capacity, setting.capacity \in Nat \ {0}
  PROVE  /\ Thinned(lru, id, Evicted(id)) /\ Len(Evicted(id)) + 1 <= setting.capacity
         /\ Len(Without(id)) < setting.capacity => Kept(lru, id, Evicted(id))
<1>1. PICK t : t = Without(id)
  OBVIOUS
<1>2. Thinned(lru, id, t) /\ Kept(lru, id, t) /\ Len(t) <= Len(lru)
  BY <1>1, WithoutIs
<1>3. PICK n \in Nat, c \in Nat : n = Len(t) /\ c = setting.capacity /\ c > 0
  BY <1>2, SeqIs DEF Thinned
<1>4. n <= c
  <2>1. Len(lru) \in Nat
    BY SeqIs
  <2> QED
    BY <1>2, <1>3, <2>1
<1>5. CASE n < c
  <2>1. Evicted(id) = t
    BY <1>1, <1>3, <1>5 DEF Evicted
  <2>2. n + 1 <= c
    BY <1>5
  <2> QED
    BY <1>2, <1>3, <2>1, <2>2
<1>6. CASE n = c
  <2>1. Evicted(id) = Tail(t) /\ ~(Len(t) < setting.capacity)
    BY <1>1, <1>3, <1>6 DEF Evicted
  <2>2. PICK s : s = Tail(t)
    OBVIOUS
  <2>3. n > 0 /\ t \in Seq(Entry)
    BY <1>2, <1>3, <1>6 DEF Thinned
  <2>4. s \in Seq(Entry) /\ Len(s) = n - 1 /\ \A i \in 1..(n - 1) : s[i] = t[i + 1]
    BY <1>3, <2>2, <2>3, TailIs
  <2>5. \A i \in 1..(n - 1) : i + 1 \in 1..n
    BY <2>3
  <2>6. /\ \A i, j \in 1..n : t[i].id = t[j].id => i = j
        /\ \A i \in 1..n : t[i].id # id /\ \E j \in 1..Len(lru) : t[i] = lru[j]
    BY <1>2, <1>3 DEF Thinned, OneEach
  <2>7. ASSUME NEW i \in 1..(n - 1), NEW j \in 1..(n - 1), s[i].id = s[j].id PROVE i = j
    <3>1. i + 1 \in 1..n /\ j + 1 \in 1..n /\ t[i + 1].id = t[j + 1].id
      BY <2>4, <2>5, <2>7
    <3>2. i + 1 = j + 1
      BY <2>6, <3>1
    <3> QED
      BY <3>2
  <2>8. ASSUME NEW i \in 1..(n - 1) PROVE s[i].id # id /\ \E j \in 1..Len(lru) : s[i] = lru[j]
    <3>1. s[i] = t[i + 1] /\ i + 1 \in 1..n
      BY <2>4, <2>5
    <3> QED
      BY <2>6, <3>1
  <2>9. Thinned(lru, id, s)
    BY <2>4, <2>7, <2>8 DEF Thinned, OneEach
  <2>10. Len(s) + 1 <= c
    BY <1>6, <2>4
  <2> QED
    BY <1>1, <1>3, <2>1, <2>2, <2>9, <2>10
<1> QED
  BY <1>3, <1>4, <1>5, <1>6

(* Sending a packet: the old ones, and what is known of them, stay.        *)
Longer(ps, qs) == Len(qs) = Len(ps) + 1 /\ \A p \in 1..Len(ps) : qs[p] = ps[p]

LEMMA SettingIs ==
  ASSUME setting \in [ids : IdSpaces, capacity : Capacities, dups : Duplicates]
  PROVE  setting.ids \in Nat \ {0} /\ setting.capacity \in Nat \ {0}
BY FragBounds

LEMMA NextId ==
  ASSUME NEW n \in Nat \ {0}, NEW c \in 0..(n - 1)
  PROVE  /\ (c + 1) % n \in 0..(n - 1)
         /\ c + 1 < n => (c + 1) % n = c + 1
         /\ c + 1 = n => (c + 1) % n = 0
OBVIOUS

LEMMA IdsDiffer ==
  ASSUME NEW n \in Nat \ {0}, NEW p \in 1..n, NEW q \in 1..n, IdOf(p, n) = IdOf(q, n)
  PROVE  p = q
BY DEF IdOf

LEMMA LongerKeeps ==
  ASSUME NEW ps, NEW qs, Len(ps) \in Nat, Longer(ps, qs)
  PROVE  /\ \A r, id : Tiled(r, id, ps) => Tiled(r, id, qs)
         /\ \A m, s : MapWell(m, ps, s) => MapWell(m, qs, s)
         /\ \A f : Flown(f, ps) => Flown(f, qs)
         /\ \A m : Unmixed(m, ps) => Unmixed(m, qs)
<1>1. PICK n \in Nat : n = Len(ps)
  OBVIOUS
<1>2. Len(qs) = n + 1 /\ (\A p \in 1..n : qs[p] = ps[p]) /\ \A p \in 1..n : p \in 1..(n + 1)
  BY <1>1 DEF Longer
<1>3. ASSUME NEW r, NEW id, Tiled(r, id, ps) PROVE Tiled(r, id, qs)
  <2>1. r.last => \E p \in 1..Len(qs) : r.data[Len(r.data)] = qs[p][Len(qs[p])]
    BY <1>1, <1>2, <1>3 DEF Tiled
  <2> QED
    BY <1>3, <2>1 DEF Tiled
<1>4. ASSUME NEW m, NEW s, MapWell(m, ps, s) PROVE MapWell(m, qs, s)
  <2>1. ASSUME NEW i \in 1..Len(m) PROVE EntryWell(m[i], qs, s)
    <3>1. EntryWell(m[i], ps, s)
      BY <1>4 DEF MapWell
    <3>2. AllTiled(m[i].frags, m[i].id, qs)
      BY <1>3, <3>1 DEF EntryWell, AllTiled
    <3> QED
      BY <3>1, <3>2 DEF EntryWell
  <2> QED
    BY <1>4, <2>1 DEF MapWell
<1>5. ASSUME NEW f, Flown(f, ps) PROVE Flown(f, qs)
  <2>1. PICK p \in 1..n : \E k \in 1..Len(ps[p]) : f = Span(ps[p], k, k)
    BY <1>1, <1>5 DEF Flown
  <2>2. p \in 1..Len(qs) /\ qs[p] = ps[p]
    BY <1>2
  <2> QED
    BY <2>1, <2>2 DEF Flown
<1>6. ASSUME NEW m, Unmixed(m, ps) PROVE Unmixed(m, qs)
  <2>1. ASSUME NEW i \in 1..Len(m) PROVE Belongs(m[i], qs)
    <3>1. PICK p \in 1..n : ps[p][1].id = m[i].id /\ Apart(ps[p], m[i].frags)
      BY <1>1, <1>6 DEF Unmixed, Belongs
    <3>2. p \in 1..Len(qs) /\ qs[p] = ps[p]
      BY <1>2
    <3> QED
      BY <3>1, <3>2 DEF Belongs
  <2> QED
    BY <2>1 DEF Unmixed
<1> QED
  BY <1>3, <1>4, <1>5, <1>6

(* The new packet's fragments are under way, and none is in the map.       *)
SentNext(ps, qs, fl, gl, m, d, c, n) ==
  /\ SentWell(ps, n) /\ SentWell(qs, n) /\ Longer(ps, qs) /\ Len(qs) <= n /\ d \subseteq 1..Len(ps)
  /\ gl = fl \cup {Span(qs[Len(qs)], k, k) : k \in 1..Len(qs[Len(qs)])}
  /\ Numbered(qs, c, n) /\ Unmixed(m, ps) /\ Arrival(ps, fl, m, d)

LEMMA ArrivalSent ==
  ASSUME NEW ps, NEW qs, NEW fl, NEW gl, NEW m, NEW d, NEW c, NEW n \in Nat \ {0},
         SentNext(ps, qs, fl, gl, m, d, c, n)
  PROVE  Arrival(qs, gl, m, d)
<1>a. /\ SentWell(ps, n) /\ SentWell(qs, n) /\ Longer(ps, qs) /\ Len(qs) <= n /\ d \subseteq 1..Len(ps)
      /\ Numbered(qs, c, n) /\ Unmixed(m, ps) /\ Arrival(ps, fl, m, d)
  BY DEF SentNext
<1>b. PICK P : P = qs[Len(qs)]
  OBVIOUS
<1>c. gl = fl \cup {Span(P, k, k) : k \in 1..Len(P)}
  BY <1>b DEF SentNext
<1>1. PICK l \in Nat : l = Len(ps)
  BY <1>a, SeqIs DEF SentWell
<1>2. Len(qs) = l + 1 /\ (\A p \in 1..l : qs[p] = ps[p]) /\ l + 1 \in 1..(l + 1) /\ \A p \in 1..l : p \in 1..(l + 1) /\ p # l + 1
  BY <1>a, <1>1 DEF Longer
<1>3. \A p \in 1..(l + 1) : Cut(qs[p], p)
  BY <1>a, <1>2 DEF SentWell
<1>4. Cut(P, l + 1)
  BY <1>b, <1>2, <1>3
<1>5. ASSUME NEW p \in 1..l PROVE IF p \in d THEN Finished(qs[p], gl, m) ELSE Awaited(qs[p], gl, m)
  <2>1. PICK Q : Q = qs[p] /\ Q = ps[p] /\ Cut(Q, p)
    BY <1>2, <1>3
  <2>2. ASSUME NEW k \in 1..Len(Q) PROVE Span(Q, k, k) \in gl <=> Span(Q, k, k) \in fl
    <3>1. ASSUME NEW j \in 1..Len(P), Span(Q, k, k) = Span(P, j, j) PROVE FALSE
      <4>1. p = l + 1
        BY <1>4, <2>1, <3>1, PiecesDiffer
      <4> QED
        BY <1>2, <4>1
    <3> QED
      BY <1>c, <3>1
  <2>3. IF p \in d THEN Finished(Q, fl, m) ELSE Awaited(Q, fl, m)
    BY <1>a, <1>1, <2>1 DEF Arrival
  <2> QED
    BY <2>1, <2>2, <2>3 DEF Finished, Awaited
<1>6. l + 1 \notin d
  BY <1>a, <1>1
<1>7. Awaited(P, gl, m)
  <2>1. ASSUME NEW i \in 1..Len(m), m[i].id = P[1].id PROVE FALSE
    <3>1. PICK q \in 1..l : ps[q][1].id = m[i].id
      BY <1>a, <1>1 DEF Unmixed, Belongs
    <3>2. qs[q][1].id = IdOf(q, n) /\ P[1].id = IdOf(l + 1, n)
      BY <1>a, <1>b, <1>2 DEF Numbered
    <3>3. IdOf(q, n) = IdOf(l + 1, n)
      BY <1>2, <2>1, <3>1, <3>2
    <3>4. q \in 1..n /\ l + 1 \in 1..n /\ q # l + 1
      BY <1>a, <1>2
    <3> QED
      BY <3>3, <3>4, IdsDiffer
  <2> QED
    BY <1>c, <2>1 DEF Awaited, InMap
<1>8. \A p \in 1..(l + 1) : p \in 1..l \/ p = l + 1
  OBVIOUS
<1> QED
  BY <1>b, <1>2, <1>5, <1>6, <1>7, <1>8 DEF Arrival

LEMMA FragSend ==
  ASSUME FragInv, NEW size \in PacketSizes, NEW plpmtu \in Plpmtus, SendFragmented(size, plpmtu)
  PROVE  FragInv'
<1>1. /\ FragTyped /\ SentWell(packets, setting.ids) /\ (\A f \in flying : Flown(f, packets))
      /\ MapWell(lru, packets, setting)
  BY DEF FragInv
<1>2. PICK n \in Nat \ {0} : n = setting.ids
  BY <1>1, SettingIs DEF FragTyped
<1>3. PICK l \in Nat : l = Len(packets) /\ packets \in Seq(Seq(Piece))
  BY <1>1, SeqIs DEF SentWell
<1>4. PICK id : id = next_fragment_id
  OBVIOUS
<1>5. counter \in 0..(n - 1) /\ id = (counter + 1) % n
  BY <1>1, <1>2, <1>4 DEF FragTyped, next_fragment_id
<1>6. id \in 0..(n - 1) /\ id \in Nat
  BY <1>5, NextId
<1>7. PICK frags : frags = Fragments(id, l + 1, size, maximum_packet_size_for_plpmtu(plpmtu))
  OBVIOUS
<1>8. PICK P : P = [i \in DOMAIN frags |-> frags[i].data[1]]
  OBVIOUS
<1>9. /\ l < MaxPackets /\ counter' = id /\ packets' = Append(packets, P) /\ flying' = flying \cup ToSet(frags)
      /\ rebuilt' = <<>> /\ lru' = lru /\ done' = done /\ setting' = setting
  BY <1>3, <1>4, <1>7, <1>8 DEF SendFragmented
<1>10. /\ Cut(P, l + 1) /\ P[1].id = id /\ ToSet(frags) = {Span(P, k, k) : k \in 1..Len(P)}
  <2>1. size \in PacketLengths /\ plpmtu \in Nat /\ plpmtu >= 15
    BY FragBounds
  <2>2. PICK q \in Nat : q = l + 1
    OBVIOUS
  <2>3. frags = Fragments(id, q, size, maximum_packet_size_for_plpmtu(plpmtu))
    BY <1>7, <2>2
  <2>4. FragmentsCut(frags, P, id, q)
    <3>1. size \in Nat
      BY <2>1, LengthIs
    <3> QED
      BY <1>6, <1>8, <2>1, <2>3, <3>1, FragmentsAre, Zenon
  <2> QED
    BY <2>2, <2>4 DEF FragmentsCut
<1>11. P \in Seq(Piece)
  BY <1>10 DEF Cut
<1>12. PICK qs : qs = packets'
  OBVIOUS
<1>13. qs \in Seq(Seq(Piece)) /\ Len(qs) = l + 1 /\ qs[l + 1] = P /\ \A p \in 1..l : qs[p] = packets[p]
  BY <1>3, <1>9, <1>11, <1>12, AppendIs
<1>14. Longer(packets, qs)
  BY <1>3, <1>13 DEF Longer
<1>15. FragTyped'
  <2>1. Len(packets') <= MaxPackets
    BY <1>9, <1>12, <1>13, FragBounds
  <2>2. done' \subseteq 1..Len(packets')
    <3>1. \A p \in 1..l : p \in 1..(l + 1)
      OBVIOUS
    <3> QED
      BY <1>1, <1>3, <1>9, <1>12, <1>13, <3>1 DEF FragTyped
  <2> QED
    BY <1>1, <1>2, <1>6, <1>9, <2>1, <2>2 DEF FragTyped
<1>16. SentWell(qs, n)
  <2>1. ASSUME NEW p \in 1..(l + 1) PROVE Cut(qs[p], p) /\ qs[p][1].id \in 0..(n - 1)
    <3>1. CASE p \in 1..l
      BY <1>1, <1>2, <1>3, <1>13, <3>1 DEF SentWell
    <3>2. CASE p = l + 1
      BY <1>6, <1>10, <1>13, <3>2
    <3>3. p \in 1..l \/ p = l + 1
      OBVIOUS
    <3> QED
      BY <3>1, <3>2, <3>3
  <2> QED
    BY <1>13, <2>1 DEF SentWell
<1>17. \A f \in flying' : Flown(f, qs)
  <2>1. \A f \in flying : Flown(f, qs)
    BY <1>1, <1>3, <1>14, LongerKeeps
  <2>2. l + 1 \in 1..Len(qs)
    BY <1>13
  <2>3. \A k \in 1..Len(P) : Flown(Span(P, k, k), qs)
    BY <1>13, <2>2 DEF Flown
  <2> QED
    BY <1>9, <1>10, <2>1, <2>3
<1>18. MapWell(lru, qs, setting)
  BY <1>1, <1>3, <1>14, LongerKeeps
<1>19. ASSUME l + 1 <= n PROVE Numbered(qs, id, n) /\ Unmixed(lru, qs) /\ Unmixed(lru, packets)
  <2>1. Numbered(packets, counter, n) /\ Unmixed(lru, packets)
    <3>1. Len(packets) <= setting.ids
      BY <1>2, <1>3, <1>19
    <3> QED
      BY <1>2, <3>1 DEF FragInv, NotComeRound
  <2>2. counter = l
    BY <1>3, <1>19, <2>1 DEF Numbered, IdOf
  <2>3. id = IdOf(l + 1, n)
    <3>1. CASE l + 1 < n
      BY <1>5, <2>2, <3>1, NextId DEF IdOf
    <3>2. CASE l + 1 = n
      BY <1>5, <2>2, <3>2, NextId DEF IdOf
    <3> QED
      BY <1>19, <3>1, <3>2
  <2>4. ASSUME NEW p \in 1..(l + 1) PROVE qs[p][1].id = IdOf(p, n)
    <3>1. CASE p \in 1..l
      BY <1>3, <1>13, <2>1, <3>1 DEF Numbered
    <3>2. CASE p = l + 1
      BY <1>10, <1>13, <2>3, <3>2
    <3>3. p \in 1..l \/ p = l + 1
      OBVIOUS
    <3> QED
      BY <3>1, <3>2, <3>3
  <2>5. Numbered(qs, id, n)
    BY <1>13, <2>3, <2>4 DEF Numbered
  <2> QED
    BY <1>3, <1>14, <2>1, <2>5, LongerKeeps
<1>20. ASSUME Quiet(qs, setting) PROVE Arrival(qs, flying', lru, done)
  <2>1. l + 1 <= n /\ Quiet(packets, setting)
    <3>1. ~setting.dups /\ l + 1 <= setting.capacity /\ l + 1 <= n
      BY <1>2, <1>13, <1>20 DEF Quiet
    <3>2. setting.capacity \in Nat
      BY <1>1, SettingIs DEF FragTyped
    <3>3. l <= setting.capacity /\ l <= n
      BY <3>1, <3>2
    <3> QED
      BY <1>2, <1>3, <3>1, <3>3 DEF Quiet
  <2>2. Arrival(packets, flying, lru, done)
    BY <2>1 DEF FragInv
  <2>3. Numbered(qs, id, n) /\ Unmixed(lru, packets)
    BY <1>19, <2>1
  <2>4. P = qs[Len(qs)] /\ flying' = flying \cup {Span(P, k, k) : k \in 1..Len(P)} /\ Len(qs) <= n
    BY <1>9, <1>10, <1>13, <2>1
  <2>5. done \subseteq 1..Len(packets) /\ SentWell(packets, n)
    BY <1>1, <1>2 DEF FragTyped
  <2>6. PICK gl : gl = flying'
    OBVIOUS
  <2>7. PICK fl, m, d, ps : fl = flying /\ m = lru /\ d = done /\ ps = packets
    OBVIOUS
  <2>8. SentWell(ps, n) /\ SentWell(qs, n) /\ Longer(ps, qs) /\ Len(qs) <= n /\ d \subseteq 1..Len(ps)
    BY <1>14, <1>16, <2>4, <2>5, <2>7
  <2>9. P = qs[Len(qs)] /\ gl = fl \cup {Span(P, k, k) : k \in 1..Len(P)}
    BY <2>4, <2>6, <2>7
  <2>10. Numbered(qs, id, n) /\ Unmixed(m, ps) /\ Arrival(ps, fl, m, d)
    BY <2>2, <2>3, <2>7
  <2>11. Arrival(qs, gl, m, d)
    <3>1. SentNext(ps, qs, fl, gl, m, d, id, n)
      BY <2>8, <2>9, <2>10 DEF SentNext
    <3> QED
      BY <3>1, ArrivalSent
  <2> QED
    BY <2>6, <2>7, <2>11
<1>21. RebuiltTiles' /\ RebuiltWhole'
  BY <1>9 DEF RebuiltTiles, RebuiltWhole
<1>22. NotComeRound' => Numbered(packets', counter', setting'.ids) /\ Unmixed(lru', packets')
  BY <1>2, <1>9, <1>12, <1>13, <1>19 DEF NotComeRound
<1> QED
  BY <1>2, <1>9, <1>12, <1>15, <1>16, <1>17, <1>18, <1>20, <1>21, <1>22 DEF FragInv

(* The runs that the map holds of an id.                                   *)
LEMMA NoRuns ==
  <<>> \in Seq(RunSet) /\ Len(<<>>) = 0
OBVIOUS

LEMMA RunsAre ==
  ASSUME NEW id, NEW ps, MapWell(lru, ps, setting)
  PROVE  /\ AllTiled(RunsOf(id), id, ps)
         /\ \A c : Covered(RunsOf(id), c) <=> InMap(lru, id, c)
<1>1. lru \in Seq(Entry) /\ OneEach(lru) /\ \A i \in 1..Len(lru) : EntryWell(lru[i], ps, setting)
  BY DEF MapWell
<1>2. DOMAIN lru = 1..Len(lru)
  BY <1>1, SeqIs
<1>3. CASE Holds(id)
  <2>1. PICK i \in 1..Len(lru) : i = Place(id) /\ lru[i].id = id
    BY <1>1, <1>3, PlaceIs
  <2>2. RunsOf(id) = lru[i].frags
    BY <1>3, <2>1 DEF RunsOf
  <2>3. AllTiled(lru[i].frags, id, ps)
    BY <1>1, <2>1 DEF EntryWell
  <2>4. \A j \in 1..Len(lru) : lru[j].id = id => j = i
    BY <1>1, <2>1 DEF OneEach
  <2> QED
    BY <2>1, <2>2, <2>3, <2>4 DEF InMap
<1>4. CASE ~Holds(id)
  <2>1. RunsOf(id) = <<>>
    BY <1>4 DEF RunsOf
  <2>2. \A j \in 1..Len(lru) : lru[j].id # id
    BY <1>2, <1>4 DEF Holds
  <2>3. 1..Len(<<>>) = {}
    BY NoRuns
  <2> QED
    BY <2>1, <2>2, <2>3, NoRuns DEF InMap, Covered, AllTiled
<1> QED
  BY <1>3, <1>4

IdsApart(ps, p) == \A q \in 1..Len(ps) : ps[q][1].id = ps[p][1].id => q = p

LEMMA NumberedApart ==
  ASSUME NEW ps, NEW c, NEW n \in Nat \ {0}, SentWell(ps, n), Numbered(ps, c, n), Len(ps) <= n, NEW p \in 1..Len(ps)
  PROVE  IdsApart(ps, p)
<1>1. PICK l \in Nat : l = Len(ps)
  BY SeqIs DEF SentWell
<1>2. ASSUME NEW q \in 1..Len(ps), ps[q][1].id = ps[p][1].id PROVE q = p
  <2>1. IdOf(q, n) = IdOf(p, n)
    BY <1>2 DEF Numbered
  <2>2. q \in 1..n /\ p \in 1..n
    BY <1>1
  <2> QED
    BY <2>1, <2>2, IdsDiffer
<1> QED
  BY <1>2 DEF IdsApart

LEMMA RunsOfPacket ==
  ASSUME NEW ps, NEW p \in 1..Len(ps), IdsApart(ps, p), MapWell(lru, ps, setting), Unmixed(lru, ps)
  PROVE  Apart(ps[p], RunsOf(ps[p][1].id))
<1>1. lru \in Seq(Entry)
  BY DEF MapWell
<1>2. PICK id : id = ps[p][1].id
  OBVIOUS
<1>3. CASE Holds(id)
  <2>1. PICK i \in 1..Len(lru) : i = Place(id) /\ lru[i].id = id
    BY <1>1, <1>3, PlaceIs
  <2>2. RunsOf(id) = lru[i].frags
    BY <1>3, <2>1 DEF RunsOf
  <2>3. PICK q \in 1..Len(ps) : ps[q][1].id = id /\ Apart(ps[q], lru[i].frags)
    BY <2>1 DEF Unmixed, Belongs
  <2>4. q = p
    BY <1>2, <2>3 DEF IdsApart
  <2> QED
    BY <1>2, <2>2, <2>3, <2>4
<1>4. CASE ~Holds(id)
  <2>1. RunsOf(id) = <<>>
    BY <1>4 DEF RunsOf
  <2>2. 1..Len(<<>>) = {}
    BY NoRuns
  <2> QED
    BY <1>2, <2>1, <2>2, NoRuns DEF Apart
<1> QED
  BY <1>3, <1>4

(* The map after the fragment: what was left of it, and the entry of the   *)
(* fragment's id if it is not complete.                                    *)
LEMMA ThinnedWell ==
  ASSUME NEW m, NEW ps, NEW s, NEW id, NEW t, MapWell(m, ps, s), Thinned(m, id, t),
         s.capacity \in Nat, Len(t) + 1 <= s.capacity
  PROVE  /\ MapWell(t, ps, s)
         /\ \A e \in Entry : e.id = id /\ EntryWell(e, ps, s) => MapWell(Append(t, e), ps, s)
<1>1. t \in Seq(Entry) /\ OneEach(t) /\ \A i \in 1..Len(t) : t[i].id # id /\ \E j \in 1..Len(m) : t[i] = m[j]
  BY DEF Thinned
<1>2. PICK l \in Nat : l = Len(t)
  BY <1>1, SeqIs
<1>3. \A i \in 1..l : EntryWell(t[i], ps, s)
  BY <1>1, <1>2 DEF MapWell
<1>4. l <= s.capacity /\ l + 1 <= s.capacity
  BY <1>2
<1>5. MapWell(t, ps, s)
  BY <1>1, <1>2, <1>3, <1>4 DEF MapWell
<1>6. ASSUME NEW e \in Entry, e.id = id, EntryWell(e, ps, s) PROVE MapWell(Append(t, e), ps, s)
  <2>1. PICK x : x = Append(t, e)
    OBVIOUS
  <2>2. x \in Seq(Entry) /\ Len(x) = l + 1 /\ x[l + 1] = e /\ \A i \in 1..l : x[i] = t[i]
    BY <1>1, <1>2, <2>1, AppendIs
  <2>3. \A i \in 1..(l + 1) : i \in 1..l \/ i = l + 1
    OBVIOUS
  <2>4. \A i \in 1..(l + 1) : EntryWell(x[i], ps, s)
    BY <1>3, <1>6, <2>2, <2>3
  <2>5. ASSUME NEW i \in 1..(l + 1), NEW j \in 1..(l + 1), x[i].id = x[j].id PROVE i = j
    <3>1. CASE i \in 1..l /\ j \in 1..l
      BY <1>1, <1>2, <2>2, <2>5, <3>1 DEF OneEach
    <3>2. CASE i \in 1..l /\ j = l + 1
      BY <1>1, <1>2, <1>6, <2>2, <2>5, <3>2
    <3>3. CASE j \in 1..l /\ i = l + 1
      BY <1>1, <1>2, <1>6, <2>2, <2>5, <3>3
    <3> QED
      BY <2>3, <3>1, <3>2, <3>3
  <2>6. OneEach(x)
    BY <2>2, <2>5 DEF OneEach
  <2> QED
    BY <1>4, <2>1, <2>2, <2>4, <2>6 DEF MapWell
<1> QED
  BY <1>5, <1>6

LEMMA ThinnedUnmixed ==
  ASSUME NEW m, NEW ps, NEW id, NEW t, Thinned(m, id, t), Unmixed(m, ps)
  PROVE  Unmixed(t, ps) /\ \A e \in Entry : Belongs(e, ps) => Unmixed(Append(t, e), ps)
<1>1. t \in Seq(Entry) /\ \A i \in 1..Len(t) : \E j \in 1..Len(m) : t[i] = m[j]
  BY DEF Thinned
<1>2. PICK l \in Nat : l = Len(t)
  BY <1>1, SeqIs
<1>3. \A i \in 1..l : Belongs(t[i], ps)
  BY <1>1, <1>2 DEF Unmixed
<1>4. ASSUME NEW e \in Entry, Belongs(e, ps) PROVE Unmixed(Append(t, e), ps)
  <2>1. PICK x : x = Append(t, e)
    OBVIOUS
  <2>2. Len(x) = l + 1 /\ x[l + 1] = e /\ \A i \in 1..l : x[i] = t[i]
    BY <1>1, <1>2, <2>1, AppendIs
  <2>3. \A i \in 1..(l + 1) : i \in 1..l \/ i = l + 1
    OBVIOUS
  <2> QED
    BY <1>3, <1>4, <2>1, <2>2, <2>3 DEF Unmixed
<1> QED
  BY <1>2, <1>3, <1>4 DEF Unmixed

(* What it holds of the other ids is as before; of this one, what the new  *)
(* entry holds.                                                            *)
Lacks(m, id) == \A i \in 1..Len(m) : m[i].id # id
OthersSame(m, t, id) ==
  /\ \A j, c : j # id => (InMap(t, j, c) <=> InMap(m, j, c))
  /\ \A j : j # id /\ Lacks(m, j) => Lacks(t, j)

LEMMA ThinnedHolds ==
  ASSUME NEW m, NEW id, NEW t, Thinned(m, id, t), Kept(m, id, t)
  PROVE  /\ OthersSame(m, t, id) /\ Lacks(t, id)
         /\ \A e \in Entry : e.id = id =>
              /\ OthersSame(m, Append(t, e), id)
              /\ \A c : InMap(Append(t, e), id, c) <=> Covered(e.frags, c)
<1>1. t \in Seq(Entry) /\ \A i \in 1..Len(t) : t[i].id # id /\ \E j \in 1..Len(m) : t[i] = m[j]
  BY DEF Thinned
<1>2. PICK l \in Nat : l = Len(t)
  BY <1>1, SeqIs
<1>3. OthersSame(m, t, id)
  <2>1. ASSUME NEW j, NEW c, j # id PROVE InMap(t, j, c) <=> InMap(m, j, c)
    <3>1. ASSUME NEW i \in 1..Len(t), t[i].id = j, Covered(t[i].frags, c) PROVE InMap(m, j, c)
      <4>1. PICK h \in 1..Len(m) : t[i] = m[h]
        BY <1>1
      <4> QED
        BY <3>1, <4>1 DEF InMap
    <3>2. ASSUME NEW h \in 1..Len(m), m[h].id = j, Covered(m[h].frags, c) PROVE InMap(t, j, c)
      <4>1. PICK i \in 1..Len(t) : t[i] = m[h]
        BY <2>1, <3>2 DEF Kept
      <4> QED
        BY <3>2, <4>1 DEF InMap
    <3> QED
      BY <3>1, <3>2 DEF InMap
  <2>2. ASSUME NEW j, Lacks(m, j) PROVE Lacks(t, j)
    BY <1>1, <2>2 DEF Lacks
  <2> QED
    BY <2>1, <2>2 DEF OthersSame
<1>4. Lacks(t, id)
  BY <1>1 DEF Lacks
<1>5. ASSUME NEW e \in Entry, e.id = id
      PROVE  OthersSame(m, Append(t, e), id) /\ \A c : InMap(Append(t, e), id, c) <=> Covered(e.frags, c)
  <2>1. PICK x : x = Append(t, e)
    OBVIOUS
  <2>2. Len(x) = l + 1 /\ x[l + 1] = e /\ \A i \in 1..l : x[i] = t[i]
    BY <1>1, <1>2, <2>1, AppendIs
  <2>3. (\A i \in 1..(l + 1) : i \in 1..l \/ i = l + 1) /\ (\A i \in 1..l : i \in 1..(l + 1)) /\ l + 1 \in 1..(l + 1)
    OBVIOUS
  <2>4. ASSUME NEW j, NEW c, j # id PROVE InMap(x, j, c) <=> InMap(t, j, c)
    BY <1>2, <1>5, <2>2, <2>3, <2>4 DEF InMap
  <2>5. ASSUME NEW j, j # id, Lacks(t, j) PROVE Lacks(x, j)
    BY <1>2, <1>5, <2>2, <2>3, <2>5 DEF Lacks
  <2>6. ASSUME NEW c PROVE InMap(x, id, c) <=> Covered(e.frags, c)
    BY <1>1, <1>2, <1>5, <2>2, <2>3 DEF InMap
  <2>7. OthersSame(m, x, id)
    BY <1>3, <2>4, <2>5 DEF OthersSame
  <2> QED
    BY <2>1, <2>6, <2>7
<1> QED
  BY <1>3, <1>4, <1>5

(* With room for every packet nothing is evicted: the ids in the map are   *)
(* ids of packets, and the fragment's own is not among the rest.           *)
Mapped(m, N, n) == \A i \in 1..Len(m) : \E p \in 1..N : m[i].id = IdOf(p, n)

LEMMA UnmixedMapped ==
  ASSUME NEW ps, NEW c, NEW n, Numbered(ps, c, n), NEW m, Unmixed(m, ps)
  PROVE  Mapped(m, Len(ps), n)
<1>1. ASSUME NEW i \in 1..Len(m) PROVE \E p \in 1..Len(ps) : m[i].id = IdOf(p, n)
  <2>1. PICK p \in 1..Len(ps) : ps[p][1].id = m[i].id
    BY DEF Unmixed, Belongs
  <2>2. ps[p][1].id = IdOf(p, n)
    BY DEF Numbered
  <2> QED
    BY <2>1, <2>2
<1> QED
  BY <1>1 DEF Mapped

LEMMA RoomInMap ==
  ASSUME NEW m, NEW id, NEW t, Thinned(m, id, t), NEW N \in Nat, NEW n, Mapped(m, N, n),
         NEW p \in 1..N, id = IdOf(p, n)
  PROVE  Len(t) < N
<1>1. t \in Seq(Entry) /\ OneEach(t) /\ \A i \in 1..Len(t) : t[i].id # id /\ \E j \in 1..Len(m) : t[i] = m[j]
  BY DEF Thinned
<1>2. PICK l \in Nat : l = Len(t)
  BY <1>1, SeqIs
<1> DEFINE pk(i) == CHOOSE q \in 1..N : t[i].id = IdOf(q, n)
           place == [i \in 1..l |-> pk(i)]
<1>3. ASSUME NEW i \in 1..l PROVE pk(i) \in 1..N /\ t[i].id = IdOf(pk(i), n) /\ pk(i) # p
  <2>1. PICK j \in 1..Len(m) : t[i] = m[j]
    BY <1>1, <1>2
  <2>2. \E q \in 1..N : t[i].id = IdOf(q, n)
    BY <2>1 DEF Mapped
  <2>3. pk(i) \in 1..N /\ t[i].id = IdOf(pk(i), n)
    BY <2>2
  <2>4. t[i].id # id
    BY <1>1, <1>2
  <2> QED
    BY <2>3, <2>4
<1>4. \A i, j \in 1..l : t[i].id = t[j].id => i = j
  BY <1>1, <1>2 DEF OneEach
<1> HIDE DEF pk
<1>5. place \in Injection(1..l, (1..N) \ {p})
  <2>1. place \in [1..l -> (1..N) \ {p}]
    BY <1>3
  <2>2. ASSUME NEW i \in 1..l, NEW j \in 1..l, place[i] = place[j] PROVE i = j
    BY <1>3, <1>4, <2>2
  <2> QED
    BY <2>1, <2>2 DEF Injection, IsInjective
<1>6. /\ IsFiniteSet(1..l) /\ Cardinality(1..l) = l
      /\ IsFiniteSet(1..N) /\ Cardinality(1..N) = N
  <2>1. 0 \in Int /\ 1 \in Int /\ l \in Int /\ N \in Int
    OBVIOUS
  <2>2. IsFiniteSet(1..l) /\ Cardinality(1..l) = IF 1 > l THEN 0 ELSE l - 1 + 1
    BY <2>1, FS_Interval
  <2>3. IsFiniteSet(1..N) /\ Cardinality(1..N) = IF 1 > N THEN 0 ELSE N - 1 + 1
    BY <2>1, FS_Interval
  <2> QED
    BY <2>2, <2>3
<1>7. IsFiniteSet((1..N) \ {p}) /\ Cardinality((1..N) \ {p}) = N - 1
  BY <1>6, FS_RemoveElement
<1>8. Cardinality(1..l) <= Cardinality((1..N) \ {p})
  BY <1>5, <1>6, <1>7, FS_Injection, Zenon
<1> QED
  BY <1>2, <1>6, <1>7, <1>8

(* A piece under way arrives: the packets stay awaited, and the one whose  *)
(* last missing piece it is is done.                                       *)
Lands(ps, n, p, k, fl, gl, m, t, d) ==
  /\ SentWell(ps, n) /\ p \in 1..Len(ps) /\ IdsApart(ps, p) /\ k \in 1..Len(ps[p])
  /\ Span(ps[p], k, k) \in fl /\ gl = fl \ {Span(ps[p], k, k)}
  /\ OthersSame(m, t, ps[p][1].id) /\ Arrival(ps, fl, m, d)
PartOf(P, k, m, t) ==
  \A c \in 1..Len(P) : InMap(t, P[1].id, P[c]) <=> InMap(m, P[1].id, P[c]) \/ c = k
RestOf(P, k, m, t) ==
  Lacks(t, P[1].id) /\ \A c \in 1..Len(P) : InMap(m, P[1].id, P[c]) \/ c = k

LEMMA LandsAwaited ==
  ASSUME NEW ps, NEW n, NEW p, NEW k, NEW fl, NEW gl, NEW m, NEW t, NEW d, Lands(ps, n, p, k, fl, gl, m, t, d)
  PROVE  p \notin d /\ Awaited(ps[p], fl, m) /\ ~InMap(m, ps[p][1].id, ps[p][k])
<1>1. /\ p \in 1..Len(ps) /\ k \in 1..Len(ps[p]) /\ Span(ps[p], k, k) \in fl
      /\ IF p \in d THEN Finished(ps[p], fl, m) ELSE Awaited(ps[p], fl, m)
  BY DEF Lands, Arrival
<1>2. p \notin d
  BY <1>1 DEF Finished
<1> QED
  BY <1>1, <1>2 DEF Awaited

LEMMA LandsOthers ==
  ASSUME NEW ps, NEW n, NEW p, NEW k, NEW fl, NEW gl, NEW m, NEW t, NEW d, Lands(ps, n, p, k, fl, gl, m, t, d),
         NEW q \in 1..Len(ps), q # p
  PROVE  IF q \in d THEN Finished(ps[q], gl, t) ELSE Awaited(ps[q], gl, t)
<1>1. PICK P, Q : P = ps[p] /\ Q = ps[q]
  OBVIOUS
<1>2. Cut(P, p) /\ Cut(Q, q) /\ k \in 1..Len(P) /\ gl = fl \ {Span(P, k, k)} /\ OthersSame(m, t, P[1].id)
  BY <1>1 DEF Lands, SentWell
<1>3. Q[1].id # P[1].id
  BY <1>1 DEF Lands, IdsApart
<1>4. \A j \in 1..Len(Q) : Span(Q, j, j) # Span(P, k, k)
  BY <1>2, PiecesDiffer
<1>5. \A j \in 1..Len(Q) : Span(Q, j, j) \in gl <=> Span(Q, j, j) \in fl
  BY <1>2, <1>4
<1>6. IF q \in d THEN Finished(Q, fl, m) ELSE Awaited(Q, fl, m)
  BY <1>1 DEF Lands, Arrival
<1>7. CASE q \in d
  <2>1. Lacks(m, Q[1].id)
    BY <1>6, <1>7 DEF Finished, Lacks
  <2>2. Lacks(t, Q[1].id)
    BY <1>2, <1>3, <2>1 DEF OthersSame
  <2>3. \A j \in 1..Len(Q) : Span(Q, j, j) \notin gl
    BY <1>5, <1>6, <1>7 DEF Finished
  <2> QED
    BY <1>1, <1>7, <2>2, <2>3 DEF Finished, Lacks
<1>8. CASE q \notin d
  <2>1. \A j \in 1..Len(Q) : InMap(t, Q[1].id, Q[j]) <=> InMap(m, Q[1].id, Q[j])
    BY <1>2, <1>3 DEF OthersSame
  <2>2. \A j \in 1..Len(Q) : Span(Q, j, j) \in fl <=> ~InMap(m, Q[1].id, Q[j])
    BY <1>6, <1>8 DEF Awaited
  <2>3. Awaited(Q, gl, t)
    BY <1>5, <2>1, <2>2 DEF Awaited
  <2> QED
    BY <1>1, <1>8, <2>3
<1> QED
  BY <1>7, <1>8

LEMMA LandsPart ==
  ASSUME NEW ps, NEW n, NEW p, NEW k, NEW fl, NEW gl, NEW m, NEW t, NEW d, Lands(ps, n, p, k, fl, gl, m, t, d),
         PartOf(ps[p], k, m, t)
  PROVE  Arrival(ps, gl, t, d)
<1>1. PICK P : P = ps[p]
  OBVIOUS
<1>2. Cut(P, p) /\ k \in 1..Len(P) /\ gl = fl \ {Span(P, k, k)} /\ p \in 1..Len(ps)
  BY <1>1 DEF Lands, SentWell
<1>3. p \notin d /\ Awaited(P, fl, m)
  BY <1>1, LandsAwaited
<1>4. ASSUME NEW j \in 1..Len(P) PROVE Span(P, j, j) \in gl <=> ~InMap(t, P[1].id, P[j])
  <2>1. Span(P, j, j) = Span(P, k, k) <=> j = k
    BY <1>2, PiecesDiffer
  <2>2. Span(P, j, j) \in fl <=> ~InMap(m, P[1].id, P[j])
    BY <1>3 DEF Awaited
  <2>3. InMap(t, P[1].id, P[j]) <=> InMap(m, P[1].id, P[j]) \/ j = k
    BY <1>1 DEF PartOf
  <2> QED
    BY <1>2, <2>1, <2>2, <2>3
<1>5. Awaited(P, gl, t)
  BY <1>4 DEF Awaited
<1>6. ASSUME NEW q \in 1..Len(ps), q # p PROVE IF q \in d THEN Finished(ps[q], gl, t) ELSE Awaited(ps[q], gl, t)
  BY <1>6, LandsOthers
<1> QED
  BY <1>1, <1>3, <1>5, <1>6 DEF Arrival

LEMMA LandsRest ==
  ASSUME NEW ps, NEW n, NEW p, NEW k, NEW fl, NEW gl, NEW m, NEW t, NEW d, Lands(ps, n, p, k, fl, gl, m, t, d),
         RestOf(ps[p], k, m, t)
  PROVE  Arrival(ps, gl, t, d \cup {p})
<1>1. PICK P : P = ps[p]
  OBVIOUS
<1>2. Cut(P, p) /\ k \in 1..Len(P) /\ gl = fl \ {Span(P, k, k)} /\ p \in 1..Len(ps)
  BY <1>1 DEF Lands, SentWell
<1>3. Awaited(P, fl, m)
  BY <1>1, LandsAwaited
<1>4. ASSUME NEW j \in 1..Len(P) PROVE Span(P, j, j) \notin gl
  <2>1. Span(P, j, j) \in fl <=> ~InMap(m, P[1].id, P[j])
    BY <1>3 DEF Awaited
  <2>2. InMap(m, P[1].id, P[j]) \/ j = k
    BY <1>1 DEF RestOf
  <2> QED
    BY <1>2, <2>1, <2>2
<1>5. Finished(P, gl, t)
  BY <1>1, <1>4 DEF Finished, RestOf, Lacks
<1>6. ASSUME NEW q \in 1..Len(ps), q # p PROVE IF q \in d THEN Finished(ps[q], gl, t) ELSE Awaited(ps[q], gl, t)
  BY <1>6, LandsOthers
<1> QED
  BY <1>1, <1>5, <1>6 DEF Arrival

(* The step that takes in fragment f, the k-th of packet p.                *)
Takes(f, p, k, id, runs, u, t, e) ==
  /\ p \in 1..Len(packets) /\ k \in 1..Len(packets[p]) /\ f = Span(packets[p], k, k)
  /\ Cut(packets[p], p) /\ id = packets[p][1].id /\ id \in 0..(setting.ids - 1) /\ id = f.id
  /\ runs = RunsOf(id) /\ u = update(f, runs) /\ t = Evicted(id) /\ e = [id |-> id, frags |-> u.runs]
  /\ AllTiled(runs, id, packets) /\ Tiled(f, id, packets) /\ f.start < f.end
Leaves(u, t, e) ==
  /\ u.ok /\ try_complete(u.runs) => lru' = t /\ rebuilt' = u.runs[1].data
  /\ u.ok /\ ~try_complete(u.runs) => lru' = Append(t, e) /\ rebuilt' = <<>>
  /\ ~u.ok => lru' = t /\ rebuilt' = <<>>
  /\ done' = done \cup {q \in DOMAIN packets : packets[q] = rebuilt'}
  /\ packets' = packets /\ counter' = counter /\ setting' = setting

LEMMA DeliverIs ==
  ASSUME FragInv, NEW f \in flying, Deliver(f)
  PROVE  \E p, k, id, runs, u, t, e :
           /\ Takes(f, p, k, id, runs, u, t, e) /\ Leaves(u, t, e)
           /\ flying' = flying \ {f} \/ (setting.dups /\ flying' = flying)
<1>1. SentWell(packets, setting.ids) /\ Flown(f, packets) /\ MapWell(lru, packets, setting)
  BY DEF FragInv
<1>2. PICK p \in 1..Len(packets) : \E k \in 1..Len(packets[p]) : f = Span(packets[p], k, k)
  BY <1>1 DEF Flown
<1>3. PICK k \in 1..Len(packets[p]) : f = Span(packets[p], k, k)
  BY <1>2
<1>4. PICK P : P = packets[p] /\ Cut(P, p) /\ P[1].id \in 0..(setting.ids - 1)
  BY <1>1 DEF SentWell
<1>5. PICK id : id = P[1].id
  OBVIOUS
<1>6. k <= k /\ Len(P) \in Nat /\ k \in 1..Len(P)
  BY <1>4, CutFacts
<1>7. SpanWell(P, k, k, f)
  BY <1>3, <1>4, <1>6, SpanIs
<1>8. f.id = id /\ f.start < f.end
  BY <1>5, <1>7 DEF SpanWell
<1>9. Tiled(f, id, packets)
  BY <1>3, <1>4, <1>5, <1>6, SpanTiled
<1>10. PICK runs : runs = RunsOf(id)
  OBVIOUS
<1>11. AllTiled(runs, id, packets)
  BY <1>1, <1>10, RunsAre
<1>12. PICK u, t : u = update(f, runs) /\ t = Evicted(id)
  OBVIOUS
<1>13. PICK e : e = [id |-> id, frags |-> u.runs]
  OBVIOUS
<1>14. Takes(f, p, k, id, runs, u, t, e)
  BY <1>3, <1>4, <1>5, <1>6, <1>8, <1>9, <1>10, <1>11, <1>12, <1>13 DEF Takes
<1>15. Leaves(u, t, e)
  BY <1>8, <1>10, <1>12, <1>13 DEF Leaves, Deliver, AddFragment
<1>16. flying' = flying \ {f} \/ (setting.dups /\ flying' = flying)
  BY DEF Deliver
<1> QED
  BY <1>14, <1>15, <1>16

LEMMA DeliverOk ==
  ASSUME NEW f \in RunSet, NEW runs \in Seq(RunSet), f.start < f.end
  PROVE  update(f, runs).ok \in BOOLEAN
BY UpdateIs

LEMMA DeliverMap ==
  ASSUME FragInv, NEW f, NEW p, NEW k, NEW id, NEW runs, NEW u, NEW t, NEW e,
         Takes(f, p, k, id, runs, u, t, e), Leaves(u, t, e)
  PROVE  MapWell(lru, packets, setting)' /\ RebuiltTiles'
<1>1. FragTyped /\ SentWell(packets, setting.ids) /\ MapWell(lru, packets, setting)
  BY DEF FragInv
<1>2. setting.capacity \in Nat \ {0}
  BY <1>1, SettingIs DEF FragTyped
<1>3. lru \in Seq(Entry) /\ OneEach(lru) /\ Len(lru) <= setting.capacity /\ packets \in Seq(Seq(Piece))
  BY <1>1 DEF MapWell, SentWell
<1>4. Thinned(lru, id, t) /\ Len(t) + 1 <= setting.capacity
  BY <1>2, <1>3, EvictedIs DEF Takes
<1>5. f \in RunSet /\ runs \in Seq(RunSet) /\ f.start < f.end /\ u = update(f, runs)
  BY DEF Takes, Tiled, AllTiled
<1>6. AllTiled(runs, id, packets) /\ Tiled(f, id, packets) /\ id \in 0..(setting.ids - 1)
  BY DEF Takes
<1>7. ASSUME u.ok PROVE AllTiled(u.runs, id, packets) /\ u.runs # <<>>
  BY <1>5, <1>6, <1>7, UpdateTiled, UpdateHolds
<1>8. MapWell(t, packets, setting)
  BY <1>1, <1>2, <1>4, ThinnedWell
<1>9. ASSUME u.ok, ~try_complete(u.runs) PROVE MapWell(Append(t, e), packets, setting)
  <2>1. e.id = id /\ e.frags = u.runs /\ e = [id |-> id, frags |-> u.runs]
    BY DEF Takes
  <2>2. EntryWell(e, packets, setting)
    BY <1>6, <1>7, <1>9, <2>1 DEF EntryWell
  <2>3. u.runs \in Seq(RunSet) /\ id \in Nat
    <3>1. u.runs \in Seq(RunSet)
      BY <1>7, <1>9 DEF AllTiled
    <3>2. setting.ids \in Nat
      BY <1>1, SettingIs DEF FragTyped
    <3> QED
      BY <1>6, <3>1, <3>2
  <2>4. e \in Entry
    BY <2>1, <2>3 DEF Entry
  <2> QED
    BY <1>1, <1>2, <1>4, <2>1, <2>2, <2>4, ThinnedWell
<1>10. MapWell(lru', packets, setting)
  BY <1>8, <1>9 DEF Leaves
<1>11. Tiles(rebuilt', packets)
  <2>1. CASE u.ok /\ try_complete(u.runs)
    <3>1. Tiles(u.runs[1].data, packets)
      BY <1>3, <1>7, <2>1, CompleteTiles
    <3> QED
      BY <2>1, <3>1 DEF Leaves
  <2>2. CASE ~(u.ok /\ try_complete(u.runs))
    BY <2>2 DEF Leaves, Tiles
  <2> QED
    BY <2>1, <2>2
<1>12. packets' = packets /\ setting' = setting
  BY DEF Leaves
<1> QED
  BY <1>10, <1>11, <1>12 DEF Tiles, RebuiltTiles

(* Until ids come round the runs are of the fragment's own packet.         *)
LEMMA DeliverApart ==
  ASSUME FragInv, NotComeRound, NEW f, NEW p, NEW k, NEW id, NEW runs, NEW u, NEW t, NEW e,
         Takes(f, p, k, id, runs, u, t, e)
  PROVE  /\ IdsApart(packets, p) /\ Apart(packets[p], runs)
         /\ u.ok => Gained(packets[p], runs, u.runs, k)
         /\ ~Covered(runs, packets[p][k]) => u.ok
<1>1. /\ FragTyped /\ SentWell(packets, setting.ids) /\ MapWell(lru, packets, setting)
      /\ Numbered(packets, counter, setting.ids) /\ Unmixed(lru, packets) /\ Len(packets) <= setting.ids
  BY DEF FragInv, NotComeRound
<1>2. PICK n \in Nat \ {0} : n = setting.ids
  BY <1>1, SettingIs DEF FragTyped
<1>3. p \in 1..Len(packets)
  BY DEF Takes
<1>4. IdsApart(packets, p)
  BY <1>1, <1>2, <1>3, NumberedApart
<1>5. Apart(packets[p], RunsOf(packets[p][1].id))
  BY <1>1, <1>3, <1>4, RunsOfPacket
<1>6. Apart(packets[p], runs)
  BY <1>5 DEF Takes
<1>7. PICK P : P = packets[p]
  OBVIOUS
<1>8. Cut(P, p) /\ k \in 1..Len(P) /\ f = Span(P, k, k) /\ u = update(f, runs) /\ Apart(P, runs)
  BY <1>6, <1>7 DEF Takes
<1>9. (update(f, runs).ok => Gained(P, runs, update(f, runs).runs, k)) /\ (~Covered(runs, P[k]) => update(f, runs).ok)
  BY <1>8, UpdateGains
<1> QED
  BY <1>4, <1>6, <1>7, <1>8, <1>9

LEMMA DeliverUnmixed ==
  ASSUME FragInv, NotComeRound, NEW f, NEW p, NEW k, NEW id, NEW runs, NEW u, NEW t, NEW e,
         Takes(f, p, k, id, runs, u, t, e), Leaves(u, t, e)
  PROVE  /\ Unmixed(lru', packets)
         /\ u.ok /\ try_complete(u.runs) => rebuilt' = packets[p]
<1>1. FragTyped /\ MapWell(lru, packets, setting) /\ Unmixed(lru, packets)
  BY DEF FragInv
<1>2. setting.capacity \in Nat \ {0} /\ setting.ids \in Nat
  BY <1>1, SettingIs DEF FragTyped
<1>3. lru \in Seq(Entry) /\ OneEach(lru) /\ Len(lru) <= setting.capacity
  BY <1>1 DEF MapWell
<1>4. Thinned(lru, id, t)
  BY <1>2, <1>3, EvictedIs DEF Takes
<1>5. u.ok => Gained(packets[p], runs, u.runs, k)
  BY DeliverApart
<1>6. u.ok => Apart(packets[p], u.runs)
  BY <1>5 DEF Gained
<1>7. Unmixed(t, packets)
  BY <1>1, <1>4, ThinnedUnmixed
<1>8. ASSUME u.ok PROVE Unmixed(Append(t, e), packets)
  <2>1. e.id = id /\ e.frags = u.runs /\ e = [id |-> id, frags |-> u.runs] /\ id = packets[p][1].id /\ p \in 1..Len(packets)
        /\ id \in 0..(setting.ids - 1)
    BY DEF Takes
  <2>2. Belongs(e, packets)
    BY <1>6, <1>8, <2>1 DEF Belongs
  <2>3. u.runs \in Seq(RunSet) /\ id \in Nat
    BY <1>2, <1>6, <1>8, <2>1 DEF Apart
  <2>4. e \in Entry
    BY <2>1, <2>3 DEF Entry
  <2> QED
    BY <1>1, <1>4, <2>2, <2>4, ThinnedUnmixed
<1>9. ASSUME u.ok, try_complete(u.runs) PROVE rebuilt' = packets[p]
  <2>1. Cut(packets[p], p)
    BY DEF Takes
  <2>2. u.runs[1].data = packets[p]
    BY <1>6, <1>9, <2>1, CompleteIs
  <2> QED
    BY <1>9, <2>2 DEF Leaves
<1> QED
  BY <1>7, <1>8, <1>9 DEF Leaves

LEMMA DoneIs ==
  ASSUME SentWell(packets, setting.ids), NEW f, NEW p, NEW k, NEW id, NEW runs, NEW u, NEW t, NEW e,
         Takes(f, p, k, id, runs, u, t, e), Leaves(u, t, e)
  PROVE  /\ rebuilt' = <<>> => done' = done
         /\ rebuilt' = packets[p] => done' = done \cup {p}
<1>1. packets \in Seq(Seq(Piece)) /\ \A q \in 1..Len(packets) : Cut(packets[q], q)
  BY DEF SentWell
<1>2. DOMAIN packets = 1..Len(packets)
  BY <1>1, SeqIs
<1>3. ASSUME NEW q \in 1..Len(packets) PROVE packets[q] # <<>> /\ packets[q][1].pkt = q
  <2>1. Cut(packets[q], q)
    BY <1>1
  <2>2. Len(packets[q]) \in Nat /\ Len(packets[q]) > 0 /\ \A j \in 1..Len(packets[q]) : packets[q][j].pkt = q
    BY <2>1, CutFacts
  <2> QED
    BY <2>2
<1>4. done' = done \cup {q \in 1..Len(packets) : packets[q] = rebuilt'} /\ p \in 1..Len(packets)
  BY <1>2 DEF Leaves, Takes
<1> QED
  BY <1>3, <1>4

(* With room and without duplicates, the map gains the fragment and loses  *)
(* nothing.                                                                *)
LEMMA DeliverArrival ==
  ASSUME FragInv, Quiet(packets, setting), NEW f \in flying, flying' = flying \ {f},
         NEW p, NEW k, NEW id, NEW runs, NEW u, NEW t, NEW e,
         Takes(f, p, k, id, runs, u, t, e), Leaves(u, t, e)
  PROVE  Arrival(packets, flying', lru', done')
<1>1. /\ FragTyped /\ SentWell(packets, setting.ids) /\ MapWell(lru, packets, setting)
      /\ NotComeRound /\ Numbered(packets, counter, setting.ids) /\ Unmixed(lru, packets)
      /\ Arrival(packets, flying, lru, done)
  BY DEF FragInv, Quiet, NotComeRound
<1>2. setting.capacity \in Nat \ {0} /\ setting.ids \in Nat \ {0}
  BY <1>1, SettingIs DEF FragTyped
<1>3. lru \in Seq(Entry) /\ OneEach(lru) /\ Len(lru) <= setting.capacity /\ packets \in Seq(Seq(Piece))
  BY <1>1 DEF MapWell, SentWell
<1>4. PICK P : P = packets[p]
  OBVIOUS
<1>5. /\ p \in 1..Len(packets) /\ k \in 1..Len(P) /\ f = Span(P, k, k) /\ Cut(P, p) /\ id = P[1].id
      /\ runs = RunsOf(id) /\ t = Evicted(id) /\ e = [id |-> id, frags |-> u.runs] /\ id \in 0..(setting.ids - 1)
  BY <1>4 DEF Takes
<1>6. /\ IdsApart(packets, p) /\ Apart(P, runs)
      /\ u.ok => Gained(P, runs, u.runs, k)
      /\ ~Covered(runs, P[k]) => u.ok
  BY <1>1, <1>4, DeliverApart
<1>7. \A c : Covered(runs, c) <=> InMap(lru, id, c)
  BY <1>1, <1>5, RunsAre
<1>8. Thinned(lru, id, t) /\ Kept(lru, id, t)
  <2>1. Thinned(lru, id, Without(id))
    BY <1>3, WithoutIs
  <2>2. PICK N \in Nat : N = Len(packets)
    BY <1>3, SeqIs
  <2>3. Mapped(lru, N, setting.ids)
    BY <1>1, <2>2, UnmixedMapped
  <2>4. id = IdOf(p, setting.ids) /\ p \in 1..N
    BY <1>1, <1>4, <1>5, <2>2 DEF Numbered
  <2>5. Len(Without(id)) < N
    BY <2>1, <2>3, <2>4, RoomInMap
  <2>6. N <= setting.capacity
    BY <2>2 DEF Quiet
  <2>7. Len(Without(id)) \in Nat
    <3>1. Without(id) \in Seq(Entry)
      BY <2>1 DEF Thinned
    <3> QED
      BY <3>1, SeqIs
  <2>8. Len(Without(id)) < setting.capacity
    BY <1>2, <2>5, <2>6, <2>7
  <2> QED
    BY <1>2, <1>3, <1>5, <2>8, EvictedIs
<1>9. OthersSame(lru, t, id) /\ Lacks(t, id)
  BY <1>8, ThinnedHolds
<1>10. Lands(packets, setting.ids, p, k, flying, flying', lru, t, done)
  BY <1>1, <1>4, <1>5, <1>6, <1>9 DEF Lands
<1>11. ~InMap(lru, id, P[k])
  BY <1>4, <1>5, <1>10, LandsAwaited
<1>12. u.ok
  BY <1>6, <1>7, <1>11
<1>13. Apart(P, u.runs) /\ \A c \in 1..Len(P) : Covered(u.runs, P[c]) <=> InMap(lru, id, P[c]) \/ c = k
  BY <1>6, <1>7, <1>12 DEF Gained
<1>14. CASE try_complete(u.runs)
  <2>1. \A c \in 1..Len(P) : Covered(u.runs, P[c])
    BY <1>5, <1>13, <1>14, CompleteIs
  <2>2. RestOf(P, k, lru, t)
    BY <1>5, <1>9, <1>13, <2>1 DEF RestOf
  <2>3. Arrival(packets, flying', t, done \cup {p})
    BY <1>4, <1>10, <2>2, LandsRest
  <2>4. lru' = t
    BY <1>12, <1>14 DEF Leaves
  <2>5. rebuilt' = packets[p]
    BY <1>1, <1>12, <1>14, DeliverUnmixed
  <2>6. done' = done \cup {p}
    BY <1>1, <2>5, DoneIs
  <2> QED
    BY <2>3, <2>4, <2>6
<1>15. CASE ~try_complete(u.runs)
  <2>1. u.runs \in Seq(RunSet) /\ id \in Nat
    BY <1>2, <1>5, <1>13 DEF Apart
  <2>2. e \in Entry /\ e.id = id /\ e.frags = u.runs
    BY <1>5, <2>1 DEF Entry
  <2>3. lru' = Append(t, e) /\ rebuilt' = <<>>
    BY <1>12, <1>15 DEF Leaves
  <2>4. PICK m : m = Append(t, e)
    OBVIOUS
  <2>5. OthersSame(lru, m, id) /\ \A c : InMap(m, id, c) <=> Covered(u.runs, c)
    BY <1>8, <2>2, <2>4, ThinnedHolds
  <2>6. PartOf(P, k, lru, m)
    BY <1>5, <1>13, <2>5 DEF PartOf
  <2>7. Lands(packets, setting.ids, p, k, flying, flying', lru, m, done)
    BY <1>4, <1>5, <1>10, <2>5 DEF Lands
  <2>8. Arrival(packets, flying', m, done)
    BY <1>4, <2>6, <2>7, LandsPart
  <2>9. done' = done
    BY <1>1, <2>3, DoneIs
  <2> QED
    BY <2>3, <2>4, <2>8, <2>9
<1> QED
  BY <1>14, <1>15

LEMMA FragDeliver ==
  ASSUME FragInv, NEW f \in flying, Deliver(f)
  PROVE  FragInv'
<1>1. PICK p, k, id, runs, u, t, e :
        /\ Takes(f, p, k, id, runs, u, t, e) /\ Leaves(u, t, e)
        /\ flying' = flying \ {f} \/ (setting.dups /\ flying' = flying)
  BY DeliverIs
<1>2. packets' = packets /\ counter' = counter /\ setting' = setting
  BY <1>1 DEF Leaves
<1>3. FragTyped /\ SentWell(packets, setting.ids) /\ \A x \in flying : Flown(x, packets)
  BY DEF FragInv
<1>4. FragTyped'
  <2>1. packets \in Seq(Seq(Piece))
    BY <1>3 DEF SentWell
  <2>2. DOMAIN packets = 1..Len(packets)
    BY <2>1, SeqIs
  <2>3. done' \subseteq 1..Len(packets)
    BY <1>1, <1>3, <2>2 DEF Leaves, FragTyped
  <2> QED
    BY <1>2, <1>3, <2>3 DEF FragTyped
<1>5. \A x \in flying' : Flown(x, packets)
  BY <1>1, <1>3
<1>6. MapWell(lru', packets, setting) /\ RebuiltTiles'
  BY <1>1, <1>2, DeliverMap
<1>7. NotComeRound => Numbered(packets, counter, setting.ids) /\ Unmixed(lru', packets)
  BY <1>1, DeliverUnmixed DEF FragInv
<1>8. Quiet(packets, setting) => Arrival(packets, flying', lru', done')
  <2>1. ASSUME Quiet(packets, setting) PROVE Arrival(packets, flying', lru', done')
    <3>1. flying' = flying \ {f}
      BY <1>1, <2>1 DEF Quiet
    <3> QED
      BY <1>1, <2>1, <3>1, DeliverArrival
  <2> QED
    BY <2>1
<1>9. RebuiltWhole'
  <2>1. ASSUME NotComeRound, rebuilt' # <<>> PROVE rebuilt' \in ToSet(packets)
    <3>1. u.ok /\ try_complete(u.runs)
      BY <1>1, <2>1 DEF Leaves
    <3>2. rebuilt' = packets[p]
      BY <1>1, <2>1, <3>1, DeliverUnmixed
    <3>3. packets \in Seq(Seq(Piece)) /\ p \in 1..Len(packets)
      BY <1>1, <1>3 DEF SentWell, Takes
    <3> QED
      BY <3>2, <3>3, SeqIs
  <2> QED
    BY <1>2, <2>1 DEF RebuiltWhole, NotComeRound
<1> QED
  BY <1>2, <1>3, <1>4, <1>5, <1>6, <1>7, <1>8, <1>9 DEF FragInv, NotComeRound

LEMMA FragStart ==
  ASSUME FragInit
  PROVE  FragInv
<1>1. /\ lru = <<>> /\ counter = 0 /\ packets = <<>> /\ flying = {} /\ rebuilt = <<>> /\ done = {}
      /\ setting \in [ids : IdSpaces, capacity : Capacities, dups : Duplicates]
  BY DEF FragInit
<1>2. PICK n \in Nat \ {0} : n = setting.ids
  BY <1>1, SettingIs
<1>3. PICK c \in Nat \ {0} : c = setting.capacity
  BY <1>1, SettingIs
<1>4. Len(<<>>) = 0 /\ 1..Len(<<>>) = {} /\ <<>> \in Seq(Seq(Piece)) /\ <<>> \in Seq(Entry)
  BY NoRuns
<1>5. FragTyped
  <2>1. 0 \in 0..(n - 1) /\ 0 <= MaxPackets
    BY FragBounds
  <2> QED
    BY <1>1, <1>2, <1>4, <2>1 DEF FragTyped
<1>6. SentWell(packets, setting.ids)
  BY <1>1, <1>4 DEF SentWell
<1>7. MapWell(lru, packets, setting)
  <2>1. 0 <= c
    OBVIOUS
  <2> QED
    BY <1>1, <1>3, <1>4, <2>1 DEF MapWell, OneEach
<1>8. Numbered(packets, counter, setting.ids) /\ Unmixed(lru, packets)
  <2>1. IdOf(0, n) = 0
    BY DEF IdOf
  <2> QED
    BY <1>1, <1>2, <1>4, <2>1 DEF Numbered, Unmixed
<1>9. Arrival(packets, flying, lru, done)
  BY <1>1, <1>4 DEF Arrival
<1>10. RebuiltTiles /\ RebuiltWhole
  BY <1>1 DEF RebuiltTiles, RebuiltWhole
<1> QED
  BY <1>1, <1>5, <1>6, <1>7, <1>8, <1>9, <1>10 DEF FragInv

LEMMA FragStep ==
  ASSUME FragInv, [FragNext]_fragVars
  PROVE  FragInv'
<1>1. CASE \E size \in PacketSizes, plpmtu \in Plpmtus : SendFragmented(size, plpmtu)
  BY <1>1, FragSend
<1>2. CASE \E f \in flying : Deliver(f)
  BY <1>2, FragDeliver
<1>3. CASE UNCHANGED fragVars
  BY <1>3 DEF fragVars, FragInv, FragTyped, NotComeRound, RebuiltTiles, RebuiltWhole
<1> QED
  BY <1>1, <1>2, <1>3 DEF FragNext

(* What the invariant says of a packet all of whose pieces arrived, and of *)
(* the runs of the others.                                                 *)
LEMMA FragRunsApart ==
  ASSUME FragInv
  PROVE  RunsApart
<1>1. MapWell(lru, packets, setting) /\ SentWell(packets, setting.ids)
  BY DEF FragInv
<1>2. lru \in Seq(Entry)
  BY <1>1 DEF MapWell
<1>3. ASSUME NotComeRound, NEW e \in ToSet(lru), NEW i \in 1..(Len(e.frags) - 1)
      PROVE  e.frags[i].end < e.frags[i + 1].start
  <2>1. PICK h \in 1..Len(lru) : e = lru[h]
    BY <1>2, SeqIs
  <2>2. PICK p \in 1..Len(packets) : Apart(packets[p], e.frags)
    BY <1>3, <2>1 DEF FragInv, Unmixed, Belongs
  <2>3. e.frags \in Seq(RunSet) /\ \A a, b \in 1..Len(e.frags) : a < b => e.frags[a].end < e.frags[b].start
    BY <2>2 DEF Apart
  <2>4. PICK l \in Nat : l = Len(e.frags)
    BY <2>3, SeqIs
  <2>5. i \in 1..l /\ i + 1 \in 1..l /\ i < i + 1
    BY <2>4
  <2> QED
    BY <2>3, <2>4, <2>5
<1> QED
  BY <1>3 DEF RunsApart

LEMMA FragArrived ==
  ASSUME FragInv
  PROVE  ArrivedRebuilt
<1>1. MapWell(lru, packets, setting) /\ SentWell(packets, setting.ids) /\ FragTyped
  BY DEF FragInv
<1>2. packets \in Seq(Seq(Piece)) /\ DOMAIN packets = 1..Len(packets)
  BY <1>1, SeqIs DEF SentWell
<1>3. PICK n \in Nat \ {0} : n = setting.ids
  BY <1>1, SettingIs DEF FragTyped
<1>4. ASSUME ~setting.dups, Len(packets) <= setting.capacity, NotComeRound, NEW p \in 1..Len(packets),
             \A f \in flying : f.data[1].pkt # p, p \notin done
      PROVE  FALSE
  <2>1. Quiet(packets, setting) /\ Numbered(packets, counter, n) /\ Unmixed(lru, packets) /\ Len(packets) <= n
    BY <1>3, <1>4 DEF Quiet, NotComeRound, FragInv
  <2>2. PICK P : P = packets[p] /\ Cut(P, p)
    BY <1>1 DEF SentWell
  <2>3. Awaited(P, flying, lru)
    BY <1>4, <2>1, <2>2 DEF FragInv, Arrival
  <2>4. PICK l \in Nat : l = Len(P) /\ l > 0
    BY <2>2, CutFacts
  <2>5. ASSUME NEW c \in 1..l PROVE InMap(lru, P[1].id, P[c])
    <3>1. PICK f : f = Span(P, c, c)
      OBVIOUS
    <3>2. c <= c /\ c \in 1..Len(P)
      BY <2>4
    <3>3. SpanWell(P, c, c, f)
      BY <2>2, <3>1, <3>2, SpanIs
    <3>4. 1 \in 1..(c - c + 1) /\ c + 1 - 1 = c
      BY <3>2
    <3>5. f.data[1] = P[c]
      BY <3>3, <3>4 DEF SpanWell
    <3>6. P[c].pkt = p
      BY <2>2, <3>2, CutFacts
    <3>7. f \notin flying
      BY <1>4, <3>5, <3>6
    <3> QED
      BY <2>3, <3>1, <3>2, <3>7 DEF Awaited
  <2>6. 1 \in 1..l
    BY <2>4
  <2>7. PICK i \in 1..Len(lru) : lru[i].id = P[1].id
    BY <2>5, <2>6 DEF InMap
  <2>8. PICK runs : runs = lru[i].frags
    OBVIOUS
  <2>9. OneEach(lru) /\ EntryWell(lru[i], packets, setting)
    BY <1>1 DEF MapWell
  <2>10. \A j \in 1..Len(lru) : lru[j].id = P[1].id => j = i
    BY <2>7, <2>9 DEF OneEach
  <2>11. \A c \in 1..Len(P) : Covered(runs, P[c])
    BY <2>4, <2>5, <2>8, <2>10 DEF InMap
  <2>12. IdsApart(packets, p)
    BY <1>1, <1>3, <2>1, NumberedApart
  <2>13. Apart(P, runs)
    <3>1. PICK q \in 1..Len(packets) : packets[q][1].id = lru[i].id /\ Apart(packets[q], runs)
      BY <2>1, <2>8 DEF Unmixed, Belongs
    <3>2. q = p
      BY <2>2, <2>7, <2>12, <3>1 DEF IdsApart
    <3> QED
      BY <2>2, <3>1, <3>2
  <2>14. try_complete(runs)
    BY <2>2, <2>11, <2>13, CoveredComplete
  <2> QED
    BY <2>8, <2>9, <2>14 DEF EntryWell
<1> QED
  BY <1>2, <1>4 DEF ArrivedRebuilt

LEMMA FragImplies ==
  ASSUME FragInv
  PROVE  FragmentsRejoined
<1>1. MapWell(lru, packets, setting) /\ SentWell(packets, setting.ids) /\ FragTyped
  BY DEF FragInv
<1>2. packets \in Seq(Seq(Piece)) /\ DOMAIN packets = 1..Len(packets)
  BY <1>1, SeqIs DEF SentWell
<1>3. lru \in Seq(Entry) /\ DOMAIN lru = 1..Len(lru)
  BY <1>1, SeqIs DEF MapWell
<1>4. \A e \in ToSet(lru) : e.id \in 0..(setting.ids - 1) /\ e.frags # <<>>
  <2>1. ASSUME NEW e \in ToSet(lru) PROVE e.id \in 0..(setting.ids - 1) /\ e.frags # <<>>
    <3>1. PICK i \in 1..Len(lru) : e = lru[i]
      BY <1>3, SeqIs
    <3> QED
      BY <1>1, <3>1 DEF MapWell, EntryWell
  <2> QED
    BY <2>1
<1>5. Len(lru) <= setting.capacity /\ \A i, j \in DOMAIN lru : lru[i].id = lru[j].id => i = j
  BY <1>1, <1>3 DEF MapWell, OneEach
<1>6. FragTypeOK
  BY <1>1, <1>2, <1>4, <1>5 DEF FragTypeOK, FragTyped
<1>7. RebuiltTiles /\ RebuiltWhole
  BY DEF FragInv
<1> QED
  BY <1>6, <1>7, FragRunsApart, FragArrived DEF FragmentsRejoined

(* Reassembly is exact in every order of arrival, for every number of ids, *)
(* every capacity of the map and every size of packet and path MTU that    *)
(* the code allows: what fragment_map.rs rebuilds was sent, its runs stay  *)
(* sorted and apart, and a packet all of whose fragments arrived has been  *)
(* rebuilt, as far as ids, duplicates and the capacity allow.              *)
THEOREM FragmentsAreRejoined == FragSpec => []FragmentsRejoined
<1>1. FragInit => FragInv
  BY FragStart
<1>2. FragInv /\ [FragNext]_fragVars => FragInv'
  BY FragStep
<1>3. FragInv => FragmentsRejoined
  BY FragImplies
<1> QED
  BY <1>1, <1>2, <1>3, PTL DEF FragSpec
-----------------------------------------------------------------------------
(* A function defined from the value before exists, and stays in its set.  *)
Unrolled(S, n, base, next, g) ==
  g \in [0..n -> S] /\ g[0] = base /\ \A i \in 1..n : g[i] = next[<<g[i - 1], i>>]

LEMMA Unrolls ==
  ASSUME NEW S, NEW n \in Nat, NEW base \in S, NEW next \in [S \X (1..n) -> S]
  PROVE  \E g : Unrolled(S, n, base, next, g)
<1> DEFINE K == {m \in 0..n : ~\E g : Unrolled(S, m, base, next, g)}
<1>1. K = {}
  <2>1. SUFFICES ASSUME K # {} PROVE FALSE
    OBVIOUS
  <2>2. PICK m \in K : \A k \in K : m <= k
    <3>1. K \in SUBSET Nat
      OBVIOUS
    <3> HIDE DEF K
    <3> QED
      BY <2>1, <3>1, LeastExists
  <2>3. m \in 0..n /\ ~\E g : Unrolled(S, m, base, next, g)
    OBVIOUS
  <2>4. CASE m = 0
    <3>1. Unrolled(S, 0, base, next, [i \in 0..0 |-> base])
      BY DEF Unrolled
    <3> QED
      BY <2>3, <2>4, <3>1
  <2>5. CASE m # 0
    <3>1. PICK l \in 0..n : m = l + 1
      BY <2>3, <2>5
    <3>2. l \notin K
      BY <2>2, <3>1
    <3>3. PICK g : Unrolled(S, l, base, next, g)
      BY <3>2
    <3>4. PICK x : x = next[<<g[l], m>>]
      OBVIOUS
    <3>5. x \in S
      <4>1. g[l] \in S /\ m \in 1..n
        BY <2>3, <3>1, <3>3 DEF Unrolled
      <4> QED
        BY <3>4, <4>1
    <3>6. PICK h : h = [i \in 0..m |-> IF i = m THEN x ELSE g[i]]
      OBVIOUS
    <3>7. \A i \in 0..m : i # m => i \in 0..l /\ h[i] = g[i] /\ g[i] \in S
      BY <3>1, <3>3, <3>6 DEF Unrolled
    <3>8. h \in [0..m -> S]
      BY <3>5, <3>6, <3>7
    <3>9. h[0] = base /\ h[m] = x
      BY <3>1, <3>3, <3>6, <3>7 DEF Unrolled
    <3>10. ASSUME NEW i \in 1..m PROVE h[i] = next[<<h[i - 1], i>>]
      <4>1. i - 1 \in 0..m /\ i - 1 # m
        BY <3>1
      <4>2. CASE i = m
        <5>1. i - 1 = l /\ h[l] = g[l]
          BY <3>1, <3>7, <4>2
        <5> QED
          BY <3>4, <3>9, <4>2, <5>1
      <4>3. CASE i # m
        <5>1. i \in 1..l /\ i \in 0..m /\ h[i] = g[i] /\ h[i - 1] = g[i - 1]
          BY <3>1, <3>7, <4>1, <4>3
        <5>2. g[i] = next[<<g[i - 1], i>>]
          BY <3>3, <5>1 DEF Unrolled
        <5> QED
          BY <5>1, <5>2
      <4> QED
        BY <4>2, <4>3
    <3>11. Unrolled(S, m, base, next, h)
      BY <3>8, <3>9, <3>10 DEF Unrolled
    <3> QED
      BY <2>3, <3>11
  <2> QED
    BY <2>4, <2>5
<1> QED
  BY <1>1

(* The record that carries a call, and what a frame's turn makes of it.    *)
FrameSet == [id : Nat, kind : {"tcp", "control"}, size : Nat \ {0}]
WireSet == IF conn.stream THEN Nat \X Int ELSE Nat
AccSet(p) ==
  [queue : Seq(FrameSet), rest : Seq(FrameSet), held : Nat, wire : Seq(WireSet), room : Nat, fails : BOOLEAN, plugin : {p},
   open : BOOLEAN, buf : Seq(FrameSet), stop : BOOLEAN, err : BOOLEAN, lost : SUBSET Nat, taken : SUBSET Nat]

UnitId(u) == IF conn.stream THEN u[1] ELSE u
On(w, id) == \E i \in 1..Len(w) : UnitId(w[i]) = id
More(w, v, id) ==
  /\ v \in Seq(WireSet) /\ Len(v) >= Len(w) /\ \A i \in 1..Len(w) : v[i] = w[i]
  /\ \A i \in 1..Len(v) : i > Len(w) => UnitId(v[i]) = id

Retains(acc, r) ==
  /\ r.queue = acc.queue /\ r.fails = acc.fails /\ r.plugin = acc.plugin /\ r.open = acc.open /\ r.taken = acc.taken
  /\ r.buf = acc.buf
Went(acc, f, r) ==
  /\ ~r.stop /\ r.rest = acc.rest /\ r.err = acc.err
  /\ r.lost = acc.lost \cup {f.id} \/ (r.lost = acc.lost /\ On(r.wire, f.id))
Failed(acc, f, r) == r.stop /\ r.err /\ r.rest = acc.rest /\ r.lost = acc.lost \cup {f.id}
Blocked(acc, f, r) == r.stop /\ r.err = acc.err /\ r.rest = Append(acc.rest, f) /\ r.lost = acc.lost
Tried(acc, f, r) ==
  Retains(acc, r) /\ More(acc.wire, r.wire, f.id) /\ (Went(acc, f, r) \/ Failed(acc, f, r) \/ Blocked(acc, f, r))

LEMMA LeastIs ==
  ASSUME NEW a \in Nat, NEW b \in Nat
  PROVE  Least(a, b) \in Nat /\ Least(a, b) <= a /\ Least(a, b) <= b
BY DEF Least

LEMMA AccIs ==
  ASSUME NEW p, NEW acc \in AccSet(p)
  PROVE  /\ acc.queue \in Seq(FrameSet) /\ acc.rest \in Seq(FrameSet) /\ acc.held \in Nat /\ acc.wire \in Seq(WireSet)
         /\ acc.room \in Nat /\ acc.fails \in BOOLEAN /\ acc.plugin = p /\ acc.open \in BOOLEAN /\ acc.buf \in Seq(FrameSet)
         /\ acc.stop \in BOOLEAN /\ acc.err \in BOOLEAN /\ acc.lost \subseteq Nat /\ acc.taken \subseteq Nat
BY DEF AccSet

LEMMA MoreSame ==
  ASSUME NEW w \in Seq(WireSet), NEW id
  PROVE  More(w, w, id)
<1>1. Len(w) \in Nat
  OBVIOUS
<1> QED
  BY <1>1 DEF More

Joins(w, u, v, id) ==
  /\ More(w, v, id) /\ Len(v) = Len(w) + Len(u)
  /\ \A i \in 1..Len(u) : v[Len(w) + i] = u[i]
  /\ Len(u) > 0 => On(v, id)

LEMMA MoreIs ==
  ASSUME NEW w \in Seq(WireSet), NEW u \in Seq(WireSet), NEW id, \A i \in 1..Len(u) : UnitId(u[i]) = id, NEW v, v = w \o u
  PROVE  Joins(w, u, v, id)
<1>1. PICK n \in Nat, m \in Nat : n = Len(w) /\ m = Len(u)
  OBVIOUS
<1>2. /\ v \in Seq(WireSet) /\ Len(v) = n + m
      /\ \A i \in 1..(n + m) : v[i] = IF i <= n THEN w[i] ELSE u[i - n]
  BY <1>1, ConcatProperties
<1>3. \A i \in 1..n : v[i] = w[i]
  BY <1>2
<1>4. ASSUME NEW i \in 1..m PROVE v[n + i] = u[i]
  <2>1. n + i \in 1..(n + m) /\ ~(n + i <= n) /\ (n + i) - n = i
    OBVIOUS
  <2> QED
    BY <1>2, <2>1
<1>5. ASSUME NEW i \in 1..(n + m), i > n PROVE UnitId(v[i]) = id
  <2>1. i - n \in 1..m /\ ~(i <= n)
    BY <1>5
  <2>2. v[i] = u[i - n]
    BY <1>2, <2>1
  <2> QED
    BY <1>1, <2>1, <2>2
<1>6. ASSUME m > 0 PROVE On(v, id)
  <2>1. n + m \in 1..(n + m) /\ n + m > n
    BY <1>6
  <2> QED
    BY <1>2, <1>5, <2>1 DEF On
<1> QED
  BY <1>1, <1>2, <1>3, <1>4, <1>5, <1>6 DEF More, Joins

LEMMA UnitsAre ==
  ASSUME conn.stream, NEW f \in FrameSet, NEW from \in Int, NEW n \in Nat, NEW u, u = Units(f, from, n)
  PROVE  /\ u \in Seq(WireSet) /\ Len(u) = n
         /\ \A i \in 1..n : u[i] = <<f.id, from + i - 1>> /\ UnitId(u[i]) = f.id
<1>1. f.id \in Nat
  BY DEF FrameSet
<1>2. u = [i \in 1..n |-> <<f.id, from + i - 1>>]
  BY DEF Units
<1>3. WireSet = Nat \X Int
  BY DEF WireSet
<1>4. \A i \in 1..n : <<f.id, from + i - 1>> \in WireSet
  BY <1>1, <1>3
<1>5. u \in Seq(WireSet) /\ Len(u) = n
  <2>1. u \in [1..n -> WireSet]
    BY <1>2, <1>4
  <2> QED
    BY <2>1
<1>6. \A i \in 1..n : u[i] = <<f.id, from + i - 1>>
  BY <1>2
<1> QED
  BY <1>5, <1>6 DEF UnitId

(* Copies of a datagram.                                                   *)
LEMMA CopiesAre ==
  ASSUME ~conn.stream, NEW f \in FrameSet, NEW n \in Nat, NEW u, u = [i \in 1..n |-> f.id]
  PROVE  u \in Seq(WireSet) /\ Len(u) = n /\ \A i \in 1..n : UnitId(u[i]) = f.id
<1>1. f.id \in Nat
  BY DEF FrameSet
<1>2. WireSet = Nat
  BY DEF WireSet
<1>3. u \in Seq(WireSet) /\ Len(u) = n
  BY <1>1, <1>2
<1> QED
  BY <1>3 DEF UnitId

(* What is left of a frame on a stream, and where on the wire it goes on.  *)
Left(acc, f) == IF acc.held = 0 THEN f.size ELSE acc.held
TcpDrops(acc, f, r) == acc.held = 0 /\ r = [acc EXCEPT !.lost = @ \cup {f.id}]
TcpErrs(acc, f, r) == acc.held = 0 /\ r = [acc EXCEPT !.stop = TRUE, !.err = TRUE, !.lost = @ \cup {f.id}]
TcpSent(acc, f, n, s) ==
  s = [acc EXCEPT !.wire = @ \o Units(f, f.size - Left(acc, f) + 1, n), !.room = @ - n, !.held = Left(acc, f) - n]

LEMMA TcpIs ==
  ASSUME NEW p, NEW acc \in AccSet(p), NEW f \in FrameSet, NEW r, r = tcp_send(acc, f)
  PROVE  \/ TcpDrops(acc, f, r) \/ TcpErrs(acc, f, r)
         \/ \E n \in Nat : \E s : /\ n <= Left(acc, f) /\ n <= acc.room /\ TcpSent(acc, f, n, s)
                              /\ r = IF n = Left(acc, f) THEN s ELSE Stop(s, f)
<1>1. Left(acc, f) \in Nat /\ acc.room \in Nat
  BY DEF Left, AccSet, FrameSet
<1>2. PICK n \in Nat : n = Least(acc.room, Left(acc, f)) /\ n <= Left(acc, f) /\ n <= acc.room
  BY <1>1, LeastIs
<1>3. PICK s : TcpSent(acc, f, n, s)
  BY DEF TcpSent
<1>4. CASE acc.held = 0 /\ acc.plugin[f.id] = "drop"
  BY <1>4 DEF tcp_send, TcpDrops
<1>5. CASE acc.held = 0 /\ acc.plugin[f.id] = "error"
  BY <1>5 DEF tcp_send, TcpErrs
<1>6. CASE ~(acc.held = 0 /\ acc.plugin[f.id] = "drop") /\ ~(acc.held = 0 /\ acc.plugin[f.id] = "error")
  <2>1. r = IF n = Left(acc, f) THEN s ELSE Stop(s, f)
    BY <1>2, <1>3, <1>6 DEF tcp_send, TcpSent, Left
  <2> QED
    BY <1>2, <1>3, <2>1
<1> QED
  BY <1>4, <1>5, <1>6

LEMMA StopIs ==
  ASSUME NEW p, NEW s \in AccSet(p), NEW f \in FrameSet, NEW r, r = Stop(s, f)
  PROVE  /\ r \in AccSet(p) /\ Retains(s, r) /\ r.wire = s.wire /\ r.held = s.held
         /\ Failed(s, f, r) \/ Blocked(s, f, r)
<1>1. f.id \in Nat /\ s.lost \cup {f.id} \in SUBSET Nat /\ Append(s.rest, f) \in Seq(FrameSet)
  BY DEF AccSet, FrameSet
<1>2. CASE s.fails
  <2>1. r = [s EXCEPT !.stop = TRUE, !.err = TRUE, !.lost = s.lost \cup {f.id}]
    BY <1>2 DEF Stop
  <2>2. r \in AccSet(p)
    BY <1>1, <2>1 DEF AccSet
  <2>3. Retains(s, r) /\ r.wire = s.wire /\ r.held = s.held
    BY <2>1 DEF AccSet, Retains
  <2>4. Failed(s, f, r)
    BY <2>1 DEF AccSet, Failed
  <2> QED
    BY <2>2, <2>3, <2>4
<1>3. CASE ~s.fails
  <2>1. r = [s EXCEPT !.stop = TRUE, !.rest = Append(s.rest, f)]
    BY <1>3 DEF Stop
  <2>2. r \in AccSet(p)
    BY <1>1, <2>1 DEF AccSet
  <2>3. Retains(s, r) /\ r.wire = s.wire /\ r.held = s.held
    BY <2>1 DEF AccSet, Retains
  <2>4. Blocked(s, f, r)
    BY <2>1 DEF AccSet, Blocked
  <2> QED
    BY <2>2, <2>3, <2>4
<1> QED
  BY <1>2, <1>3

Discards(acc, f, r) ==
  \/ r = [acc EXCEPT !.lost = acc.lost \cup {f.id}]
  \/ r = [acc EXCEPT !.stop = TRUE, !.err = TRUE, !.lost = acc.lost \cup {f.id}]

LEMMA LostIs ==
  ASSUME NEW p, NEW acc \in AccSet(p), NEW f \in FrameSet, NEW r, ~acc.stop, Discards(acc, f, r)
  PROVE  r \in AccSet(p) /\ Tried(acc, f, r) /\ r.wire = acc.wire /\ r.held = acc.held
<1>1. f.id \in Nat /\ acc.lost \cup {f.id} \in SUBSET Nat
  BY DEF AccSet, FrameSet
<1>2. r \in AccSet(p)
  BY <1>1 DEF AccSet, Discards
<1>3. /\ Retains(acc, r) /\ r.wire = acc.wire /\ r.held = acc.held /\ r.rest = acc.rest /\ r.lost = acc.lost \cup {f.id}
      /\ (~r.stop /\ r.err = acc.err) \/ (r.stop /\ r.err)
  BY DEF AccSet, Retains, Discards
<1>4. More(acc.wire, r.wire, f.id)
  BY <1>3, AccIs, MoreSame
<1> QED
  BY <1>2, <1>3, <1>4 DEF Tried, Went, Failed

(* Part of a frame, or all of it, on the wire.                             *)
WireLonger(acc, s, f) ==
  /\ Retains(acc, s) /\ s.rest = acc.rest /\ s.stop = acc.stop /\ s.err = acc.err /\ s.lost = acc.lost
  /\ More(acc.wire, s.wire, f.id)

LEMMA LongerTried ==
  ASSUME NEW p, NEW acc \in AccSet(p), NEW f \in FrameSet, NEW s \in AccSet(p), ~acc.stop, WireLonger(acc, s, f),
         NEW whole \in BOOLEAN, whole => On(s.wire, f.id), NEW r, r = IF whole THEN s ELSE Stop(s, f)
  PROVE  r \in AccSet(p) /\ Tried(acc, f, r) /\ r.wire = s.wire /\ r.held = s.held /\ r.stop = ~whole
<1>1. CASE whole
  <2>1. r = s
    BY <1>1
  <2>2. Went(acc, f, r)
    BY <1>1, <2>1 DEF WireLonger, Went
  <2> QED
    BY <1>1, <2>1, <2>2, AccIs DEF Tried, WireLonger
<1>2. CASE ~whole
  <2>1. r = Stop(s, f)
    BY <1>2
  <2>2. /\ r \in AccSet(p) /\ Retains(s, r) /\ r.wire = s.wire /\ r.held = s.held
        /\ Failed(s, f, r) \/ Blocked(s, f, r)
    BY <2>1, StopIs
  <2>3. Retains(acc, r) /\ More(acc.wire, r.wire, f.id)
    BY <2>2 DEF WireLonger, Retains
  <2>4. Failed(acc, f, r) \/ Blocked(acc, f, r)
    BY <2>2 DEF WireLonger, Failed, Blocked
  <2>5. r.stop
    BY <2>4 DEF Failed, Blocked
  <2> QED
    BY <1>2, <2>2, <2>3, <2>4, <2>5, AccIs DEF Tried
<1> QED
  BY <1>1, <1>2

Put(w, v, f, left, n) ==
  /\ Len(v) = Len(w) + n /\ \A i \in 1..Len(w) : v[i] = w[i]
  /\ \A i \in 1..n : v[Len(w) + i] = <<f.id, (f.size - left) + i>>

LEMMA TcpSentIs ==
  ASSUME conn.stream, NEW p, NEW acc \in AccSet(p), NEW f \in FrameSet, NEW n \in Nat, n <= Left(acc, f), n <= acc.room,
         NEW s, TcpSent(acc, f, n, s)
  PROVE  /\ s \in AccSet(p) /\ WireLonger(acc, s, f) /\ s.held = Left(acc, f) - n /\ Left(acc, f) > 0
         /\ n > 0 => On(s.wire, f.id)
         /\ Put(acc.wire, s.wire, f, Left(acc, f), n)
<1>1. PICK left \in Nat : left = Left(acc, f) /\ left > 0
  BY DEF Left, AccSet, FrameSet
<1>2. f.size \in Nat /\ f.id \in Nat
  BY DEF FrameSet
<1>3. PICK from \in Int : from = f.size - left + 1
  BY <1>2
<1>4. PICK u : u = Units(f, from, n)
  OBVIOUS
<1>5. /\ u \in Seq(WireSet) /\ Len(u) = n
      /\ \A i \in 1..n : u[i] = <<f.id, from + i - 1>> /\ UnitId(u[i]) = f.id
  BY <1>4, UnitsAre
<1>6. acc.wire \in Seq(WireSet) /\ acc.room \in Nat
  BY AccIs
<1>7. PICK v : v = acc.wire \o u
  OBVIOUS
<1>8. /\ More(acc.wire, v, f.id) /\ Len(v) = Len(acc.wire) + n
      /\ \A i \in 1..n : v[Len(acc.wire) + i] = u[i]
      /\ n > 0 => On(v, f.id)
  <2>1. \A i \in 1..Len(u) : UnitId(u[i]) = f.id
    BY <1>5
  <2>2. Joins(acc.wire, u, v, f.id)
    BY <1>5, <1>6, <1>7, <2>1, MoreIs
  <2> QED
    BY <1>5, <2>2 DEF Joins
<1>9. PICK a \in Nat, h \in Nat : a = acc.room - n /\ h = left - n
  BY <1>1, <1>6
<1>10. s = [acc EXCEPT !.wire = v, !.room = a, !.held = h]
  BY <1>1, <1>3, <1>4, <1>7, <1>9 DEF TcpSent
<1>11. v \in Seq(WireSet)
  BY <1>8 DEF More
<1>12. s \in AccSet(p)
  BY <1>10, <1>11 DEF AccSet
<1>13. /\ Retains(acc, s) /\ s.rest = acc.rest /\ s.stop = acc.stop /\ s.err = acc.err /\ s.lost = acc.lost
       /\ s.wire = v /\ s.held = h
  BY <1>10 DEF AccSet, Retains
<1>14. \A i \in 1..n : from + i - 1 = (f.size - left) + i
  BY <1>2, <1>3
<1>15. \A i \in 1..n : v[Len(acc.wire) + i] = <<f.id, (f.size - left) + i>>
  BY <1>5, <1>8, <1>14
<1>16. Put(acc.wire, v, f, left, n)
  BY <1>8, <1>15 DEF Put, More
<1> QED
  BY <1>1, <1>8, <1>9, <1>12, <1>13, <1>16 DEF WireLonger

LEMMA TcpTried ==
  ASSUME conn.stream, NEW p, NEW acc \in AccSet(p), ~acc.stop, NEW f \in FrameSet, NEW r, r = tcp_send(acc, f)
  PROVE  r \in AccSet(p) /\ Tried(acc, f, r)
<1>1. CASE TcpDrops(acc, f, r) \/ TcpErrs(acc, f, r)
  <2>1. Discards(acc, f, r)
    BY <1>1 DEF TcpDrops, TcpErrs, Discards
  <2> QED
    BY <2>1, LostIs
<1>2. ASSUME NEW n \in Nat, NEW s, n <= Left(acc, f), n <= acc.room, TcpSent(acc, f, n, s),
             r = IF n = Left(acc, f) THEN s ELSE Stop(s, f)
      PROVE  r \in AccSet(p) /\ Tried(acc, f, r)
  <2>1. s \in AccSet(p) /\ WireLonger(acc, s, f) /\ Left(acc, f) > 0 /\ (n > 0 => On(s.wire, f.id))
    BY <1>2, TcpSentIs
  <2>2. PICK whole \in BOOLEAN : whole = (n = Left(acc, f))
    OBVIOUS
  <2>3. (whole => On(s.wire, f.id)) /\ r = IF whole THEN s ELSE Stop(s, f)
    BY <1>2, <2>1, <2>2
  <2> QED
    BY <2>1, <2>3, LongerTried
<1> QED
  BY <1>1, <1>2, TcpIs

(* Copies of a datagram, or a place in the open batch.                     *)
UdpSent(acc, f, n, s) == s = [acc EXCEPT !.wire = @ \o [i \in 1..n |-> f.id], !.room = @ - n]

LEMMA UdpIs ==
  ASSUME NEW p, NEW acc \in AccSet(p), ~acc.open, NEW f \in FrameSet, NEW r, r = udp_send(acc, f)
  PROVE  \/ Discards(acc, f, r)
         \/ \E n \in Nat, c \in Nat : \E s : /\ c > 0 /\ n <= acc.room /\ UdpSent(acc, f, n, s)
                                         /\ r = IF n = c THEN s ELSE Stop(s, f)
<1>1. PICK c \in Nat : c > 0 /\ c = IF conn.aggressive THEN 3 ELSE 1
  OBVIOUS
<1>2. acc.room \in Nat
  BY AccIs
<1>3. PICK n \in Nat : n = Least(acc.room, c) /\ n <= acc.room
  BY <1>1, <1>2, LeastIs
<1>4. PICK s : UdpSent(acc, f, n, s)
  BY DEF UdpSent
<1>5. CASE acc.plugin[f.id] = "drop"
  BY <1>5 DEF udp_send, Discards
<1>6. CASE acc.plugin[f.id] = "error"
  BY <1>6 DEF udp_send, Discards
<1>7. CASE acc.plugin[f.id] # "drop" /\ acc.plugin[f.id] # "error"
  <2>1. r = IF n = c THEN s ELSE Stop(s, f)
    BY <1>1, <1>3, <1>4, <1>7 DEF udp_send, UdpSent
  <2> QED
    BY <1>1, <1>3, <1>4, <2>1
<1> QED
  BY <1>5, <1>6, <1>7

LEMMA UdpTried ==
  ASSUME ~conn.stream, NEW p, NEW acc \in AccSet(p), ~acc.open, ~acc.stop, NEW f \in FrameSet, NEW r, r = udp_send(acc, f)
  PROVE  r \in AccSet(p) /\ Tried(acc, f, r) /\ r.held = acc.held
<1>1. CASE Discards(acc, f, r)
  <2>1. r \in AccSet(p) /\ Tried(acc, f, r) /\ r.held = acc.held
    BY <1>1, LostIs
  <2> QED
    BY <2>1
<1>2. ASSUME NEW n \in Nat, NEW c \in Nat, NEW s, c > 0, n <= acc.room, UdpSent(acc, f, n, s),
             r = IF n = c THEN s ELSE Stop(s, f)
      PROVE  r \in AccSet(p) /\ Tried(acc, f, r) /\ r.held = acc.held
  <2>1. PICK u : u = [i \in 1..n |-> f.id]
    OBVIOUS
  <2>2. u \in Seq(WireSet) /\ Len(u) = n /\ \A i \in 1..n : UnitId(u[i]) = f.id
    BY <2>1, CopiesAre
  <2>3. acc.wire \in Seq(WireSet) /\ acc.room \in Nat
    BY AccIs
  <2>4. PICK v : v = acc.wire \o u
    OBVIOUS
  <2>5. More(acc.wire, v, f.id) /\ (n > 0 => On(v, f.id))
    BY <2>2, <2>3, <2>4, MoreIs DEF Joins
  <2>6. PICK a \in Nat : a = acc.room - n
    BY <1>2, <2>3
  <2>7. s = [acc EXCEPT !.wire = v, !.room = a]
    BY <1>2, <2>1, <2>4, <2>6 DEF UdpSent
  <2>8. v \in Seq(WireSet)
    BY <2>5 DEF More
  <2>9. s \in AccSet(p)
    BY <2>7, <2>8 DEF AccSet
  <2>10. /\ Retains(acc, s) /\ s.rest = acc.rest /\ s.stop = acc.stop /\ s.err = acc.err /\ s.lost = acc.lost
         /\ s.wire = v /\ s.held = acc.held
    BY <2>7 DEF AccSet, Retains
  <2>11. WireLonger(acc, s, f)
    BY <2>5, <2>10 DEF WireLonger
  <2>12. PICK whole \in BOOLEAN : whole = (n = c)
    OBVIOUS
  <2>13. (whole => On(s.wire, f.id)) /\ r = IF whole THEN s ELSE Stop(s, f)
    BY <1>2, <2>5, <2>10, <2>12
  <2>14. r \in AccSet(p) /\ Tried(acc, f, r) /\ r.held = s.held
    BY <2>9, <2>11, <2>13, LongerTried
  <2> QED
    BY <2>10, <2>14
<1> QED
  BY <1>1, <1>2, UdpIs

LEMMA UdpOpen ==
  ASSUME NEW p, NEW acc \in AccSet(p), acc.open, NEW f \in FrameSet, NEW r, r = udp_send(acc, f)
  PROVE  r = [acc EXCEPT !.buf = Append(acc.buf, f)] /\ r \in AccSet(p)
<1>1. r = [acc EXCEPT !.buf = Append(acc.buf, f)]
  BY DEF udp_send
<1>2. Append(acc.buf, f) \in Seq(FrameSet)
  BY AccIs
<1> QED
  BY <1>1, <1>2 DEF AccSet

(* A stream: its units follow each other, and the frame at the head of the *)
(* queue goes on where the wire ends.                                      *)
Follows(a, b) == (b[1] = a[1] /\ b[2] = a[2] + 1) \/ (b[1] > a[1] /\ b[2] = 1)
StreamOk(w) == \A i \in 1..(Len(w) - 1) : Follows(w[i], w[i + 1])
Before(w, f) == Len(w) = 0 \/ w[Len(w)][1] < f.id
UpTo(w, f) == Len(w) = 0 \/ w[Len(w)][1] <= f.id
Begun(h, w, f) ==
  /\ h \in 1..f.size
  /\ (h = f.size /\ Before(w, f)) \/ (Len(w) # 0 /\ w[Len(w)] = <<f.id, f.size - h>>)
Ready(h, w, f) == (h = 0 /\ Before(w, f)) \/ Begun(h, w, f)

LEMMA StreamGrows ==
  ASSUME conn.stream, NEW w \in Seq(WireSet), NEW v \in Seq(WireSet), NEW f \in FrameSet, NEW h \in Nat, Ready(h, w, f), StreamOk(w),
         NEW left \in Nat, left = IF h = 0 THEN f.size ELSE h, NEW n \in Nat, n <= left,
         Put(w, v, f, left, n)
  PROVE  /\ StreamOk(v)
         /\ n = left => UpTo(v, f)
         /\ n < left => Begun(left - n, v, f)
<1>1. PICK l \in Nat : l = Len(w)
  OBVIOUS
<1>2. PICK z \in Nat : z = f.size /\ z > 0 /\ f.id \in Nat
  BY DEF FrameSet
<1>3. \A i \in 1..n : v[l + i] = <<f.id, (z - left) + i>>
  BY <1>1, <1>2 DEF Put
<1>31. Len(v) = l + n /\ \A i \in 1..l : v[i] = w[i]
  BY <1>1 DEF Put
<1>4. (left = z /\ Before(w, f)) \/ (l # 0 /\ w[l] = <<f.id, z - left>>)
  BY <1>1, <1>2 DEF Ready, Begun
<1>5. left <= z /\ left > 0
  BY <1>2 DEF Ready, Begun
<1>6. ASSUME NEW i \in 1..((l + n) - 1) PROVE Follows(v[i], v[i + 1])
  <2>1. CASE i < l
    <3>1. i \in 1..(l - 1) /\ i \in 1..l /\ i + 1 \in 1..l
      BY <2>1
    <3>2. Follows(w[i], w[i + 1])
      BY <1>1, <3>1 DEF StreamOk
    <3> QED
      BY <1>1, <1>31, <3>1, <3>2
  <2>2. CASE i = l
    <3>1. l \in 1..l /\ 1 \in 1..n
      BY <2>2
    <3>2. v[i] = w[l] /\ v[i + 1] = <<f.id, (z - left) + 1>>
      BY <1>1, <1>31, <1>3, <2>2, <3>1
    <3>3. CASE left = z /\ Before(w, f)
      <4>1. w[l][1] < f.id
        BY <1>1, <3>1, <3>3 DEF Before
      <4>2. v[i + 1][1] = f.id /\ v[i + 1][2] = 1
        BY <1>2, <3>2, <3>3
      <4>3. w[l][1] \in Nat
        <5>1. w[l] \in WireSet
          BY <1>1, <3>1, ElementOfSeq
        <5> QED
          BY <5>1 DEF WireSet
      <4> QED
        BY <1>2, <3>2, <4>1, <4>2, <4>3 DEF Follows
    <3>4. CASE l # 0 /\ w[l] = <<f.id, z - left>>
      <4>1. v[i][1] = f.id /\ v[i][2] = z - left /\ v[i + 1][1] = f.id /\ v[i + 1][2] = (z - left) + 1
        BY <3>2, <3>4
      <4> QED
        BY <4>1 DEF Follows
    <3> QED
      BY <1>4, <3>3, <3>4
  <2>3. CASE i > l
    <3>1. PICK k \in 1..n : i = l + k /\ k + 1 \in 1..n /\ i + 1 = l + (k + 1)
      BY <2>3
    <3>2. v[i] = <<f.id, (z - left) + k>> /\ v[i + 1] = <<f.id, (z - left) + (k + 1)>>
      BY <1>3, <3>1
    <3>3. v[i][1] = f.id /\ v[i + 1][1] = f.id /\ v[i][2] = (z - left) + k /\ v[i + 1][2] = (z - left) + (k + 1)
      BY <3>2
    <3>4. v[i + 1][2] = v[i][2] + 1
      <4>1. PICK x \in Int, y \in Int : x = z - left /\ y = k
        OBVIOUS
      <4>2. v[i][2] = x + y /\ v[i + 1][2] = x + (y + 1)
        BY <3>3, <4>1
      <4> QED
        BY <4>2
    <3> QED
      BY <3>3, <3>4 DEF Follows
  <2> QED
    BY <2>1, <2>2, <2>3
<1>7. StreamOk(v)
  BY <1>1, <1>31, <1>6 DEF StreamOk
<1>8. ASSUME n > 0 PROVE Len(v) # 0 /\ v[Len(v)] = <<f.id, z - (left - n)>>
  <2>1. n \in 1..n /\ Len(v) = l + n
    BY <1>1, <1>31, <1>8
  <2>2. v[Len(v)] = <<f.id, (z - left) + n>>
    BY <1>3, <2>1
  <2>3. (z - left) + n = z - (left - n)
    OBVIOUS
  <2> QED
    BY <1>8, <2>1, <2>2, <2>3
<1>9. ASSUME n = left PROVE UpTo(v, f)
  <2>1. v[Len(v)][1] = f.id
    BY <1>5, <1>8, <1>9
  <2> QED
    BY <1>2, <2>1 DEF UpTo
<1>10. ASSUME n < left PROVE Begun(left - n, v, f)
  <2>1. left - n \in 1..z
    BY <1>5, <1>10
  <2>2. CASE n > 0
    BY <1>2, <1>8, <2>1, <2>2 DEF Begun
  <2>3. CASE n = 0
    <3>1. Len(v) = l /\ left - n = left /\ (l # 0 => v[l] = w[l])
      BY <1>1, <1>31, <2>3
    <3>2. Before(w, f) => Before(v, f)
      BY <1>1, <3>1 DEF Before
    <3> QED
      BY <1>1, <1>31, <1>2, <1>4, <2>1, <3>1, <3>2 DEF Begun
  <2> QED
    BY <2>2, <2>3
<1> QED
  BY <1>7, <1>9, <1>10

LEMMA TcpStream ==
  ASSUME conn.stream, NEW p, NEW acc \in AccSet(p), ~acc.stop, ~acc.err, NEW f \in FrameSet, NEW r, r = tcp_send(acc, f),
         StreamOk(acc.wire), Ready(acc.held, acc.wire, f)
  PROVE  /\ StreamOk(r.wire)
         /\ ~r.stop => r.held = 0 /\ UpTo(r.wire, f)
         /\ r.stop /\ ~r.err => Begun(r.held, r.wire, f)
<1>1. acc.held \in Nat /\ acc.wire \in Seq(WireSet)
  BY AccIs
<1>2. CASE TcpDrops(acc, f, r)
  <2>1. r.wire = acc.wire /\ r.held = 0 /\ ~r.stop /\ acc.held = 0
    BY <1>2 DEF TcpDrops, AccSet
  <2>2. Before(acc.wire, f)
    BY <2>1 DEF Ready, Begun
  <2>3. UpTo(acc.wire, f)
    <3>1. PICK l \in Nat : l = Len(acc.wire)
      BY <1>1
    <3>2. l # 0 => acc.wire[l][1] \in Nat
      <4>1. l # 0 => acc.wire[l] \in WireSet
        BY <1>1, <3>1, ElementOfSeq
      <4> QED
        BY <4>1 DEF WireSet
    <3>3. f.id \in Nat
      BY DEF FrameSet
    <3> QED
      BY <2>2, <3>1, <3>2, <3>3 DEF Before, UpTo
  <2> QED
    BY <2>1, <2>3
<1>3. CASE TcpErrs(acc, f, r)
  <2>1. r.wire = acc.wire /\ r.stop /\ r.err
    BY <1>3 DEF TcpErrs, AccSet
  <2> QED
    BY <2>1
<1>4. ASSUME NEW n \in Nat, NEW s, n <= Left(acc, f), n <= acc.room, TcpSent(acc, f, n, s),
             r = IF n = Left(acc, f) THEN s ELSE Stop(s, f)
      PROVE  /\ StreamOk(r.wire)
             /\ ~r.stop => r.held = 0 /\ UpTo(r.wire, f)
             /\ r.stop /\ ~r.err => Begun(r.held, r.wire, f)
  <2>1. PICK left \in Nat : left = Left(acc, f) /\ left = IF acc.held = 0 THEN f.size ELSE acc.held
    BY DEF Left, AccSet, FrameSet
  <2>2. /\ s \in AccSet(p) /\ WireLonger(acc, s, f) /\ s.held = left - n /\ left > 0 /\ (n > 0 => On(s.wire, f.id))
        /\ Put(acc.wire, s.wire, f, left, n)
    BY <1>4, <2>1, TcpSentIs
  <2>3. s.wire \in Seq(WireSet)
    BY <2>2, AccIs
  <2>4. /\ StreamOk(s.wire)
        /\ n = left => UpTo(s.wire, f)
        /\ n < left => Begun(left - n, s.wire, f)
    BY <1>1, <1>4, <2>1, <2>2, <2>3, StreamGrows
  <2>5. PICK whole \in BOOLEAN : whole = (n = left)
    OBVIOUS
  <2>6. (whole => On(s.wire, f.id)) /\ r = IF whole THEN s ELSE Stop(s, f)
    BY <1>4, <2>1, <2>2, <2>5
  <2>7. r.wire = s.wire /\ r.held = s.held /\ r.stop = ~whole
    BY <2>2, <2>6, LongerTried
  <2>8. ASSUME ~r.stop PROVE r.held = 0 /\ UpTo(r.wire, f)
    <3>1. n = left
      BY <2>5, <2>7, <2>8
    <3> QED
      BY <2>2, <2>4, <2>7, <3>1
  <2>9. ASSUME r.stop PROVE Begun(r.held, r.wire, f)
    <3>1. n < left
      <4>1. ~whole
        BY <2>7, <2>9
      <4>2. n # left
        BY <2>5, <4>1
      <4>3. n <= left
        BY <1>4, <2>1
      <4> QED
        BY <4>2, <4>3
    <3>2. r.held = left - n
      BY <2>2, <2>7
    <3> QED
      BY <2>4, <2>7, <3>1, <3>2
  <2> QED
    BY <2>4, <2>7, <2>8, <2>9
<1> QED
  BY <1>2, <1>3, <1>4, TcpIs

(* A turn of the loop, whatever came before it.                            *)
LEMMA TryTyped ==
  ASSUME NEW p, NEW acc \in AccSet(p), NEW f \in FrameSet
  PROVE  try_write(acc, f) \in AccSet(p)
<1>1. CASE acc.stop
  <2>1. Append(acc.rest, f) \in Seq(FrameSet)
    BY AccIs
  <2>2. try_write(acc, f) = [acc EXCEPT !.rest = Append(acc.rest, f)]
    BY <1>1 DEF try_write
  <2> QED
    BY <2>1, <2>2 DEF AccSet
<1>2. CASE ~acc.stop /\ conn.stream
  BY <1>2, TcpTried DEF try_write
<1>3. CASE ~acc.stop /\ ~conn.stream
  <2>1. acc.open => udp_send(acc, f) \in AccSet(p)
    BY UdpOpen
  <2>2. ~acc.open => udp_send(acc, f) \in AccSet(p)
    BY <1>3, UdpTried
  <2> QED
    BY <1>3, <2>1, <2>2 DEF try_write
<1> QED
  BY <1>1, <1>2, <1>3

Started(acc) == [acc EXCEPT !.rest = <<>>, !.stop = FALSE]

LEMMA StartedIs ==
  ASSUME NEW p, NEW acc \in AccSet(p), NEW s, s = Started(acc)
  PROVE  /\ s \in AccSet(p) /\ Retains(acc, s) /\ s.rest = <<>> /\ ~s.stop
         /\ s.held = acc.held /\ s.wire = acc.wire /\ s.err = acc.err /\ s.lost = acc.lost /\ s.room = acc.room
<1>1. <<>> \in Seq(FrameSet)
  OBVIOUS
<1>2. s \in AccSet(p)
  BY <1>1 DEF AccSet, Started
<1> QED
  BY <1>2 DEF AccSet, Started, Retains

(* The turns of a call's loop.                                             *)
Turns(p, acc, Q, g) ==
  /\ g \in [0..Len(Q) -> AccSet(p)] /\ g[0] = Started(acc)
  /\ \A i \in 1..Len(Q) : g[i] = try_write(g[i - 1], Q[i])
  /\ WriteAll(acc, Q) = g[Len(Q)]

LEMMA WritesAre ==
  ASSUME NEW p, NEW acc \in AccSet(p), NEW Q \in Seq(FrameSet)
  PROVE  \E g : Turns(p, acc, Q, g)
<1>1. PICK n \in Nat : n = Len(Q)
  OBVIOUS
<1>2. PICK base \in AccSet(p) : base = Started(acc)
  BY StartedIs
<1>3. PICK next : next = [x \in (AccSet(p)) \X (1..n) |-> try_write(x[1], Q[x[2]])]
  OBVIOUS
<1>4. next \in [(AccSet(p)) \X (1..n) -> AccSet(p)]
  <2>1. ASSUME NEW x \in (AccSet(p)) \X (1..n) PROVE try_write(x[1], Q[x[2]]) \in AccSet(p)
    <3>1. PICK y \in AccSet(p), i \in 1..n : x[1] = y /\ x[2] = i
      OBVIOUS
    <3>2. try_write(y, Q[i]) \in AccSet(p)
      <4>1. Q[i] \in FrameSet
        BY <1>1
      <4> QED
        BY <4>1, TryTyped
    <3> QED
      BY <3>1, <3>2
  <2> QED
    BY <1>3, <2>1
<1>5. PICK g : Unrolled(AccSet(p), n, base, next, g)
  BY <1>4, Unrolls
<1>6. /\ g \in [0..n -> AccSet(p)] /\ g[0] = base
      /\ \A i \in 1..n : g[i] = try_write(g[i - 1], Q[i])
  <2>1. g \in [0..n -> AccSet(p)] /\ g[0] = base /\ \A i \in 1..n : g[i] = next[<<g[i - 1], i>>]
    BY <1>5 DEF Unrolled
  <2>2. ASSUME NEW i \in 1..n PROVE g[i] = try_write(g[i - 1], Q[i])
    <3>1. i - 1 \in 0..n
      OBVIOUS
    <3>2. g[i - 1] \in AccSet(p)
      BY <2>1, <3>1
    <3>3. <<g[i - 1], i>> \in (AccSet(p)) \X (1..n)
      BY <3>2
    <3> QED
      BY <1>3, <2>1, <3>3
  <2> QED
    BY <2>1, <2>2
<1> DEFINE D(f) == f = [i \in 0..n |-> IF i = 0 THEN base ELSE try_write(f[i - 1], Q[i])]
<1>7. D(g)
  <2>1. \A i \in 0..n : i # 0 => i \in 1..n
    OBVIOUS
  <2>2. \A i \in 0..n : g[i] = IF i = 0 THEN base ELSE try_write(g[i - 1], Q[i])
    BY <1>6, <2>1
  <2> QED
    BY <1>6, <2>2
<1>8. PICK f : f = CHOOSE x : D(x)
  OBVIOUS
<1>9. D(f)
  BY <1>7, <1>8
<1>10. WriteAll(acc, Q) = f[n]
  BY <1>1, <1>2, <1>8 DEF WriteAll, Started
<1>11. f[n] = g[n]
  <2> DEFINE K == {i \in 0..n : f[i] # g[i]}
  <2>1. SUFFICES ASSUME K # {} PROVE FALSE
    OBVIOUS
  <2>2. PICK m \in K : \A k \in K : m <= k
    <3>1. K \in SUBSET Nat
      OBVIOUS
    <3> HIDE DEF K
    <3> QED
      BY <2>1, <3>1, LeastExists
  <2>3. m \in 0..n /\ f[m] # g[m]
    OBVIOUS
  <2>4. m # 0
    BY <1>6, <1>9, <2>3
  <2>5. m \in 1..n /\ m - 1 \in 0..n /\ m - 1 \notin K
    BY <2>2, <2>3, <2>4
  <2>6. f[m - 1] = g[m - 1]
    BY <2>5
  <2>7. f[m] = try_write(f[m - 1], Q[m])
    BY <1>9, <2>3, <2>4
  <2> QED
    BY <1>6, <2>3, <2>5, <2>6, <2>7
<1> QED
  BY <1>1, <1>2, <1>6, <1>10, <1>11 DEF Turns

(* The order of the wire and of a queue.                                   *)
Rises(Q) == \A i, j \in 1..Len(Q) : i < j => Q[i].id < Q[j].id
WireRises(w) == \A i, j \in 1..Len(w) : i < j => UnitId(w[i]) <= UnitId(w[j])
Below(w, Q, j) == \A i \in 1..Len(w), k \in 1..Len(Q) : k > j => UnitId(w[i]) <= Q[k].id
Within(w, m) == \A i \in 1..Len(w) : UnitId(w[i]) <= m
Prefix(w, v) == Len(w) <= Len(v) /\ \A i \in 1..Len(w) : v[i] = w[i]

LEMMA UnitIdIs ==
  ASSUME conn.stream \in BOOLEAN, NEW w \in Seq(WireSet), NEW i \in 1..Len(w)
  PROVE  UnitId(w[i]) \in Nat
<1>1. w[i] \in WireSet
  OBVIOUS
<1> QED
  BY <1>1 DEF WireSet, UnitId

LEMMA FrameIs ==
  ASSUME NEW Q \in Seq(FrameSet), NEW i \in 1..Len(Q)
  PROVE  Q[i] \in FrameSet /\ Q[i].id \in Nat /\ Q[i].size \in Nat /\ Q[i].size > 0
<1>1. Q[i] \in FrameSet
  OBVIOUS
<1> QED
  BY <1>1 DEF FrameSet

LEMMA OnPrefix ==
  ASSUME NEW w \in Seq(WireSet), NEW v \in Seq(WireSet), Prefix(w, v), NEW id, On(w, id)
  PROVE  On(v, id)
<1>1. PICK n \in Nat, m \in Nat : n = Len(w) /\ m = Len(v)
  OBVIOUS
<1>2. PICK i \in 1..n : UnitId(w[i]) = id
  BY <1>1 DEF On
<1>3. i \in 1..m /\ v[i] = w[i]
  BY <1>1 DEF Prefix
<1> QED
  BY <1>1, <1>2, <1>3 DEF On

LEMMA PrefixOn ==
  ASSUME NEW u \in Seq(WireSet), NEW w \in Seq(WireSet), NEW v \in Seq(WireSet), Prefix(u, w), Prefix(w, v)
  PROVE  Prefix(u, v)
<1>1. PICK k \in Nat, n \in Nat, m \in Nat : k = Len(u) /\ n = Len(w) /\ m = Len(v)
  OBVIOUS
<1>2. k <= n /\ n <= m /\ (\A i \in 1..k : w[i] = u[i]) /\ \A i \in 1..n : v[i] = w[i]
  BY <1>1 DEF Prefix
<1>3. \A i \in 1..k : i \in 1..n
  BY <1>2
<1> QED
  BY <1>1, <1>2, <1>3 DEF Prefix

LEMMA MorePrefix ==
  ASSUME NEW w \in Seq(WireSet), NEW v, NEW id, More(w, v, id)
  PROVE  v \in Seq(WireSet) /\ Prefix(w, v)
<1>1. Len(w) \in Nat /\ Len(v) \in Nat
  BY DEF More
<1> QED
  BY <1>1 DEF More, Prefix

(* Units of the next frame keep the order.                                 *)
LEMMA OrderMore ==
  ASSUME conn.stream \in BOOLEAN, NEW Q \in Seq(FrameSet), Rises(Q), NEW i \in 1..Len(Q), NEW j \in Nat, j = i - 1,
         NEW w \in Seq(WireSet), WireRises(w), Below(w, Q, j), NEW v, More(w, v, Q[i].id)
  PROVE  WireRises(v) /\ Below(v, Q, j) /\ Below(v, Q, i)
<1>1. PICK n \in Nat, m \in Nat, l \in Nat : n = Len(w) /\ m = Len(v) /\ l = Len(Q)
  BY DEF More
<1>2. /\ v \in Seq(WireSet) /\ m >= n /\ \A k \in 1..n : v[k] = w[k]
      /\ \A k \in 1..m : k > n => UnitId(v[k]) = Q[i].id
  BY <1>1 DEF More
<1>3. /\ i \in 1..l /\ \A k \in 1..l : Q[k].id \in Nat /\ (k > j => Q[i].id <= Q[k].id)
  <2>1. \A k \in 1..l : Q[k].id \in Nat
    BY <1>1, FrameIs
  <2>2. ASSUME NEW k \in 1..l, k > j PROVE Q[i].id <= Q[k].id
    <3>1. k = i \/ i < k
      BY <2>2
    <3>2. i < k => Q[i].id < Q[k].id
      BY <1>1 DEF Rises
    <3> QED
      BY <1>1, <2>1, <3>1, <3>2
  <2> QED
    BY <1>1, <2>1, <2>2
<1>4. PICK f \in Nat : f = Q[i].id
  BY <1>3
<1>5. \A k \in 1..n : UnitId(w[k]) \in Nat /\ UnitId(w[k]) <= f
  <2>1. \A k \in 1..n : UnitId(w[k]) \in Nat
    BY <1>1, UnitIdIs
  <2>2. i > j
    OBVIOUS
  <2> QED
    BY <1>1, <1>4, <2>1, <2>2 DEF Below
<1>6. \A k \in 1..m : UnitId(v[k]) \in Nat /\ UnitId(v[k]) <= f /\ (k > n => UnitId(v[k]) = f)
  <2>1. ASSUME NEW k \in 1..m PROVE UnitId(v[k]) \in Nat /\ UnitId(v[k]) <= f /\ (k > n => UnitId(v[k]) = f)
    <3>1. CASE k > n
      BY <1>2, <1>4, <3>1
    <3>2. CASE ~(k > n)
      <4>1. k \in 1..n
        BY <3>2
      <4> QED
        BY <1>2, <1>5, <3>2, <4>1
    <3> QED
      BY <3>1, <3>2
  <2> QED
    BY <2>1
<1>7. WireRises(v)
  <2>1. ASSUME NEW a \in 1..m, NEW b \in 1..m, a < b PROVE UnitId(v[a]) <= UnitId(v[b])
    <3>1. CASE b > n
      BY <1>6, <3>1
    <3>2. CASE ~(b > n)
      <4>1. a \in 1..n /\ b \in 1..n
        BY <2>1, <3>2
      <4>2. UnitId(w[a]) <= UnitId(w[b])
        BY <1>1, <2>1, <4>1 DEF WireRises
      <4> QED
        BY <1>2, <4>1, <4>2
    <3> QED
      BY <3>1, <3>2
  <2> QED
    BY <1>1, <2>1 DEF WireRises
<1>8. ASSUME NEW a \in 1..m, NEW k \in 1..l, k > j PROVE UnitId(v[a]) <= Q[k].id
  <2>1. UnitId(v[a]) \in Nat /\ UnitId(v[a]) <= f /\ Q[k].id \in Nat /\ f <= Q[k].id
    BY <1>3, <1>4, <1>6, <1>8
  <2> QED
    BY <2>1
<1>9. \A k \in 1..l : k > i => k > j
  OBVIOUS
<1> QED
  BY <1>1, <1>7, <1>8, <1>9 DEF Below

LEMMA WithinMore ==
  ASSUME conn.stream \in BOOLEAN, NEW m \in Nat, NEW id \in Nat, id <= m, NEW w \in Seq(WireSet), Within(w, m), NEW v, More(w, v, id)
  PROVE  Within(v, m)
<1>1. PICK n \in Nat, l \in Nat : n = Len(w) /\ l = Len(v)
  BY DEF More
<1>2. /\ \A k \in 1..n : v[k] = w[k]
      /\ \A k \in 1..l : k > n => UnitId(v[k]) = id
  BY <1>1 DEF More
<1>3. ASSUME NEW k \in 1..l PROVE UnitId(v[k]) <= m
  <2>1. CASE k > n
    BY <1>2, <2>1
  <2>2. CASE ~(k > n)
    <3>1. k \in 1..n
      BY <2>2
    <3> QED
      BY <1>1, <1>2, <3>1 DEF Within
  <2> QED
    BY <2>1, <2>2
<1> QED
  BY <1>1, <1>3 DEF Within

(* The loop of a call after i turns: j frames are gone, the others wait.   *)
Waits(Q, i, j, a) ==
  /\ j \in 0..i /\ Len(a.rest) = i - j /\ \A k \in 1..(i - j) : a.rest[k] = Q[j + k]
  /\ ~a.stop => j = i /\ ~a.err
Gone(Q, j, a) == \A k \in 1..j : Q[k].id \in a.lost \/ On(a.wire, Q[k].id)
Lasts(acc, Q, m, a) ==
  /\ Retains(acc, a) /\ Prefix(acc.wire, a.wire) /\ Within(a.wire, m) /\ acc.lost \subseteq a.lost
  /\ \A id \in a.lost : id \in acc.lost \/ \E k \in 1..Len(Q) : Q[k].id = id
  /\ ~conn.stream => a.held = acc.held
InOrder(Q, j, a) == conn.lane \/ (WireRises(a.wire) /\ Below(a.wire, Q, j))
OnStream(Q, i, j, a) ==
  conn.stream /\ ~a.err =>
    /\ StreamOk(a.wire)
    /\ a.stop => j < i /\ Begun(a.held, a.wire, Q[j + 1])
    /\ ~a.stop => (i > 0 => a.held = 0) /\ (i < Len(Q) => Ready(a.held, a.wire, Q[i + 1]))
LoopAt(p, acc, Q, m, i, j, a) ==
  a \in AccSet(p) /\ Waits(Q, i, j, a) /\ Gone(Q, j, a) /\ Lasts(acc, Q, m, a) /\ InOrder(Q, j, a) /\ OnStream(Q, i, j, a)
Queue(Q, m) == Q \in Seq(FrameSet) /\ Rises(Q) /\ \A k \in 1..Len(Q) : Q[k].id <= m

(* A frame behind one that blocked or failed waits.                        *)
LEMMA LoopStops ==
  ASSUME NEW p, NEW acc \in AccSet(p), NEW m \in Nat, NEW Q, Queue(Q, m), NEW i \in Nat, i < Len(Q),
         NEW j, NEW a, LoopAt(p, acc, Q, m, i, j, a), a.stop, NEW b, b = try_write(a, Q[i + 1])
  PROVE  LoopAt(p, acc, Q, m, i + 1, j, b)
<1>1. PICK n \in Nat : n = Len(Q) /\ i + 1 \in 1..n /\ i < n
  BY DEF Queue
<1>2. a \in AccSet(p) /\ j \in 0..i
  BY DEF LoopAt, Waits
<1>3. PICK f \in FrameSet : f = Q[i + 1]
  BY <1>1, FrameIs DEF Queue
<1>4. b = [a EXCEPT !.rest = Append(a.rest, f)]
  BY <1>3 DEF try_write
<1>5. PICK t : t = Append(a.rest, f)
  OBVIOUS
<1>6. a.rest \in Seq(FrameSet)
  BY <1>2, AccIs
<1>7. PICK l \in Nat : l = i - j /\ l = Len(a.rest)
  BY <1>2 DEF LoopAt, Waits
<1>8. t \in Seq(FrameSet) /\ Len(t) = l + 1 /\ t[l + 1] = f /\ \A k \in 1..l : t[k] = a.rest[k]
  <2>1. PICK s \in Seq(FrameSet) : s = a.rest
    BY <1>6
  <2>2. t = Append(s, f) /\ Len(s) = l
    BY <1>5, <1>7, <2>1
  <2>3. t \in Seq(FrameSet) /\ Len(t) = Len(s) + 1 /\ t[Len(s) + 1] = f /\ \A k \in 1..Len(s) : t[k] = s[k]
    BY <2>2, AppendProperties
  <2> QED
    BY <2>1, <2>2, <2>3
<1>9. b \in AccSet(p)
  BY <1>2, <1>4, <1>5, <1>8 DEF AccSet
<1>10. /\ Retains(a, b) /\ b.rest = t /\ b.stop = a.stop /\ b.err = a.err /\ b.lost = a.lost /\ b.wire = a.wire /\ b.held = a.held
  BY <1>2, <1>4, <1>5 DEF AccSet, Retains
<1>11. Waits(Q, i + 1, j, b)
  <2>1. (i + 1) - j = l + 1 /\ j \in 0..(i + 1) /\ j + (l + 1) = i + 1
    BY <1>2, <1>7
  <2>2. \A k \in 1..l : a.rest[k] = Q[j + k]
    BY <1>7 DEF LoopAt, Waits
  <2>3. ASSUME NEW k \in 1..(l + 1) PROVE t[k] = Q[j + k]
    <3>1. CASE k = l + 1
      BY <1>3, <1>8, <2>1, <3>1
    <3>2. CASE k # l + 1
      <4>1. k \in 1..l
        BY <3>2
      <4> QED
        BY <1>8, <2>2, <4>1
    <3> QED
      BY <3>1, <3>2
  <2> QED
    BY <1>8, <1>10, <2>1, <2>3 DEF Waits
<1>12. Gone(Q, j, b)
  BY <1>10 DEF LoopAt, Gone
<1>13. Lasts(acc, Q, m, b)
  BY <1>10 DEF LoopAt, Lasts, Retains
<1>14. InOrder(Q, j, b)
  BY <1>10 DEF LoopAt, InOrder
<1>15. OnStream(Q, i + 1, j, b)
  BY <1>2, <1>10 DEF LoopAt, OnStream
<1> QED
  BY <1>9, <1>11, <1>12, <1>13, <1>14, <1>15 DEF LoopAt

(* A frame that is tried is gone, or it is the first to wait.              *)
LEMMA TryIs ==
  ASSUME conn.stream \in BOOLEAN, NEW p, NEW acc \in AccSet(p), ~acc.stop, ~acc.open, NEW f \in FrameSet, NEW r, r = try_write(acc, f)
  PROVE  r \in AccSet(p) /\ Tried(acc, f, r) /\ (~conn.stream => r.held = acc.held)
<1>1. CASE conn.stream
  BY <1>1, TcpTried DEF try_write
<1>2. CASE ~conn.stream
  BY <1>2, UdpTried DEF try_write
<1> QED
  BY <1>1, <1>2

LEMMA LoopTries ==
  ASSUME conn.stream \in BOOLEAN, NEW p, NEW acc \in AccSet(p), ~acc.open, NEW m \in Nat, NEW Q, Queue(Q, m), NEW i \in Nat, i < Len(Q),
         NEW a, LoopAt(p, acc, Q, m, i, i, a), ~a.stop, NEW b, b = try_write(a, Q[i + 1])
  PROVE  \E j : LoopAt(p, acc, Q, m, i + 1, j, b)
<1>1. PICK n \in Nat : n = Len(Q) /\ i + 1 \in 1..n /\ i < n
  BY DEF Queue
<1>2. a \in AccSet(p) /\ ~a.open /\ ~a.err /\ Q \in Seq(FrameSet)
  BY DEF LoopAt, Waits, Lasts, Retains, Queue
<1>3. PICK f \in FrameSet : f = Q[i + 1] /\ f.id \in Nat /\ f.id <= m
  BY <1>1, <1>2, FrameIs DEF Queue
<1>4. b \in AccSet(p) /\ Tried(a, f, b) /\ (~conn.stream => b.held = a.held)
  BY <1>2, <1>3, TryIs
<1>5. /\ a.wire \in Seq(WireSet) /\ b.wire \in Seq(WireSet) /\ a.rest \in Seq(FrameSet) /\ Len(a.rest) = 0
  <2>1. Len(a.rest) = i - i
    BY DEF LoopAt, Waits
  <2> QED
    BY <1>2, <1>4, <2>1, AccIs
<1>6. Retains(a, b) /\ More(a.wire, b.wire, f.id) /\ Prefix(a.wire, b.wire)
  BY <1>4, <1>5, MorePrefix DEF Tried
<1>7. PICK j \in {i, i + 1} : (Blocked(a, f, b) => j = i) /\ (~Blocked(a, f, b) => j = i + 1)
  OBVIOUS
<1>8. Waits(Q, i + 1, j, b)
  <2>1. CASE Blocked(a, f, b)
    <3>1. b.rest = Append(a.rest, f) /\ b.stop /\ j = i
      BY <1>7, <2>1 DEF Blocked
    <3>2. Len(b.rest) = 1 /\ b.rest[1] = f
      BY <1>5, <3>1, AppendProperties
    <3>3. (i + 1) - j = 1 /\ j \in 0..(i + 1) /\ \A k \in 1..1 : k = 1 /\ j + k = i + 1
      BY <3>1
    <3> QED
      BY <1>3, <3>1, <3>2, <3>3 DEF Waits
  <2>2. CASE ~Blocked(a, f, b)
    <3>1. b.rest = a.rest /\ (b.stop \/ ~b.err) /\ j = i + 1
      BY <1>2, <1>4, <1>7, <2>2 DEF Tried, Went, Failed
    <3>2. (i + 1) - j = 0 /\ j \in 0..(i + 1) /\ \A k \in 1..0 : FALSE
      BY <3>1
    <3> QED
      BY <1>5, <3>1, <3>2 DEF Waits
  <2> QED
    BY <2>1, <2>2
<1>9. Gone(Q, j, b)
  <2>1. ASSUME NEW k \in 1..i PROVE Q[k].id \in b.lost \/ On(b.wire, Q[k].id)
    <3>1. Q[k].id \in a.lost \/ On(a.wire, Q[k].id)
      BY DEF LoopAt, Gone
    <3>2. a.lost \subseteq b.lost
      BY <1>4 DEF Tried, Went, Failed, Blocked
    <3> QED
      BY <1>5, <1>6, <3>1, <3>2, OnPrefix
  <2>2. CASE Blocked(a, f, b)
    BY <1>7, <2>1, <2>2 DEF Gone
  <2>3. CASE ~Blocked(a, f, b)
    <3>1. f.id \in b.lost \/ On(b.wire, f.id)
      BY <1>4, <2>3 DEF Tried, Went, Failed
    <3>2. \A k \in 1..(i + 1) : k \in 1..i \/ k = i + 1
      OBVIOUS
    <3> QED
      BY <1>3, <1>7, <2>1, <2>3, <3>1, <3>2 DEF Gone
  <2> QED
    BY <2>2, <2>3
<1>10. Lasts(acc, Q, m, b)
  <2>1. /\ Retains(acc, a) /\ Prefix(acc.wire, a.wire) /\ Within(a.wire, m) /\ acc.lost \subseteq a.lost
        /\ \A id \in a.lost : id \in acc.lost \/ \E k \in 1..Len(Q) : Q[k].id = id
        /\ ~conn.stream => a.held = acc.held
    BY DEF LoopAt, Lasts
  <2>2. Retains(acc, b)
    BY <1>6, <2>1 DEF Retains
  <2>3. Prefix(acc.wire, b.wire)
    BY <1>5, <1>6, <2>1, AccIs, PrefixOn
  <2>4. Within(b.wire, m)
    BY <1>3, <1>5, <1>6, <2>1, WithinMore
  <2>5. a.lost \subseteq b.lost /\ b.lost \subseteq a.lost \cup {f.id}
    BY <1>4 DEF Tried, Went, Failed, Blocked
  <2>6. \A id \in b.lost : id \in acc.lost \/ \E k \in 1..Len(Q) : Q[k].id = id
    BY <1>1, <1>3, <2>1, <2>5
  <2> QED
    BY <1>4, <2>1, <2>2, <2>3, <2>4, <2>5, <2>6 DEF Lasts
<1>11. InOrder(Q, j, b)
  <2>1. CASE conn.lane
    BY <2>1 DEF InOrder
  <2>2. CASE ~conn.lane
    <3>1. WireRises(a.wire) /\ Below(a.wire, Q, i)
      BY <2>2 DEF LoopAt, InOrder
    <3>2. PICK e \in 1..Len(Q) : e = i + 1 /\ i = e - 1
      BY <1>1
    <3>3. WireRises(b.wire) /\ Below(b.wire, Q, i) /\ Below(b.wire, Q, e)
      BY <1>2, <1>3, <1>5, <1>6, <3>1, <3>2, OrderMore DEF Queue
    <3> QED
      BY <1>7, <3>2, <3>3 DEF InOrder
  <2> QED
    BY <2>1, <2>2
<1>12. OnStream(Q, i + 1, j, b)
  <2>1. SUFFICES ASSUME conn.stream, ~b.err PROVE OnStream(Q, i + 1, j, b)
    BY DEF OnStream
  <2>2. StreamOk(a.wire) /\ Ready(a.held, a.wire, f)
    BY <1>1, <1>2, <1>3, <2>1 DEF LoopAt, OnStream
  <2>3. b = tcp_send(a, f)
    BY <1>3, <2>1 DEF try_write
  <2>4. /\ StreamOk(b.wire)
        /\ ~b.stop => b.held = 0 /\ UpTo(b.wire, f)
        /\ b.stop /\ ~b.err => Begun(b.held, b.wire, f)
    BY <1>2, <2>1, <2>2, <2>3, TcpStream
  <2>5. CASE b.stop
    <3>1. j = i
      BY <1>4, <1>7, <2>1, <2>5 DEF Tried, Went, Failed
    <3> QED
      BY <1>3, <2>1, <2>4, <2>5, <3>1 DEF OnStream
  <2>6. CASE ~b.stop
    <3>1. ASSUME i + 1 < n PROVE Ready(b.held, b.wire, Q[(i + 1) + 1])
      <4>1. (i + 1) + 1 \in 1..n /\ i + 1 < (i + 1) + 1
        BY <3>1
      <4>2. PICK h \in FrameSet : h = Q[(i + 1) + 1] /\ h.id \in Nat
        BY <1>1, <1>2, <4>1, FrameIs
      <4>3. f.id < h.id
        BY <1>1, <1>3, <4>1, <4>2 DEF Queue, Rises
      <4>4. Before(b.wire, h)
        <5>1. PICK l \in Nat : l = Len(b.wire)
          BY <1>5
        <5>2. l # 0 => b.wire[l][1] \in Nat
          <6>1. l # 0 => b.wire[l] \in WireSet
            BY <1>5, <5>1, ElementOfSeq
          <6> QED
            BY <2>1, <6>1 DEF WireSet
        <5>3. UpTo(b.wire, f)
          BY <2>4, <2>6
        <5> QED
          BY <1>3, <4>2, <4>3, <5>1, <5>2, <5>3 DEF UpTo, Before
      <4> QED
        BY <2>4, <2>6, <4>2, <4>4 DEF Ready
    <3> QED
      BY <1>1, <2>1, <2>4, <2>6, <3>1 DEF OnStream
  <2> QED
    BY <2>5, <2>6
<1> QED
  BY <1>4, <1>8, <1>9, <1>10, <1>11, <1>12 DEF LoopAt

LEMMA LoopIs ==
  ASSUME conn.stream \in BOOLEAN, NEW p, NEW acc \in AccSet(p), ~acc.open, NEW m \in Nat, NEW Q, Queue(Q, m),
         NEW g, Turns(p, acc, Q, g), LoopAt(p, acc, Q, m, 0, 0, g[0])
  PROVE  \E j : LoopAt(p, acc, Q, m, Len(Q), j, WriteAll(acc, Q))
<1>1. PICK n \in Nat : n = Len(Q)
  BY DEF Queue
<1> DEFINE K == {i \in 0..n : ~\E j : LoopAt(p, acc, Q, m, i, j, g[i])}
<1>2. SUFFICES K = {}
  <2>1. ASSUME K = {} PROVE \E j : LoopAt(p, acc, Q, m, n, j, g[n])
    BY <2>1
  <2>2. WriteAll(acc, Q) = g[n]
    BY <1>1 DEF Turns
  <2> QED
    BY <1>1, <2>1, <2>2
<1>3. SUFFICES ASSUME K # {} PROVE FALSE
  OBVIOUS
<1>4. PICK k \in K : \A l \in K : k <= l
  <2>1. K \in SUBSET Nat
    OBVIOUS
  <2> HIDE DEF K
  <2> QED
    BY <1>3, <2>1, LeastExists
<1>5. k \in 0..n /\ ~\E j : LoopAt(p, acc, Q, m, k, j, g[k])
  OBVIOUS
<1>6. k # 0
  BY <1>5
<1>7. PICK i \in Nat : k = i + 1 /\ i \in 0..n /\ i < n /\ k \in 1..n /\ k - 1 = i
  BY <1>5, <1>6
<1>8. i \notin K
  BY <1>4, <1>7
<1>9. PICK j : LoopAt(p, acc, Q, m, i, j, g[i])
  BY <1>7, <1>8
<1>10. PICK a, b : a = g[i] /\ b = g[k]
  OBVIOUS
<1>11. b = try_write(a, Q[i + 1])
  BY <1>1, <1>7, <1>10 DEF Turns
<1>12. LoopAt(p, acc, Q, m, i, j, a) /\ i < Len(Q)
  BY <1>1, <1>7, <1>9, <1>10
<1>13. \E l : LoopAt(p, acc, Q, m, i + 1, l, b)
  <2>1. CASE a.stop
    BY <1>11, <1>12, <2>1, LoopStops
  <2>2. CASE ~a.stop
    <3>1. j = i
      BY <1>12, <2>2 DEF LoopAt, Waits
    <3> QED
      BY <1>11, <1>12, <2>2, <3>1, LoopTries
  <2> QED
    BY <2>1, <2>2
<1> QED
  BY <1>5, <1>7, <1>10, <1>13

(* What a call finds and leaves: q is the queue, h the units of its head   *)
(* the adapter still holds, w the wire, m the last frame's number.         *)
Limit == IF conn.stream THEN MAX_TLS_PENDING_QUEUE_PACKETS ELSE 1
QueueNumbered(q, m) == \A k \in 1..Len(q) : q[k].id \in 1..m
Accounted(q, w, A, D) == \A id \in A : id \in D \/ (\E k \in 1..Len(q) : q[k].id = id) \/ On(w, id)
Sending(q, h, w, m, A, D) ==
  /\ q \in Seq(FrameSet) /\ h \in Nat /\ w \in Seq(WireSet) /\ A \subseteq 1..m /\ D \subseteq 1..m
  /\ Len(q) <= Limit /\ Rises(q) /\ QueueNumbered(q, m) /\ Within(w, m)
  /\ conn.lane \/ (WireRises(w) /\ Below(w, q, 0))
  /\ h # 0 => conn.stream
  /\ Accounted(q, w, A, D)
StreamWell(q, h, w) == StreamOk(w) /\ (Len(q) = 0 => h = 0) /\ (Len(q) # 0 => Begun(h, w, q[1]))
Setting == conn \in SendSettings
CallWell(p, acc, m, A, D) ==
  /\ acc \in AccSet(p) /\ ~acc.open /\ Sending(acc.queue, acc.held, acc.wire, m, A \cup acc.taken, D \cup acc.lost)
  /\ conn.stream /\ ~acc.err => StreamWell(acc.queue, acc.held, acc.wire)

LEMMA SendSettingIs ==
  ASSUME Setting
  PROVE  /\ conn.stream \in BOOLEAN /\ conn.lane \in BOOLEAN /\ conn.plugins \in BOOLEAN /\ ~(conn.stream /\ conn.lane)
         /\ Limit \in Nat /\ Limit > 0 /\ (~conn.stream => Limit = 1)
         /\ \A f : queue_limit(f) \in Nat /\ queue_limit(f) > 0 /\ queue_limit(f) <= Limit
<1>1. conn.stream \in BOOLEAN /\ conn.lane \in BOOLEAN /\ conn.plugins \in BOOLEAN /\ ~(conn.stream /\ conn.lane)
  BY SendBounds DEF Setting
<1>2. MAX_TLS_PENDING_QUEUE_PACKETS \in Nat /\ MAX_TLS_PENDING_QUEUE_PACKETS > 0
  BY SendBounds
<1> QED
  BY <1>1, <1>2 DEF Limit, queue_limit

(* The queue of a call: the new frame last, or left out when it is full.   *)
Offered(q, f, Q) == Q = IF Len(q) < queue_limit(f) THEN Append(q, f) ELSE q
Queued(q, f, Q, m) ==
  /\ Queue(Q, m) /\ QueueNumbered(Q, m) /\ Len(Q) > 0 /\ Len(Q) <= Limit /\ Len(q) <= Len(Q)
  /\ \A k \in 1..Len(q) : Q[k] = q[k]
  /\ Len(q) < queue_limit(f) => \E k \in 1..Len(Q) : Q[k] = f
  /\ \A k \in 1..Len(Q) : k > Len(q) => Q[k] = f

LEMMA OfferedIs ==
  ASSUME Setting, NEW m \in Nat, NEW q \in Seq(FrameSet), Len(q) <= Limit, Rises(q), QueueNumbered(q, m),
         NEW f \in FrameSet, f.id = m + 1, NEW Q, Offered(q, f, Q)
  PROVE  Queued(q, f, Q, m + 1)
<1>1. PICK n \in Nat, l \in Nat, lim \in Nat : n = Len(q) /\ lim = queue_limit(f) /\ l = Limit
  BY SendSettingIs
<1>2. lim > 0 /\ lim <= l /\ n <= l
  BY <1>1, SendSettingIs
<1>3. \A k \in 1..n : q[k] \in FrameSet /\ q[k].id \in 1..m /\ q[k].id \in 1..(m + 1) /\ q[k].id <= m + 1
  <2>1. \A k \in 1..n : q[k] \in FrameSet /\ q[k].id \in 1..m
    BY <1>1, FrameIs DEF QueueNumbered
  <2> QED
    BY <2>1
<1>4. CASE n < lim
  <2>1. Q = Append(q, f)
    BY <1>1, <1>4 DEF Offered
  <2>2. Q \in Seq(FrameSet) /\ Len(Q) = n + 1 /\ Q[n + 1] = f /\ \A k \in 1..n : Q[k] = q[k]
    <3>1. Q \in Seq(FrameSet) /\ Len(Q) = Len(q) + 1 /\ Q[Len(q) + 1] = f /\ \A k \in 1..Len(q) : Q[k] = q[k]
      BY <2>1, AppendProperties
    <3> QED
      BY <1>1, <3>1
  <2>3. \A k \in 1..(n + 1) : k \in 1..n \/ k = n + 1
    OBVIOUS
  <2>4. \A k \in 1..(n + 1) : Q[k].id \in 1..(m + 1) /\ Q[k].id <= m + 1
    BY <1>3, <2>2, <2>3
  <2>5. ASSUME NEW i \in 1..(n + 1), NEW j \in 1..(n + 1), i < j PROVE Q[i].id < Q[j].id
    <3>1. i \in 1..n
      BY <2>5
    <3>2. CASE j = n + 1
      BY <1>3, <2>2, <3>1, <3>2
    <3>3. CASE j # n + 1
      <4>1. j \in 1..n
        BY <3>3
      <4>2. q[i].id < q[j].id
        BY <1>1, <2>5, <3>1, <4>1 DEF Rises
      <4> QED
        BY <2>2, <3>1, <4>1, <4>2
    <3> QED
      BY <3>2, <3>3
  <2>6. Queue(Q, m + 1) /\ QueueNumbered(Q, m + 1)
    BY <2>2, <2>4, <2>5 DEF Queue, Rises, QueueNumbered
  <2>7. n + 1 \in 1..(n + 1) /\ n + 1 > 0 /\ n + 1 <= l /\ n <= n + 1 /\ \A k \in 1..(n + 1) : k > n => k = n + 1
    BY <1>2, <1>4
  <2> QED
    BY <1>1, <2>2, <2>6, <2>7 DEF Queued
<1>5. CASE ~(n < lim)
  <2>1. Q = q
    BY <1>1, <1>5 DEF Offered
  <2>2. Queue(q, m + 1) /\ QueueNumbered(q, m + 1)
    BY <1>1, <1>3 DEF Queue, QueueNumbered
  <2>3. n > 0 /\ ~(n < lim) /\ \A k \in 1..n : ~(k > n)
    BY <1>2, <1>5
  <2> QED
    BY <1>1, <1>2, <2>1, <2>2, <2>3 DEF Queued
<1> QED
  BY <1>4, <1>5

LEMMA LoopStarts ==
  ASSUME Setting, NEW p, NEW m \in Nat, NEW A, NEW D, NEW acc, CallWell(p, acc, m, A, D), ~acc.err, NEW f \in FrameSet, f.id = m + 1,
         NEW Q, Queued(acc.queue, f, Q, m + 1)
  PROVE  LoopAt(p, acc, Q, m + 1, 0, 0, Started(acc))
<1>1. PICK s : s = Started(acc)
  OBVIOUS
<1>2. acc \in AccSet(p)
  BY DEF CallWell
<1>3. /\ s \in AccSet(p) /\ Retains(acc, s) /\ s.rest = <<>> /\ ~s.stop
      /\ s.held = acc.held /\ s.wire = acc.wire /\ s.err = acc.err /\ s.lost = acc.lost
  BY <1>1, <1>2, StartedIs
<1>4. PICK q \in Seq(FrameSet), h \in Nat, w \in Seq(WireSet) : q = acc.queue /\ h = acc.held /\ w = acc.wire
  BY <1>2, AccIs
<1>5. /\ Len(q) <= Limit /\ Rises(q) /\ QueueNumbered(q, m) /\ Within(w, m)
      /\ conn.lane \/ (WireRises(w) /\ Below(w, q, 0))
  BY <1>4 DEF CallWell, Sending
<1>6. PICK n \in Nat, l \in Nat, x \in Nat : n = Len(q) /\ l = Len(Q) /\ x = Len(w) /\ l > 0 /\ n <= l
  BY <1>4 DEF Queued, Queue
<1>7. /\ \A k \in 1..n : Q[k] = q[k]
      /\ \A k \in 1..l : k > n => Q[k] = f
  BY <1>4, <1>6 DEF Queued
<1>8. \A i \in 1..x : UnitId(w[i]) \in Nat /\ UnitId(w[i]) <= m
  BY <1>5, <1>6, SendSettingIs, UnitIdIs DEF Within
<1>9. Waits(Q, 0, 0, s)
  <2>1. 0 \in 0..0 /\ Len(s.rest) = 0 - 0 /\ \A k \in 1..(0 - 0) : FALSE
    BY <1>3
  <2> QED
    BY <1>3, <2>1 DEF Waits
<1>10. Gone(Q, 0, s)
  <2>1. \A k \in 1..0 : FALSE
    OBVIOUS
  <2> QED
    BY <2>1 DEF Gone
<1>11. Lasts(acc, Q, m + 1, s)
  <2>1. Prefix(w, w)
    BY <1>6 DEF Prefix
  <2>2. Within(w, m + 1)
    BY <1>6, <1>8 DEF Within
  <2> QED
    BY <1>3, <1>4, <2>1, <2>2 DEF Lasts
<1>12. InOrder(Q, 0, s)
  <2>1. SUFFICES ASSUME ~conn.lane PROVE WireRises(w) /\ Below(w, Q, 0)
    BY <1>3, <1>4 DEF InOrder
  <2>2. ASSUME NEW i \in 1..x, NEW k \in 1..l PROVE UnitId(w[i]) <= Q[k].id
    <3>1. CASE k > n
      <4>1. Q[k].id = m + 1
        BY <1>7, <3>1
      <4> QED
        BY <1>8, <4>1
    <3>2. CASE ~(k > n)
      <4>1. k \in 1..n /\ k > 0
        BY <3>2
      <4> QED
        BY <1>5, <1>6, <1>7, <2>1, <4>1 DEF Below
    <3> QED
      BY <3>1, <3>2
  <2> QED
    BY <1>5, <1>6, <2>1, <2>2 DEF Below
<1>13. OnStream(Q, 0, 0, s)
  <2>1. SUFFICES ASSUME conn.stream PROVE StreamOk(w) /\ Ready(h, w, Q[1])
    <3>1. 0 + 1 = 1 /\ ~(0 > 0)
      OBVIOUS
    <3> QED
      BY <1>3, <1>4, <3>1 DEF OnStream
  <2>2. StreamOk(w) /\ (Len(q) = 0 => h = 0) /\ (Len(q) # 0 => Begun(h, w, q[1]))
    BY <1>4, <2>1 DEF CallWell, StreamWell
  <2>3. CASE n # 0
    <3>1. Q[1] = q[1]
      BY <1>6, <1>7, <2>3
    <3> QED
      BY <1>6, <2>2, <2>3, <3>1 DEF Ready
  <2>4. CASE n = 0
    <3>1. Q[1] = f
      BY <1>6, <1>7, <2>4
    <3>2. Before(w, f)
      <4>1. x # 0 => w[x][1] <= m /\ w[x][1] \in Nat
        BY <1>6, <1>8, <2>1 DEF UnitId
      <4> QED
        BY <1>6, <4>1 DEF Before
    <3> QED
      BY <1>6, <2>2, <2>4, <3>1, <3>2 DEF Ready
  <2> QED
    BY <2>2, <2>3, <2>4
<1> QED
  BY <1>1, <1>3, <1>9, <1>10, <1>11, <1>12, <1>13 DEF LoopAt

(* What waits after the loop is the tail of what was offered.              *)
TailOf(Q, n, j, t) == j \in 0..n /\ Len(t) = n - j /\ \A k \in 1..(n - j) : t[k] = Q[j + k]
AllWait(Q, n, j, t) == \A k \in 1..n : k > j => \E l \in 1..Len(t) : t[l] = Q[k]

LEMMA QueueTailIs ==
  ASSUME NEW Q \in Seq(FrameSet), NEW n \in Nat, n = Len(Q), NEW m \in Nat, Rises(Q), QueueNumbered(Q, m), NEW j,
         NEW t \in Seq(FrameSet), TailOf(Q, n, j, t)
  PROVE  Rises(t) /\ QueueNumbered(t, m) /\ AllWait(Q, n, j, t)
<1>0. j \in 0..n /\ Len(t) = n - j /\ \A k \in 1..(n - j) : t[k] = Q[j + k]
  BY DEF TailOf
<1>6. j \in 0..n
  BY <1>0
<1>7. j \in Int /\ j <= n /\ n - j \in Nat
  BY <1>6
<1>1. PICK d \in Nat : d = n - j
  BY <1>7
<1>2. \A k \in 1..d : j + k \in 1..n /\ t[k] = Q[j + k]
  BY <1>0, <1>1
<1>3. ASSUME NEW k \in 1..d, NEW l \in 1..d, k < l PROVE t[k].id < t[l].id
  <2>0. j \in Nat /\ k \in Nat /\ l \in Nat /\ k < l
    BY <1>0, <1>3
  <2>3. j + k < j + l
    BY <2>0
  <2>1. j + k < j + l /\ j + k \in 1..n /\ j + l \in 1..n
    BY <1>2, <2>3
  <2>2. Q[j + k].id < Q[j + l].id
    BY <2>1 DEF Rises
  <2> QED
    BY <1>2, <2>2
<1>4. \A k \in 1..d : t[k].id \in 1..m
  BY <1>2 DEF QueueNumbered
<1>5. ASSUME NEW k \in 1..n, k > j PROVE \E l \in 1..d : t[l] = Q[k]
  <2>1. k - j \in 1..d /\ j + (k - j) = k
    BY <1>0, <1>1, <1>5
  <2> QED
    BY <1>2, <2>1
<1> QED
  BY <1>0, <1>1, <1>3, <1>4, <1>5 DEF Rises, QueueNumbered, AllWait

LEMMA SendIs ==
  ASSUME Setting, NEW p, NEW m \in Nat, NEW A, NEW D, NEW acc, CallWell(p, acc, m, A, D), ~acc.err,
         NEW f \in FrameSet, f.id = m + 1, NEW r, r = send_frame_or_queue(acc, f)
  PROVE  CallWell(p, r, m + 1, A, D)
<1>1. acc \in AccSet(p) /\ ~acc.open
  BY DEF CallWell
<1>2. PICK q \in Seq(FrameSet), h \in Nat, w \in Seq(WireSet) : q = acc.queue /\ h = acc.held /\ w = acc.wire
  BY <1>1, AccIs
<1>3. Sending(q, h, w, m, A \cup acc.taken, D \cup acc.lost)
  BY <1>2 DEF CallWell
<1>4. PICK Q : Offered(q, f, Q)
  BY DEF Offered
<1>5. Queued(q, f, Q, m + 1)
  BY <1>3, <1>4, OfferedIs DEF Sending
<1>6. Q \in Seq(FrameSet) /\ Queue(Q, m + 1) /\ Rises(Q) /\ QueueNumbered(Q, m + 1)
  BY <1>5 DEF Queued, Queue
<1>7. PICK n \in Nat : n = Len(Q) /\ n > 0
  BY <1>5, <1>6 DEF Queued
<1>8. PICK g : Turns(p, acc, Q, g)
  BY <1>1, <1>6, WritesAre
<1>9. LoopAt(p, acc, Q, m + 1, 0, 0, g[0])
  <2>1. g[0] = Started(acc)
    BY <1>8 DEF Turns
  <2> QED
    BY <1>2, <1>5, <2>1, LoopStarts
<1>10. PICK a : a = WriteAll(acc, Q)
  OBVIOUS
<1>11. PICK j : LoopAt(p, acc, Q, m + 1, n, j, a)
  <2>1. \E j : LoopAt(p, acc, Q, m + 1, Len(Q), j, WriteAll(acc, Q))
    <3>1. m + 1 \in Nat
      OBVIOUS
    <3> QED
      BY <1>1, <1>6, <1>8, <1>9, <3>1, SendSettingIs, LoopIs
  <2> QED
    BY <1>7, <1>10, <2>1
<1>12. a \in AccSet(p) /\ Waits(Q, n, j, a) /\ Gone(Q, j, a) /\ Lasts(acc, Q, m + 1, a) /\ InOrder(Q, j, a) /\ OnStream(Q, n, j, a)
  BY <1>11 DEF LoopAt
<1>13. PICK T : T = IF Len(q) < queue_limit(f) THEN a.taken \cup {f.id} ELSE a.taken
  OBVIOUS
<1>14. r = [a EXCEPT !.queue = a.rest, !.taken = T]
  BY <1>2, <1>4, <1>10, <1>13 DEF send_frame_or_queue, Offered
<1>15. f.id \in Nat /\ T \subseteq Nat
  BY <1>12, <1>13, AccIs DEF FrameSet
<1>16. PICK t \in Seq(FrameSet), v \in Seq(WireSet) : t = a.rest /\ v = a.wire
  BY <1>12, AccIs
<1>17. r \in AccSet(p)
  BY <1>12, <1>14, <1>15, <1>16 DEF AccSet
<1>18. /\ r.queue = t /\ r.wire = v /\ r.held = a.held /\ r.taken = T /\ r.lost = a.lost /\ r.err = a.err /\ r.open = a.open
  BY <1>12, <1>14, <1>16 DEF AccSet
<1>19. r.open = acc.open /\ a.taken = acc.taken /\ Prefix(w, v) /\ Within(v, m + 1) /\ acc.lost \subseteq a.lost
  BY <1>2, <1>12, <1>16, <1>18 DEF Lasts, Retains
<1>20. j \in 0..n /\ Len(t) = n - j /\ \A k \in 1..(n - j) : t[k] = Q[j + k]
  BY <1>12, <1>16 DEF Waits
<1>21. Rises(t) /\ QueueNumbered(t, m + 1) /\ AllWait(Q, n, j, t)
  <2>1. TailOf(Q, n, j, t)
    BY <1>20 DEF TailOf
  <2>2. m + 1 \in Nat
    OBVIOUS
  <2> QED
    BY <1>6, <1>7, <2>1, <2>2, QueueTailIs
<1>22. Len(t) <= Limit
  <2>1. n <= Limit /\ Limit \in Nat
    BY <1>5, <1>7, SendSettingIs DEF Queued
  <2> QED
    BY <1>20, <2>1
<1>23. conn.lane \/ (WireRises(v) /\ Below(v, t, 0))
  <2>1. SUFFICES ASSUME ~conn.lane PROVE WireRises(v) /\ Below(v, t, 0)
    OBVIOUS
  <2>2. WireRises(v) /\ Below(v, Q, j)
    BY <1>12, <1>16, <2>1 DEF InOrder
  <2>3. ASSUME NEW i \in 1..Len(v), NEW k \in 1..(n - j) PROVE UnitId(v[i]) <= t[k].id
    <3>1. j \in 0..n /\ t[k] = Q[j + k]
      BY <1>20
    <3>2. j + k \in 1..n /\ j + k > j
      <4>1. j \in 0..n
        BY <3>1
      <4> QED
        BY <4>1
    <3> QED
      BY <1>7, <2>2, <3>1, <3>2 DEF Below
  <2> QED
    BY <1>20, <2>2, <2>3 DEF Below
<1>24. a.held \in Nat /\ (a.held # 0 => conn.stream)
  <2>1. ~conn.stream => a.held = h
    BY <1>2, <1>12 DEF Lasts
  <2>2. h # 0 => conn.stream
    BY <1>3 DEF Sending
  <2> QED
    BY <1>12, <2>1, <2>2, AccIs
<1>25. A \cup T \subseteq 1..(m + 1)
  <2>1. A \cup acc.taken \subseteq 1..m
    BY <1>3 DEF Sending
  <2>2. m + 1 \in 1..(m + 1) /\ 1..m \subseteq 1..(m + 1)
    OBVIOUS
  <2> QED
    BY <1>13, <1>19, <2>1, <2>2
<1>26. D \cup a.lost \subseteq 1..(m + 1)
  <2>1. D \cup acc.lost \subseteq 1..m
    BY <1>3 DEF Sending
  <2>2. 1..m \subseteq 1..(m + 1)
    OBVIOUS
  <2>3. \A id \in a.lost : id \in acc.lost \/ \E k \in 1..Len(Q) : Q[k].id = id
    BY <1>12 DEF Lasts
  <2>4. \A k \in 1..Len(Q) : Q[k].id \in 1..(m + 1)
    BY <1>6 DEF QueueNumbered
  <2>5. ASSUME NEW id \in a.lost PROVE id \in 1..(m + 1)
    <3>1. CASE id \in acc.lost
      BY <2>1, <2>2, <3>1
    <3>2. CASE \E k \in 1..Len(Q) : Q[k].id = id
      BY <2>4, <3>2
    <3> QED
      BY <2>3, <3>1, <3>2
  <2> QED
    BY <2>1, <2>2, <2>5
<1>27. Accounted(t, v, A \cup T, D \cup a.lost)
  <2>1. ASSUME NEW k \in 1..n PROVE Q[k].id \in a.lost \/ (\E l \in 1..Len(t) : t[l].id = Q[k].id) \/ On(v, Q[k].id)
    <3>1. CASE k > j
      BY <1>21, <3>1 DEF AllWait
    <3>2. CASE ~(k > j)
      <4>1. k \in 1..j
        BY <1>20, <3>2
      <4> QED
        BY <1>12, <1>16, <4>1 DEF Gone
    <3> QED
      BY <3>1, <3>2
  <2>2. ASSUME NEW id \in A \cup acc.taken
        PROVE  id \in D \cup a.lost \/ (\E l \in 1..Len(t) : t[l].id = id) \/ On(v, id)
    <3>1. id \in D \cup acc.lost \/ (\E k \in 1..Len(q) : q[k].id = id) \/ On(w, id)
      BY <1>3 DEF Sending, Accounted
    <3>2. CASE id \in D \cup acc.lost
      BY <1>19, <3>2
    <3>3. CASE \E k \in 1..Len(q) : q[k].id = id
      <4>1. PICK k \in 1..Len(q) : q[k].id = id
        BY <3>3
      <4>2. k \in 1..n /\ Q[k] = q[k]
        BY <1>5, <1>7 DEF Queued
      <4> QED
        BY <2>1, <4>1, <4>2
    <3>4. CASE On(w, id)
      BY <1>19, <3>4, OnPrefix
    <3> QED
      BY <3>1, <3>2, <3>3, <3>4
  <2>3. ASSUME f.id \in T, f.id \notin acc.taken
        PROVE  f.id \in D \cup a.lost \/ (\E l \in 1..Len(t) : t[l].id = f.id) \/ On(v, f.id)
    <3>1. Len(q) < queue_limit(f)
      BY <1>13, <1>19, <2>3
    <3>2. PICK k \in 1..n : Q[k] = f
      BY <1>5, <1>7, <3>1 DEF Queued
    <3> QED
      BY <2>1, <3>2
  <2>4. \A id \in A \cup T : id \in A \cup acc.taken \/ (id = f.id /\ f.id \in T /\ f.id \notin acc.taken)
    BY <1>13, <1>19
  <2> QED
    BY <2>2, <2>3, <2>4 DEF Accounted
<1>28. Sending(t, a.held, v, m + 1, A \cup T, D \cup a.lost)
  BY <1>19, <1>21, <1>22, <1>23, <1>24, <1>25, <1>26, <1>27 DEF Sending
<1>29. ASSUME conn.stream, ~a.err PROVE StreamWell(t, a.held, v)
  <2>1. /\ StreamOk(v)
        /\ a.stop => j < n /\ Begun(a.held, v, Q[j + 1])
        /\ ~a.stop => (n > 0 => a.held = 0)
    BY <1>12, <1>16, <1>29 DEF OnStream
  <2>2. CASE a.stop
    <3>1. n - j > 0 /\ 1 \in 1..(n - j)
      BY <1>20, <2>1, <2>2
    <3>2. t[1] = Q[j + 1] /\ Len(t) # 0
      BY <1>20, <3>1
    <3> QED
      BY <2>1, <2>2, <3>2 DEF StreamWell
  <2>3. CASE ~a.stop
    <3>1. j = n
      BY <1>12, <2>3 DEF Waits
    <3>2. Len(t) = 0
      BY <1>20, <3>1
    <3> QED
      BY <1>7, <2>1, <2>3, <3>2 DEF StreamWell
  <2> QED
    BY <2>2, <2>3
<1> QED
  BY <1>1, <1>17, <1>18, <1>19, <1>28, <1>29 DEF CallWell

(* Division and remainders, for the segments of a superpacket.             *)
LEMMA RemainderIs ==
  ASSUME NEW x \in Nat, NEW g \in Nat, g > 0
  PROVE  \E k \in Nat, r \in Nat : k = x \div g /\ r = x % g /\ r < g /\ x = k * g + r
<1>1. x \div g \in Nat
  OBVIOUS
<1>2. x % g \in 0..(g - 1)
  OBVIOUS
<1>3. x = g * (x \div g) + (x % g)
  OBVIOUS
<1>4. PICK k \in Nat, r \in Nat : k = x \div g /\ r = x % g /\ r < g /\ x = g * k + r
  BY <1>1, <1>2, <1>3
<1>5. g * k = k * g
  OBVIOUS
<1> QED
  BY <1>4, <1>5

LEMMA QuotientIs ==
  ASSUME NEW x \in Nat, NEW g \in Nat, g > 0
  PROVE  x \div g \in Nat /\ (x \div g) * g <= x /\ x < (x \div g) * g + g
<1>1. PICK k \in Nat, r \in Nat : k = x \div g /\ r = x % g /\ r < g /\ x = k * g + r
  BY RemainderIs
<1>2. k * g \in Nat
  OBVIOUS
<1>3. k * g <= x /\ x < k * g + g
  BY <1>1, <1>2
<1> QED
  BY <1>1, <1>3

LEMMA ProductGrows ==
  ASSUME NEW a \in Nat, NEW b \in Nat, NEW g \in Nat, a <= b
  PROVE  a * g \in Nat /\ b * g \in Nat /\ a * g <= b * g
OBVIOUS

LEMMA ProductNext ==
  ASSUME NEW a \in Nat, NEW g \in Nat
  PROVE  a * g \in Nat /\ (a + 1) * g = a * g + g
OBVIOUS

LEMMA RemainderOnce ==
  ASSUME NEW s \in Nat, NEW a \in Nat, NEW b \in Nat, NEW x \in Nat, NEW y \in Nat, x < s, y < s, a * s + x = b * s + y
  PROVE  x = y
<1>1. ~(a < b)
  <2>1. SUFFICES ASSUME a < b PROVE FALSE
    OBVIOUS
  <2>2. (a + 1) * s <= b * s /\ b * s \in Nat
    BY <2>1, ProductGrows
  <2>3. (a + 1) * s = a * s + s /\ a * s \in Nat
    BY ProductNext
  <2> QED
    BY <2>2, <2>3
<1>2. ~(b < a)
  <2>1. SUFFICES ASSUME b < a PROVE FALSE
    OBVIOUS
  <2>2. (b + 1) * s <= a * s /\ a * s \in Nat
    BY <2>1, ProductGrows
  <2>3. (b + 1) * s = b * s + s /\ b * s \in Nat
    BY ProductNext
  <2> QED
    BY <2>2, <2>3
<1>3. a = b
  BY <1>1, <1>2
<1>4. a * s \in Nat
  BY ProductNext
<1> QED
  BY <1>3, <1>4

LEMMA RemainderAdds ==
  ASSUME NEW a \in Nat, NEW b \in Nat, NEW s \in Nat, s > 0
  PROVE  ((a % s) + b) % s = (a + b) % s
<1>1. PICK k \in Nat, r \in Nat : r = a % s /\ a = k * s + r
  BY RemainderIs
<1>2. PICK u \in Nat, x \in Nat : x = (r + b) % s /\ r + b = u * s + x /\ x < s
  <2>1. r + b \in Nat
    OBVIOUS
  <2> QED
    BY <2>1, RemainderIs
<1>3. PICK v \in Nat, y \in Nat : y = (a + b) % s /\ a + b = v * s + y /\ y < s
  <2>1. a + b \in Nat
    OBVIOUS
  <2> QED
    BY <2>1, RemainderIs
<1>4. (k + u) * s = k * s + u * s /\ k * s \in Nat /\ u * s \in Nat /\ v * s \in Nat
  OBVIOUS
<1>5. (k + u) * s + x = v * s + y
  BY <1>1, <1>2, <1>3, <1>4
<1>6. x = y
  <2>1. k + u \in Nat
    OBVIOUS
  <2> QED
    BY <1>2, <1>3, <1>5, <2>1, RemainderOnce
<1> QED
  BY <1>1, <1>2, <1>3, <1>6

(* The number of segments is the least that covers the payload.            *)
LEMMA SegmentCount ==
  ASSUME NEW payload \in Nat, NEW g \in Nat, g > 0, NEW n, n = calc_gso_segs(payload, g)
  PROVE  n \in Nat /\ payload <= n * g /\ (n > 0 => (n - 1) * g < payload)
<1>1. PICK x \in Nat : x = payload + g - 1
  OBVIOUS
<1>2. n = x \div g
  BY <1>1 DEF calc_gso_segs
<1>3. n \in Nat /\ n * g <= x /\ x < n * g + g
  BY <1>2, QuotientIs
<1>4. n * g \in Nat
  BY <1>3, ProductNext
<1>5. payload <= n * g
  BY <1>1, <1>3, <1>4
<1>6. ASSUME n > 0 PROVE (n - 1) * g < payload
  <2>1. PICK k \in Nat : n = k + 1 /\ k = n - 1
    BY <1>3, <1>6
  <2>2. n * g = k * g + g /\ k * g \in Nat
    BY <2>1, ProductNext
  <2> QED
    BY <1>1, <1>3, <2>1, <2>2
<1> QED
  BY <1>3, <1>5, <1>6

(* A segment lies in the payload, is not empty, and ends where the next    *)
(* begins.                                                                 *)
SegmentWell(s, payload, g, n, i) ==
  /\ s.from = (i - 1) * g /\ s.from \in Nat /\ s.to \in Nat /\ s.from < s.to /\ s.to <= payload
  /\ s.seq = (g * (i - 1)) % SeqSpace /\ (s.flags <=> s.to = payload)
  /\ i < n => s.to = i * g /\ s.to < payload /\ s.to - s.from = g
  /\ i = n => s.to = payload /\ s.to - s.from <= g

LEMMA SegmentIs ==
  ASSUME NEW payload \in Nat, NEW g \in Nat, g > 0, NEW n, n = calc_gso_segs(payload, g), NEW i \in 1..n
  PROVE  SegmentWell(build_segment(payload, g, i), payload, g, n, i)
<1>1. n \in Nat /\ payload <= n * g /\ (n > 0 => (n - 1) * g < payload)
  BY SegmentCount
<1>2. PICK j \in Nat : i = j + 1 /\ j = i - 1 /\ i \in Nat /\ i <= n /\ n > 0
  BY <1>1
<1>3. PICK a \in Nat : a = j * g
  BY ProductNext
<1>4. i * g = a + g
  BY <1>2, <1>3, ProductNext
<1>5. a < payload
  <2>1. PICK k \in Nat : k = n - 1 /\ j <= k
    BY <1>1, <1>2
  <2>2. j * g <= k * g /\ k * g \in Nat
    BY <2>1, ProductGrows
  <2> QED
    BY <1>1, <1>2, <1>3, <2>1, <2>2
<1>6. PICK t \in Nat : t = Least(a + g, payload) /\ a < t /\ t <= payload /\ t <= a + g /\ (t = a + g \/ t = payload)
  BY <1>5 DEF Least
<1>7. PICK s : s = build_segment(payload, g, i)
  OBVIOUS
<1>8. s.from = a /\ s.to = t /\ s.seq = (g * (i - 1)) % SeqSpace /\ (s.flags <=> t = payload)
  BY <1>2, <1>3, <1>6, <1>7 DEF build_segment
<1>9. ASSUME i < n PROVE t = a + g /\ t < payload /\ t - a = g
  <2>1. PICK k \in Nat : k = n - 1 /\ i <= k
    BY <1>1, <1>2, <1>9
  <2>2. i * g <= k * g /\ k * g \in Nat
    BY <1>2, <2>1, ProductGrows
  <2>3. k * g < payload
    BY <1>1, <1>2, <2>1
  <2>4. a + g < payload
    BY <1>4, <2>2, <2>3
  <2> QED
    BY <1>6, <2>4
<1>10. ASSUME i = n PROVE t = payload /\ t - a <= g
  <2>1. payload <= a + g
    BY <1>1, <1>4, <1>10
  <2> QED
    BY <1>6, <2>1
<1>11. s.from = (i - 1) * g
  BY <1>2, <1>3, <1>8
<1> QED
  BY <1>4, <1>6, <1>7, <1>8, <1>9, <1>10, <1>11 DEF SegmentWell

Segmented(segs, payload, g, n) ==
  /\ n \in Nat /\ Len(segs) = n /\ DOMAIN segs = 1..n
  /\ \A i \in 1..n : SegmentWell(segs[i], payload, g, n, i)

LEMMA SegmentsAre ==
  ASSUME NEW payload \in Nat, NEW g \in Nat, g > 0, NEW n, n = calc_gso_segs(payload, g), NEW segs, segs = SegmentsOf(payload, g)
  PROVE  Segmented(segs, payload, g, n)
<1>1. n \in Nat
  BY SegmentCount
<1>2. segs = [i \in 1..n |-> build_segment(payload, g, i)]
  BY DEF SegmentsOf
<1>3. Len(segs) = n /\ DOMAIN segs = 1..n
  BY <1>1, <1>2
<1>4. \A i \in 1..n : SegmentWell(segs[i], payload, g, n, i)
  BY <1>2, SegmentIs
<1> QED
  BY <1>1, <1>3, <1>4 DEF Segmented

(* Its frames are numbered from the next number on.                        *)
Frames(segs, m) == [i \in 1..Len(segs) |-> FrameOf(segs[i], m + i)]

Framed(F, n, m, g) ==
  /\ F \in Seq(FrameSet) /\ Len(F) = n
  /\ \A i \in 1..n : F[i].id = m + i /\ (i < n => F[i].size = 1 + g) /\ F[i].size <= 1 + g

LEMMA FramesAre ==
  ASSUME NEW payload \in Nat, NEW g \in Nat, g > 0, NEW n, n = calc_gso_segs(payload, g), NEW m \in Nat
  PROVE  Framed(Frames(SegmentsOf(payload, g), m), n, m, g)
<1>1. PICK segs : segs = SegmentsOf(payload, g)
  OBVIOUS
<1>2. /\ n \in Nat /\ Len(segs) = n /\ DOMAIN segs = 1..n
      /\ \A i \in 1..n : SegmentWell(segs[i], payload, g, n, i)
  <2>1. Segmented(segs, payload, g, n)
    BY <1>1, SegmentsAre
  <2> QED
    BY <2>1 DEF Segmented
<1>3. PICK F : F = Frames(segs, m)
  OBVIOUS
<1>4. F = [i \in 1..n |-> FrameOf(segs[i], m + i)]
  BY <1>2, <1>3 DEF Frames
<1>5. ASSUME NEW i \in 1..n
      PROVE  /\ FrameOf(segs[i], m + i) \in FrameSet /\ FrameOf(segs[i], m + i).id = m + i
             /\ (i < n => FrameOf(segs[i], m + i).size = 1 + g) /\ FrameOf(segs[i], m + i).size <= 1 + g
  <2>1. PICK a \in Nat, b \in Nat : /\ a = segs[i].from /\ b = segs[i].to /\ a < b /\ (i < n => b - a = g) /\ (i = n => b - a <= g)
    BY <1>2 DEF SegmentWell
  <2>2. b - a \in Nat /\ b - a > 0 /\ b - a <= g /\ m + i \in Nat
    <3>1. i < n \/ i = n
      BY <1>2
    <3> QED
      BY <2>1, <3>1
  <2>3. PICK d \in Nat : d = 1 + (b - a)
    BY <2>2
  <2>4. d > 0 /\ d <= 1 + g /\ (i < n => d = 1 + g)
    BY <2>1, <2>2, <2>3
  <2>5. FrameOf(segs[i], m + i) = [id |-> m + i, kind |-> "tcp", size |-> d]
    BY <2>1, <2>3 DEF FrameOf, HdrLen
  <2> QED
    BY <2>2, <2>4, <2>5 DEF FrameSet
<1>6. F \in [1..n -> FrameSet]
  BY <1>4, <1>5
<1>7. F \in Seq(FrameSet) /\ Len(F) = n
  BY <1>2, <1>6
<1>8. \A i \in 1..n : F[i] = FrameOf(segs[i], m + i)
  BY <1>4
<1> QED
  <2>1. Framed(F, n, m, g)
    BY <1>5, <1>7, <1>8 DEF Framed
  <2> QED
    BY <1>1, <1>3, <2>1

(* A call that only adds to the wire, as ExpressLane does.                 *)
LEMMA LaneKeeps ==
  ASSUME Setting, conn.lane, NEW m \in Nat, NEW q, NEW h, NEW w, NEW A, NEW D, Sending(q, h, w, m, A, D),
         NEW v, More(w, v, m + 1), NEW E, D \subseteq E, E \subseteq D \cup {m + 1}
  PROVE  Sending(q, h, v, m + 1, A, E)
<1>1. w \in Seq(WireSet) /\ m + 1 \in Nat /\ 1..m \subseteq 1..(m + 1) /\ m + 1 \in 1..(m + 1)
  BY DEF Sending
<1>2. v \in Seq(WireSet) /\ Prefix(w, v)
  BY <1>1, MorePrefix
<1>3. Within(v, m + 1)
  <2>1. Within(w, m + 1)
    <3>1. \A i \in 1..Len(w) : UnitId(w[i]) \in Nat /\ UnitId(w[i]) <= m
      BY <1>1, SendSettingIs, UnitIdIs DEF Sending, Within
    <3>2. \A i \in 1..Len(w) : UnitId(w[i]) <= m + 1
      BY <3>1
    <3> QED
      BY <3>2 DEF Within
  <2>2. m + 1 <= m + 1
    BY <1>1
  <2> QED
    BY <1>1, <2>1, <2>2, SendSettingIs, WithinMore
<1>4. QueueNumbered(q, m + 1)
  BY <1>1 DEF Sending, QueueNumbered
<1>5. Accounted(q, v, A, E)
  <2>1. \A id : On(w, id) => On(v, id)
    BY <1>1, <1>2, OnPrefix
  <2> QED
    BY <2>1 DEF Sending, Accounted
<1>6. A \subseteq 1..(m + 1) /\ E \subseteq 1..(m + 1)
  BY <1>1 DEF Sending
<1> QED
  BY <1>2, <1>3, <1>4, <1>5, <1>6 DEF Sending

(* A number that goes to no frame changes nothing.                         *)
LEMMA LaterKeeps ==
  ASSUME Setting, NEW m \in Nat, NEW l \in Nat, m <= l, NEW q, NEW h, NEW w, NEW A, NEW D, Sending(q, h, w, m, A, D)
  PROVE  Sending(q, h, w, l, A, D)
<1>1. w \in Seq(WireSet) /\ 1..m \subseteq 1..l
  BY DEF Sending
<1>2. Within(w, l)
  <2>1. \A i \in 1..Len(w) : UnitId(w[i]) \in Nat /\ UnitId(w[i]) <= m
    BY <1>1, SendSettingIs, UnitIdIs DEF Sending, Within
  <2>2. \A i \in 1..Len(w) : UnitId(w[i]) <= l
    BY <2>1
  <2> QED
    BY <2>2 DEF Within
<1>3. QueueNumbered(q, l)
  BY <1>1 DEF Sending, QueueNumbered
<1>4. A \subseteq 1..l /\ D \subseteq 1..l
  BY <1>1 DEF Sending
<1> QED
  BY <1>2, <1>3, <1>4 DEF Sending

LEMMA LaneSends ==
  ASSUME Setting, conn.lane, NEW p, NEW acc \in AccSet(p), ~acc.open, ~acc.stop, NEW f \in FrameSet, NEW r, r = udp_send(acc, f)
  PROVE  /\ r \in AccSet(p) /\ Retains(acc, r) /\ More(acc.wire, r.wire, f.id) /\ r.held = acc.held
         /\ acc.lost \subseteq r.lost /\ r.lost \subseteq acc.lost \cup {f.id}
<1>1. ~conn.stream
  BY SendSettingIs
<1>2. r \in AccSet(p) /\ Tried(acc, f, r) /\ r.held = acc.held
  BY <1>1, UdpTried
<1> QED
  BY <1>2 DEF Tried, Went, Failed, Blocked

(* One segment after the other.                                            *)
SendsOn(p) == {y \in AccSet(p) : ~y.open /\ (conn.lane => ~y.stop)}
SegWell(p, acc, m, A, D) == CallWell(p, acc, m, A, D) /\ acc \in SendsOn(p)

LEMMA SendTyped ==
  ASSUME NEW p, NEW acc \in AccSet(p), NEW f \in FrameSet, NEW r, r = send_frame_or_queue(acc, f)
  PROVE  r \in AccSet(p)
<1>1. PICK Q : Q = IF Len(acc.queue) < queue_limit(f) THEN Append(acc.queue, f) ELSE acc.queue
  OBVIOUS
<1>2. Q \in Seq(FrameSet)
  BY <1>1, AccIs
<1>3. PICK g : Turns(p, acc, Q, g)
  BY <1>2, WritesAre
<1>4. PICK a : a = WriteAll(acc, Q) /\ a \in AccSet(p)
  <2>1. Len(Q) \in Nat /\ Len(Q) \in 0..Len(Q)
    BY <1>2
  <2> QED
    BY <1>3, <2>1 DEF Turns
<1>5. PICK T \in SUBSET Nat : T = IF Len(acc.queue) < queue_limit(f) THEN a.taken \cup {f.id} ELSE a.taken
  <2>1. a.taken \subseteq Nat /\ f.id \in Nat
    BY <1>4, AccIs DEF FrameSet
  <2> QED
    BY <2>1
<1>6. r = [a EXCEPT !.queue = a.rest, !.taken = T]
  BY <1>1, <1>4, <1>5 DEF send_frame_or_queue
<1> QED
  BY <1>4, <1>5, <1>6 DEF AccSet

LEMMA TurnsKeep ==
  ASSUME conn.stream \in BOOLEAN, NEW p, NEW acc \in AccSet(p), ~acc.open, NEW Q \in Seq(FrameSet), NEW g, Turns(p, acc, Q, g)
  PROVE  ~WriteAll(acc, Q).open
<1>1. PICK n \in Nat : n = Len(Q)
  OBVIOUS
<1> DEFINE K == {i \in 0..n : g[i].open}
<1>2. SUFFICES K = {}
  <2>1. n \in 0..n /\ WriteAll(acc, Q) = g[n] /\ g[n] \in AccSet(p)
    BY <1>1 DEF Turns
  <2> QED
    BY <2>1, AccIs
<1>3. SUFFICES ASSUME K # {} PROVE FALSE
  OBVIOUS
<1>4. PICK k \in K : \A l \in K : k <= l
  <2>1. K \in SUBSET Nat
    OBVIOUS
  <2> HIDE DEF K
  <2> QED
    BY <1>3, <2>1, LeastExists
<1>5. k \in 0..n /\ g[k].open
  OBVIOUS
<1>6. g[0] = Started(acc) /\ ~g[0].open
  BY StartedIs DEF Turns, Retains
<1>7. PICK i \in 0..n : k = i + 1 /\ k \in 1..n /\ k - 1 = i
  BY <1>5, <1>6
<1>8. i \notin K
  BY <1>4, <1>7
<1>9. PICK a : a = g[i] /\ a \in AccSet(p) /\ ~a.open
  BY <1>1, <1>7, <1>8 DEF Turns
<1>10. PICK f \in FrameSet : f = Q[k] /\ g[k] = try_write(a, f)
  BY <1>1, <1>7, <1>9, FrameIs DEF Turns
<1>11. ~try_write(a, f).open
  <2>1. CASE a.stop
    BY <1>9, <2>1 DEF try_write, AccSet
  <2>2. CASE ~a.stop
    BY <1>9, <2>2, TryIs DEF Tried, Retains
  <2> QED
    BY <2>1, <2>2
<1> QED
  BY <1>5, <1>10, <1>11

LEMMA SendOpens ==
  ASSUME conn.stream \in BOOLEAN, NEW p, NEW acc \in AccSet(p), ~acc.open, NEW f \in FrameSet, NEW r, r = send_frame_or_queue(acc, f)
  PROVE  ~r.open
<1>1. PICK Q : Q = IF Len(acc.queue) < queue_limit(f) THEN Append(acc.queue, f) ELSE acc.queue
  OBVIOUS
<1>6. Q \in Seq(FrameSet)
  BY <1>1, AccIs
<1>2. PICK g : Turns(p, acc, Q, g)
  BY <1>6, WritesAre
<1>3. PICK a : a = WriteAll(acc, Q) /\ a \in AccSet(p)
  <2>1. Len(Q) \in Nat /\ Len(Q) \in 0..Len(Q)
    BY <1>6
  <2> QED
    BY <1>2, <2>1 DEF Turns
<1>4. ~a.open
  BY <1>2, <1>3, <1>6, TurnsKeep
<1>5. r = [a EXCEPT !.queue = a.rest, !.taken = IF Len(acc.queue) < queue_limit(f) THEN a.taken \cup {f.id} ELSE a.taken]
  BY <1>1, <1>3 DEF send_frame_or_queue
<1> QED
  BY <1>3, <1>4, <1>5 DEF AccSet

LEMMA SegmentTyped ==
  ASSUME Setting, NEW p, NEW acc \in SendsOn(p), NEW f \in FrameSet
  PROVE  SendSegment(acc, f) \in SendsOn(p)
<1>1. acc \in AccSet(p) /\ ~acc.open /\ (conn.lane => ~acc.stop)
  BY DEF SendsOn
<1>2. CASE acc.err
  BY <1>2 DEF SendSegment
<1>3. CASE ~acc.err /\ conn.lane
  <2>1. PICK r : r = udp_send(acc, f) /\ r \in AccSet(p) /\ Retains(acc, r)
    BY <1>1, <1>3, LaneSends
  <2>2. SendSegment(acc, f) = [r EXCEPT !.stop = FALSE]
    BY <1>3, <2>1 DEF SendSegment
  <2>3. PICK s : s = SendSegment(acc, f) /\ s \in AccSet(p) /\ ~s.open /\ ~s.stop
    BY <1>1, <2>1, <2>2 DEF AccSet, Retains
  <2> QED
    BY <2>3 DEF SendsOn
<1>4. CASE ~acc.err /\ ~conn.lane
  <2>1. PICK r : r = send_frame_or_queue(acc, f) /\ r = SendSegment(acc, f)
    BY <1>4 DEF SendSegment
  <2>2. r \in AccSet(p) /\ ~r.open
    BY <1>1, <2>1, SendSettingIs, SendTyped, SendOpens
  <2> QED
    BY <1>4, <2>1, <2>2 DEF SendsOn
<1> QED
  BY <1>2, <1>3, <1>4

LEMMA SegmentSent ==
  ASSUME Setting, NEW p, NEW m \in Nat, NEW A, NEW D, NEW acc, SegWell(p, acc, m, A, D),
         NEW f \in FrameSet, f.id = m + 1, NEW r, r = SendSegment(acc, f)
  PROVE  SegWell(p, r, m + 1, A, D)
<1>1. acc \in AccSet(p) /\ ~acc.open /\ (conn.lane => ~acc.stop) /\ CallWell(p, acc, m, A, D) /\ acc \in SendsOn(p)
  BY DEF SegWell, SendsOn
<1>2. r \in SendsOn(p)
  BY <1>1, SegmentTyped
<1>3. Sending(acc.queue, acc.held, acc.wire, m, A \cup acc.taken, D \cup acc.lost)
  BY <1>1 DEF CallWell
<1>4. CASE acc.err
  <2>1. r = acc
    BY <1>4 DEF SendSegment
  <2>2. m + 1 \in Nat /\ m <= m + 1
    OBVIOUS
  <2>3. Sending(acc.queue, acc.held, acc.wire, m + 1, A \cup acc.taken, D \cup acc.lost)
    BY <1>3, <2>2, LaterKeeps
  <2> QED
    BY <1>1, <1>4, <2>1, <2>3 DEF CallWell, SegWell
<1>5. CASE ~acc.err /\ conn.lane
  <2>1. PICK s : s = udp_send(acc, f)
    OBVIOUS
  <2>2. /\ s \in AccSet(p) /\ Retains(acc, s) /\ More(acc.wire, s.wire, m + 1) /\ s.held = acc.held
        /\ acc.lost \subseteq s.lost /\ s.lost \subseteq acc.lost \cup {m + 1}
    BY <1>1, <1>5, <2>1, LaneSends
  <2>3. r = [s EXCEPT !.stop = FALSE]
    BY <1>5, <2>1 DEF SendSegment
  <2>4. /\ r \in AccSet(p) /\ r.queue = acc.queue /\ r.held = acc.held /\ r.wire = s.wire /\ r.lost = s.lost /\ r.taken = acc.taken
        /\ r.open = acc.open
    BY <2>2, <2>3 DEF AccSet, Retains
  <2>5. D \cup acc.lost \subseteq D \cup s.lost /\ D \cup s.lost \subseteq (D \cup acc.lost) \cup {m + 1}
    BY <2>2
  <2>6. Sending(acc.queue, acc.held, s.wire, m + 1, A \cup acc.taken, D \cup s.lost)
    BY <1>3, <1>5, <2>2, <2>5, LaneKeeps
  <2>7. ~conn.stream
    BY <1>5, SendSettingIs
  <2> QED
    BY <1>1, <1>2, <2>4, <2>6, <2>7 DEF CallWell, SegWell
<1>6. CASE ~acc.err /\ ~conn.lane
  <2>1. r = send_frame_or_queue(acc, f)
    BY <1>6 DEF SendSegment
  <2> QED
    BY <1>1, <1>2, <1>6, <2>1, SendIs DEF SegWell
<1> QED
  BY <1>4, <1>5, <1>6

(* The segments of a superpacket, each in its turn.                        *)
InTurn(p, acc, F, g) ==
  /\ g \in [0..Len(F) -> SendsOn(p)] /\ g[0] = acc
  /\ \A i \in 1..Len(F) : g[i] = SendSegment(g[i - 1], F[i])
  /\ SendEach(acc, F) = g[Len(F)]

LEMMA EachAre ==
  ASSUME Setting, NEW p, NEW acc \in SendsOn(p), NEW F \in Seq(FrameSet)
  PROVE  \E g : InTurn(p, acc, F, g)
<1>1. PICK n \in Nat : n = Len(F)
  OBVIOUS
<1>2. PICK base \in SendsOn(p) : base = acc
  OBVIOUS
<1>3. PICK next : next = [x \in (SendsOn(p)) \X (1..n) |-> SendSegment(x[1], F[x[2]])]
  OBVIOUS
<1>4. next \in [(SendsOn(p)) \X (1..n) -> SendsOn(p)]
  <2>1. ASSUME NEW x \in (SendsOn(p)) \X (1..n) PROVE SendSegment(x[1], F[x[2]]) \in SendsOn(p)
    <3>1. PICK y \in SendsOn(p), i \in 1..n : x[1] = y /\ x[2] = i
      OBVIOUS
    <3>2. SendSegment(y, F[i]) \in SendsOn(p)
      <4>1. F[i] \in FrameSet
        BY <1>1
      <4> QED
        BY <4>1, SegmentTyped
    <3> QED
      BY <3>1, <3>2
  <2> QED
    BY <1>3, <2>1
<1>5. PICK g : Unrolled(SendsOn(p), n, base, next, g)
  BY <1>4, Unrolls
<1>6. /\ g \in [0..n -> SendsOn(p)] /\ g[0] = base
      /\ \A i \in 1..n : g[i] = SendSegment(g[i - 1], F[i])
  <2>1. g \in [0..n -> SendsOn(p)] /\ g[0] = base /\ \A i \in 1..n : g[i] = next[<<g[i - 1], i>>]
    BY <1>5 DEF Unrolled
  <2>2. ASSUME NEW i \in 1..n PROVE g[i] = SendSegment(g[i - 1], F[i])
    <3>1. i - 1 \in 0..n
      OBVIOUS
    <3>2. g[i - 1] \in SendsOn(p)
      BY <2>1, <3>1
    <3>3. <<g[i - 1], i>> \in (SendsOn(p)) \X (1..n)
      BY <3>2
    <3> QED
      BY <1>3, <2>1, <3>3
  <2> QED
    BY <2>1, <2>2
<1> DEFINE D(f) == f = [i \in 0..n |-> IF i = 0 THEN base ELSE SendSegment(f[i - 1], F[i])]
<1>7. D(g)
  <2>1. \A i \in 0..n : i # 0 => i \in 1..n
    OBVIOUS
  <2>2. \A i \in 0..n : g[i] = IF i = 0 THEN base ELSE SendSegment(g[i - 1], F[i])
    BY <1>6, <2>1
  <2> QED
    BY <1>6, <2>2
<1>8. PICK f : f = CHOOSE x : D(x)
  OBVIOUS
<1>9. D(f)
  BY <1>7, <1>8
<1>10. SendEach(acc, F) = f[n]
  BY <1>1, <1>2, <1>8 DEF SendEach
<1>11. f[n] = g[n]
  <2> DEFINE K == {i \in 0..n : f[i] # g[i]}
  <2>1. SUFFICES ASSUME K # {} PROVE FALSE
    OBVIOUS
  <2>2. PICK m \in K : \A k \in K : m <= k
    <3>1. K \in SUBSET Nat
      OBVIOUS
    <3> HIDE DEF K
    <3> QED
      BY <2>1, <3>1, LeastExists
  <2>3. m \in 0..n /\ f[m] # g[m]
    OBVIOUS
  <2>4. m # 0
    BY <1>6, <1>9, <2>3
  <2>5. m \in 1..n /\ m - 1 \in 0..n /\ m - 1 \notin K
    BY <2>2, <2>3, <2>4
  <2>6. f[m - 1] = g[m - 1]
    BY <2>5
  <2>7. f[m] = SendSegment(f[m - 1], F[m])
    BY <1>9, <2>3, <2>4
  <2> QED
    BY <1>6, <2>3, <2>5, <2>6, <2>7
<1> QED
  BY <1>1, <1>2, <1>6, <1>10, <1>11 DEF InTurn

LEMMA EachSent ==
  ASSUME Setting, NEW p, NEW m \in Nat, NEW A, NEW D, NEW acc, SegWell(p, acc, m, A, D), NEW F \in Seq(FrameSet),
         \A i \in 1..Len(F) : F[i].id = m + i
  PROVE  CallWell(p, SendEach(acc, F), m + Len(F), A, D)
<1>1. PICK n \in Nat : n = Len(F)
  OBVIOUS
<1>2. acc \in SendsOn(p)
  BY DEF SegWell
<1>3. PICK g : InTurn(p, acc, F, g)
  BY <1>2, EachAre
<1> DEFINE K == {i \in 0..n : ~SegWell(p, g[i], m + i, A, D)}
<1>4. SUFFICES K = {}
  <2>1. n \in 0..n /\ SendEach(acc, F) = g[n]
    BY <1>1, <1>3 DEF InTurn
  <2> QED
    BY <1>1, <2>1 DEF SegWell
<1>5. SUFFICES ASSUME K # {} PROVE FALSE
  OBVIOUS
<1>6. PICK k \in K : \A l \in K : k <= l
  <2>1. K \in SUBSET Nat
    OBVIOUS
  <2> HIDE DEF K
  <2> QED
    BY <1>5, <2>1, LeastExists
<1>7. k \in 0..n /\ ~SegWell(p, g[k], m + k, A, D)
  OBVIOUS
<1>8. k # 0
  <2>1. g[0] = acc /\ m + 0 = m
    BY <1>3 DEF InTurn
  <2> QED
    BY <1>7, <2>1
<1>9. PICK i \in 0..n : k = i + 1 /\ k \in 1..n /\ k - 1 = i
  BY <1>7, <1>8
<1>10. i \notin K
  BY <1>6, <1>9
<1>14. PICK l \in Nat : l = m + i /\ m + k = l + 1
  BY <1>9
<1>11. PICK a : a = g[i] /\ SegWell(p, a, l, A, D)
  BY <1>9, <1>10, <1>14
<1>12. PICK f \in FrameSet : f = F[k] /\ f.id = l + 1 /\ g[k] = SendSegment(a, f)
  BY <1>1, <1>3, <1>9, <1>11, <1>14, FrameIs DEF InTurn
<1>13. SegWell(p, g[k], l + 1, A, D)
  BY <1>11, <1>12, SegmentSent
<1> QED
  BY <1>7, <1>13, <1>14

(* A frame that meets an open batch joins it; so does the one that waited, *)
(* and then the new one is turned away.                                    *)
Coalesces(p) == {y \in AccSet(p) : y.open /\ Len(y.queue) <= 1}
Joining(acc, f) == IF Len(acc.queue) = 0 THEN f ELSE acc.queue[1]
JoinsBatch(acc, f, x, r) ==
  r.open /\ r.wire = acc.wire /\ r.held = acc.held /\ r.buf = Append(acc.buf, x) /\ x \in FrameSet

OpenSent(acc, f, r) ==
  /\ JoinsBatch(acc, f, Joining(acc, f), r) /\ r.queue = <<>>
  /\ r.taken = IF Len(acc.queue) = 0 THEN acc.taken \cup {f.id} ELSE acc.taken

LEMMA OpenSend ==
  ASSUME Setting, ~conn.stream, NEW p, NEW acc \in Coalesces(p), NEW f \in FrameSet, NEW r, r = send_frame_or_queue(acc, f)
  PROVE  r \in AccSet(p) /\ OpenSent(acc, f, r)
<1>1. acc \in AccSet(p) /\ acc.open /\ Len(acc.queue) <= 1
  BY DEF Coalesces
<1>2. PICK q \in Seq(FrameSet), n \in Nat : q = acc.queue /\ n = Len(q) /\ n <= 1
  BY <1>1, AccIs
<1>3. queue_limit(f) = 1
  BY DEF queue_limit
<1>4. PICK Q : Q = IF Len(acc.queue) < queue_limit(f) THEN Append(acc.queue, f) ELSE acc.queue
  OBVIOUS
<1>5. PICK x : x = Joining(acc, f)
  OBVIOUS
<1>6. Q \in Seq(FrameSet) /\ Len(Q) = 1 /\ Q[1] = x /\ x \in FrameSet
  <2>1. CASE n = 0
    <3>1. Q = Append(q, f) /\ x = f
      BY <1>2, <1>3, <1>4, <1>5, <2>1 DEF Joining
    <3>2. Q \in Seq(FrameSet) /\ Len(Q) = Len(q) + 1 /\ Q[Len(q) + 1] = f
      BY <3>1, AppendProperties
    <3> QED
      BY <1>2, <2>1, <3>1, <3>2
  <2>2. CASE n = 1
    <3>1. Q = q /\ x = q[1]
      BY <1>2, <1>3, <1>4, <1>5, <2>2 DEF Joining
    <3>2. q[1] \in FrameSet
      <4>1. 1 \in 1..Len(q)
        BY <1>2, <2>2
      <4> QED
        BY <4>1, FrameIs
    <3> QED
      BY <1>2, <2>2, <3>1, <3>2
  <2>4. n <= 1
    BY <1>2
  <2>3. n = 0 \/ n = 1
    BY <2>4
  <2> QED
    BY <2>1, <2>2, <2>3
<1>7. PICK g : Turns(p, acc, Q, g)
  BY <1>1, <1>6, WritesAre
<1>8. PICK s : s = Started(acc) /\ s = g[0]
  BY <1>7 DEF Turns
<1>9. /\ s \in AccSet(p) /\ Retains(acc, s) /\ s.rest = <<>> /\ ~s.stop
      /\ s.held = acc.held /\ s.wire = acc.wire
  BY <1>1, <1>8, StartedIs
<1>10. PICK a : a = WriteAll(acc, Q)
  OBVIOUS
<1>11. a = try_write(s, x)
  <2>1. 1 \in 1..1 /\ 1 - 1 = 0
    OBVIOUS
  <2> QED
    BY <1>6, <1>7, <1>8, <1>10, <2>1 DEF Turns
<1>12. s.open /\ a = udp_send(s, x)
  BY <1>1, <1>9, <1>11 DEF try_write, Retains
<1>13. a = [s EXCEPT !.buf = Append(s.buf, x)] /\ a \in AccSet(p)
  BY <1>6, <1>9, <1>12, UdpOpen
<1>14. PICK T \in SUBSET Nat : T = IF Len(acc.queue) = 0 THEN acc.taken \cup {f.id} ELSE acc.taken
  <2>1. acc.taken \subseteq Nat /\ f.id \in Nat
    BY <1>1, AccIs DEF FrameSet
  <2> QED
    BY <2>1
<1>15. a.rest = <<>> /\ a.taken = acc.taken /\ a.open /\ a.wire = acc.wire /\ a.held = acc.held /\ a.buf = Append(acc.buf, x)
  BY <1>9, <1>12, <1>13 DEF AccSet, Retains
<1>16. Len(acc.queue) < queue_limit(f) <=> Len(acc.queue) = 0
  BY <1>2, <1>3
<1>17. r = [a EXCEPT !.queue = <<>>, !.taken = T]
  BY <1>4, <1>10, <1>14, <1>15, <1>16 DEF send_frame_or_queue
<1>18. r \in AccSet(p)
  <2>1. <<>> \in Seq(FrameSet)
    OBVIOUS
  <2> QED
    BY <1>13, <1>14, <1>17, <2>1 DEF AccSet
<1>19. /\ r.queue = <<>> /\ r.taken = T /\ r.open /\ r.wire = acc.wire /\ r.held = acc.held /\ r.buf = Append(acc.buf, x)
  BY <1>13, <1>15, <1>17 DEF AccSet
<1> QED
  BY <1>5, <1>6, <1>14, <1>18, <1>19 DEF JoinsBatch, OpenSent

LEMMA OpenLane ==
  ASSUME NEW p, NEW acc \in Coalesces(p), NEW f \in FrameSet, NEW r, r = udp_send(acc, f)
  PROVE  r \in AccSet(p) /\ JoinsBatch(acc, f, f, r) /\ r.queue = acc.queue /\ r.taken = acc.taken
<1>1. acc \in AccSet(p) /\ acc.open /\ Len(acc.queue) <= 1
  BY DEF Coalesces
<1>2. r = [acc EXCEPT !.buf = Append(acc.buf, f)] /\ r \in AccSet(p)
  BY <1>1, UdpOpen
<1> QED
  BY <1>1, <1>2 DEF AccSet, JoinsBatch

LEMMA CoalesceTyped ==
  ASSUME Setting, ~conn.stream, NEW p, NEW acc \in Coalesces(p), NEW f \in FrameSet
  PROVE  Coalesce(acc, f) \in Coalesces(p)
<1>1. acc \in AccSet(p) /\ acc.open /\ Len(acc.queue) <= 1
  BY DEF Coalesces
<1>2. PICK r : r = Coalesce(acc, f)
  OBVIOUS
<1>3. CASE conn.lane
  <2>1. r = udp_send(acc, f)
    BY <1>2, <1>3 DEF Coalesce
  <2> QED
    BY <1>1, <1>2, <2>1, OpenLane DEF Coalesces, JoinsBatch
<1>4. CASE ~conn.lane
  <2>1. r = send_frame_or_queue(acc, f)
    BY <1>2, <1>4 DEF Coalesce
  <2>4. r \in AccSet(p) /\ OpenSent(acc, f, r)
    BY <2>1, OpenSend
  <2>2. r \in AccSet(p) /\ r.open /\ r.queue = <<>>
    BY <2>4 DEF OpenSent, JoinsBatch
  <2>3. Len(r.queue) <= 1
    BY <2>2
  <2> QED
    BY <1>2, <2>2, <2>3 DEF Coalesces
<1> QED
  BY <1>3, <1>4

Silent == [i \in 1..MaxFrames |-> "accept"]
Opened == Call(0, FALSE, Silent, TRUE)

LEMMA OpenedIs ==
  ASSUME pendq \in Seq(FrameSet), sendBuf \in Nat, wireOut \in Seq(WireSet), Len(pendq) <= 1
  PROVE  /\ Opened \in Coalesces(Silent) /\ Opened.queue = pendq /\ Opened.held = sendBuf /\ Opened.wire = wireOut
         /\ Opened.buf = <<>> /\ Opened.taken = {}
<1>1. PICK s : s = Opened
  OBVIOUS
<1>2. s = [queue |-> pendq, rest |-> <<>>, held |-> sendBuf, wire |-> wireOut, room |-> 0,
           fails |-> FALSE, plugin |-> Silent, open |-> TRUE, buf |-> <<>>, stop |-> FALSE,
           err |-> FALSE, lost |-> {}, taken |-> {}]
  BY <1>1 DEF Opened, Call
<1>3. s \in AccSet(Silent)
  BY <1>2 DEF AccSet
<1> QED
  BY <1>1, <1>2, <1>3 DEF Coalesces

(* The batch, one segment after the other.                                 *)
Fills(F, cut, g) ==
  /\ g \in [0..cut -> Coalesces(Silent)] /\ g[0] = Opened
  /\ \A i \in 1..cut : g[i] = Coalesce(g[i - 1], F[i])
  /\ Coalesced(F, cut) = g[cut]

LEMMA CoalescedAre ==
  ASSUME Setting, ~conn.stream, pendq \in Seq(FrameSet), sendBuf \in Nat, wireOut \in Seq(WireSet), Len(pendq) <= 1,
         NEW F \in Seq(FrameSet), NEW cut \in 0..Len(F)
  PROVE  \E g : Fills(F, cut, g)
<1>1. PICK n \in Nat : n = cut
  OBVIOUS
<1>2. PICK base \in Coalesces(Silent) : base = Opened
  BY OpenedIs
<1>3. PICK next : next = [x \in (Coalesces(Silent)) \X (1..n) |-> Coalesce(x[1], F[x[2]])]
  OBVIOUS
<1>4. next \in [(Coalesces(Silent)) \X (1..n) -> Coalesces(Silent)]
  <2>1. ASSUME NEW x \in (Coalesces(Silent)) \X (1..n) PROVE Coalesce(x[1], F[x[2]]) \in Coalesces(Silent)
    <3>1. PICK y \in Coalesces(Silent), i \in 1..n : x[1] = y /\ x[2] = i
      OBVIOUS
    <3>2. Coalesce(y, F[i]) \in Coalesces(Silent)
      <4>1. i \in 1..Len(F)
        BY <1>1
      <4>2. F[i] \in FrameSet
        BY <4>1
      <4> QED
        BY <4>2, CoalesceTyped
    <3> QED
      BY <3>1, <3>2
  <2> QED
    BY <1>3, <2>1
<1>5. PICK g : Unrolled(Coalesces(Silent), n, base, next, g)
  BY <1>4, Unrolls
<1>6. /\ g \in [0..n -> Coalesces(Silent)] /\ g[0] = base
      /\ \A i \in 1..n : g[i] = Coalesce(g[i - 1], F[i])
  <2>1. g \in [0..n -> Coalesces(Silent)] /\ g[0] = base /\ \A i \in 1..n : g[i] = next[<<g[i - 1], i>>]
    BY <1>5 DEF Unrolled
  <2>2. ASSUME NEW i \in 1..n PROVE g[i] = Coalesce(g[i - 1], F[i])
    <3>1. i - 1 \in 0..n
      OBVIOUS
    <3>2. g[i - 1] \in Coalesces(Silent)
      BY <2>1, <3>1
    <3>3. <<g[i - 1], i>> \in (Coalesces(Silent)) \X (1..n)
      BY <3>2
    <3> QED
      BY <1>3, <2>1, <3>3
  <2> QED
    BY <2>1, <2>2
<1> DEFINE D(f) == f = [i \in 0..n |-> IF i = 0 THEN base ELSE Coalesce(f[i - 1], F[i])]
<1>7. D(g)
  <2>1. \A i \in 0..n : i # 0 => i \in 1..n
    OBVIOUS
  <2>2. \A i \in 0..n : g[i] = IF i = 0 THEN base ELSE Coalesce(g[i - 1], F[i])
    BY <1>6, <2>1
  <2> QED
    BY <1>6, <2>2
<1>8. PICK f : f = CHOOSE x : D(x)
  OBVIOUS
<1>9. D(f)
  BY <1>7, <1>8
<1>10. Coalesced(F, cut) = f[n]
  BY <1>1, <1>2, <1>8 DEF Coalesced, Opened, Silent
<1>11. f[n] = g[n]
  <2> DEFINE K == {i \in 0..n : f[i] # g[i]}
  <2>1. SUFFICES ASSUME K # {} PROVE FALSE
    OBVIOUS
  <2>2. PICK m \in K : \A k \in K : m <= k
    <3>1. K \in SUBSET Nat
      OBVIOUS
    <3> HIDE DEF K
    <3> QED
      BY <2>1, <3>1, LeastExists
  <2>3. m \in 0..n /\ f[m] # g[m]
    OBVIOUS
  <2>4. m # 0
    BY <1>6, <1>9, <2>3
  <2>5. m \in 1..n /\ m - 1 \in 0..n /\ m - 1 \notin K
    BY <2>2, <2>3, <2>4
  <2>6. f[m - 1] = g[m - 1]
    BY <2>5
  <2>7. f[m] = Coalesce(f[m - 1], F[m])
    BY <1>9, <2>3, <2>4
  <2> QED
    BY <1>6, <2>3, <2>5, <2>6, <2>7
<1> QED
  BY <1>1, <1>2, <1>6, <1>10, <1>11 DEF Fills

Slot(F, k) == IF k = 1 /\ ~conn.lane /\ Len(pendq) # 0 THEN pendq[1] ELSE F[k]
FillAt(F, i, a) ==
  /\ a \in Coalesces(Silent) /\ a.wire = wireOut /\ a.held = sendBuf
  /\ Len(a.buf) = i /\ \A k \in 1..i : a.buf[k] = Slot(F, k)
  /\ (conn.lane \/ i = 0) => a.queue = pendq
  /\ (~conn.lane /\ i > 0) => a.queue = <<>>
  /\ \A id \in a.taken : \E k \in 1..i : Slot(F, k).id = id

LEMMA FillNext ==
  ASSUME Setting, ~conn.stream, NEW F \in Seq(FrameSet), NEW i \in Nat, i < Len(F), NEW a, FillAt(F, i, a),
         NEW b, b = Coalesce(a, F[i + 1])
  PROVE  FillAt(F, i + 1, b)
<1>1. PICK f \in FrameSet : f = F[i + 1]
  <2>1. i + 1 \in 1..Len(F)
    OBVIOUS
  <2> QED
    BY <2>1, FrameIs
<1>2. /\ a \in Coalesces(Silent) /\ a.wire = wireOut /\ a.held = sendBuf
      /\ Len(a.buf) = i /\ \A k \in 1..i : a.buf[k] = Slot(F, k)
      /\ \A id \in a.taken : \E k \in 1..i : Slot(F, k).id = id
  BY DEF FillAt
<1>3. PICK s \in Seq(FrameSet) : s = a.buf /\ Len(s) = i
  BY <1>2, AccIs DEF Coalesces
<1>4. PICK x : x = IF conn.lane THEN f ELSE Joining(a, f)
  OBVIOUS
<1>5. /\ b \in Coalesces(Silent) /\ JoinsBatch(a, f, x, b)
      /\ conn.lane => b.queue = a.queue /\ b.taken = a.taken
      /\ ~conn.lane => b.queue = <<>> /\ b.taken = IF Len(a.queue) = 0 THEN a.taken \cup {f.id} ELSE a.taken
  <2>1. b = Coalesce(a, f)
    BY <1>1
  <2>2. b \in Coalesces(Silent)
    BY <1>2, <2>1, CoalesceTyped
  <2>3. CASE conn.lane
    <3>1. b = udp_send(a, f)
      BY <2>1, <2>3 DEF Coalesce
    <3>2. JoinsBatch(a, f, f, b) /\ b.queue = a.queue /\ b.taken = a.taken
      BY <1>2, <3>1, OpenLane
    <3> QED
      BY <1>4, <2>2, <2>3, <3>2
  <2>4. CASE ~conn.lane
    <3>1. b = send_frame_or_queue(a, f)
      BY <2>1, <2>4 DEF Coalesce
    <3>2. OpenSent(a, f, b)
      BY <1>2, <3>1, OpenSend
    <3> QED
      BY <1>4, <2>2, <2>4, <3>2 DEF OpenSent
  <2> QED
    BY <2>3, <2>4
<1>6. x = Slot(F, i + 1)
  <2>1. CASE conn.lane
    BY <1>1, <1>4, <2>1 DEF Slot
  <2>2. CASE ~conn.lane /\ i = 0
    <3>1. a.queue = pendq /\ i + 1 = 1
      BY <2>2 DEF FillAt
    <3> QED
      BY <1>1, <1>4, <2>2, <3>1 DEF Slot, Joining
  <2>3. CASE ~conn.lane /\ i # 0
    <3>1. a.queue = <<>> /\ i + 1 # 1
      BY <2>3 DEF FillAt
    <3>2. x = f
      BY <1>4, <2>3, <3>1 DEF Joining
    <3> QED
      BY <1>1, <2>3, <3>1, <3>2 DEF Slot
  <2> QED
    BY <2>1, <2>2, <2>3
<1>7. b.wire = wireOut /\ b.held = sendBuf /\ b.buf = Append(s, x) /\ x \in FrameSet
  BY <1>2, <1>3, <1>5 DEF JoinsBatch
<1>8. Len(b.buf) = i + 1 /\ \A k \in 1..(i + 1) : b.buf[k] = Slot(F, k)
  <2>1. Len(b.buf) = Len(s) + 1 /\ b.buf[Len(s) + 1] = x /\ \A k \in 1..Len(s) : b.buf[k] = s[k]
    BY <1>7, AppendProperties
  <2>2. \A k \in 1..(i + 1) : k \in 1..i \/ k = i + 1
    OBVIOUS
  <2> QED
    BY <1>2, <1>3, <1>6, <2>1, <2>2
<1>9. ASSUME NEW id \in b.taken PROVE \E k \in 1..(i + 1) : Slot(F, k).id = id
  <2>1. CASE id \in a.taken
    <3>1. PICK k \in 1..i : Slot(F, k).id = id
      BY <1>2, <2>1
    <3>2. k \in 1..(i + 1)
      OBVIOUS
    <3> QED
      BY <3>1, <3>2
  <2>2. CASE id \notin a.taken
    <3>1. ~conn.lane /\ Len(a.queue) = 0 /\ id = f.id
      BY <1>5, <1>9, <2>2
    <3>2. x = f /\ i + 1 \in 1..(i + 1)
      BY <1>4, <3>1 DEF Joining
    <3> QED
      BY <1>6, <3>1, <3>2
  <2> QED
    BY <2>1, <2>2
<1>10. conn.lane => b.queue = pendq
  BY <1>5 DEF FillAt
<1>11. ~(i + 1 = 0)
  OBVIOUS
<1> QED
  BY <1>5, <1>7, <1>8, <1>9, <1>10, <1>11 DEF FillAt

LEMMA CoalescedIs ==
  ASSUME Setting, ~conn.stream, pendq \in Seq(FrameSet), sendBuf \in Nat, wireOut \in Seq(WireSet), Len(pendq) <= 1,
         NEW F \in Seq(FrameSet), NEW cut \in 0..Len(F)
  PROVE  FillAt(F, cut, Coalesced(F, cut))
<1>1. PICK n \in Nat : n = Len(F)
  OBVIOUS
<1>2. cut \in Nat /\ cut <= n
  BY <1>1
<1>3. PICK g : Fills(F, cut, g)
  BY CoalescedAre
<1> DEFINE K == {i \in 0..cut : ~FillAt(F, i, g[i])}
<1>4. SUFFICES K = {}
  <2>1. cut \in 0..cut /\ Coalesced(F, cut) = g[cut]
    BY <1>2, <1>3 DEF Fills
  <2> QED
    BY <2>1
<1>5. SUFFICES ASSUME K # {} PROVE FALSE
  OBVIOUS
<1>6. PICK k \in K : \A l \in K : k <= l
  <2>1. K \in SUBSET Nat
    OBVIOUS
  <2> HIDE DEF K
  <2> QED
    BY <1>5, <2>1, LeastExists
<1>7. k \in 0..cut /\ ~FillAt(F, k, g[k])
  OBVIOUS
<1>8. k # 0
  <2>1. PICK s : s = g[0] /\ s = Opened
    BY <1>3 DEF Fills
  <2>2. /\ s \in Coalesces(Silent) /\ s.queue = pendq /\ s.held = sendBuf /\ s.wire = wireOut
        /\ s.buf = <<>> /\ s.taken = {}
    BY <2>1, OpenedIs
  <2>3. Len(s.buf) = 0 /\ \A e \in 1..0 : FALSE
    BY <2>2
  <2>4. FillAt(F, 0, s)
    BY <2>2, <2>3 DEF FillAt
  <2> QED
    BY <1>7, <2>1, <2>4
<1>9. PICK i \in Nat : k = i + 1 /\ k \in 1..cut /\ k - 1 = i /\ i \in 0..cut /\ i < n
  BY <1>2, <1>7, <1>8
<1>10. i \notin K
  BY <1>6, <1>9
<1>11. PICK a : a = g[i] /\ FillAt(F, i, a)
  BY <1>9, <1>10
<1>12. g[k] = Coalesce(a, F[i + 1])
  BY <1>3, <1>9, <1>11 DEF Fills
<1>13. FillAt(F, i + 1, g[k])
  BY <1>1, <1>9, <1>11, <1>12, FillNext
<1> QED
  BY <1>7, <1>9, <1>13

(* The numbers of the frames a batch delivers.                             *)
Picks(buf, ids, g) ==
  /\ g \in [0..Len(buf) -> Seq(Nat)] /\ g[0] = <<>>
  /\ \A i \in 1..Len(buf) : g[i] = (IF buf[i].id \in ids THEN Append(g[i - 1], buf[i].id) ELSE g[i - 1])
  /\ IdsAmong(buf, ids) = g[Len(buf)]

LEMMA AmongAre ==
  ASSUME NEW buf \in Seq(FrameSet), NEW ids
  PROVE  \E g : Picks(buf, ids, g)
<1>1. PICK n \in Nat : n = Len(buf)
  OBVIOUS
<1>2. PICK base \in Seq(Nat) : base = <<>>
  <2>1. <<>> \in Seq(Nat)
    OBVIOUS
  <2> QED
    BY <2>1
<1>3. PICK next : next = [x \in (Seq(Nat)) \X (1..n) |-> (IF buf[x[2]].id \in ids THEN Append(x[1], buf[x[2]].id) ELSE x[1])]
  OBVIOUS
<1>4. next \in [(Seq(Nat)) \X (1..n) -> Seq(Nat)]
  <2>1. ASSUME NEW x \in (Seq(Nat)) \X (1..n) PROVE (IF buf[x[2]].id \in ids THEN Append(x[1], buf[x[2]].id) ELSE x[1]) \in Seq(Nat)
    <3>1. PICK y \in Seq(Nat), i \in 1..n : x[1] = y /\ x[2] = i
      OBVIOUS
    <3>2. (IF buf[i].id \in ids THEN Append(y, buf[i].id) ELSE y) \in Seq(Nat)
      <4>1. i \in 1..Len(buf)
        BY <1>1
      <4>2. buf[i].id \in Nat
        BY <4>1, FrameIs
      <4> QED
        BY <4>2
    <3> QED
      BY <3>1, <3>2
  <2> QED
    BY <1>3, <2>1
<1>5. PICK g : Unrolled(Seq(Nat), n, base, next, g)
  BY <1>4, Unrolls
<1>6. /\ g \in [0..n -> Seq(Nat)] /\ g[0] = base
      /\ \A i \in 1..n : g[i] = (IF buf[i].id \in ids THEN Append(g[i - 1], buf[i].id) ELSE g[i - 1])
  <2>1. g \in [0..n -> Seq(Nat)] /\ g[0] = base /\ \A i \in 1..n : g[i] = next[<<g[i - 1], i>>]
    BY <1>5 DEF Unrolled
  <2>2. ASSUME NEW i \in 1..n PROVE g[i] = (IF buf[i].id \in ids THEN Append(g[i - 1], buf[i].id) ELSE g[i - 1])
    <3>1. i - 1 \in 0..n
      OBVIOUS
    <3>2. g[i - 1] \in Seq(Nat)
      BY <2>1, <3>1
    <3>3. <<g[i - 1], i>> \in (Seq(Nat)) \X (1..n)
      BY <3>2
    <3> QED
      BY <1>3, <2>1, <3>3
  <2> QED
    BY <2>1, <2>2
<1> DEFINE D(f) == f = [i \in 0..n |-> IF i = 0 THEN base ELSE (IF buf[i].id \in ids THEN Append(f[i - 1], buf[i].id) ELSE f[i - 1])]
<1>7. D(g)
  <2>1. \A i \in 0..n : i # 0 => i \in 1..n
    OBVIOUS
  <2>2. \A i \in 0..n : g[i] = IF i = 0 THEN base ELSE (IF buf[i].id \in ids THEN Append(g[i - 1], buf[i].id) ELSE g[i - 1])
    BY <1>6, <2>1
  <2> QED
    BY <1>6, <2>2
<1>8. PICK f : f = CHOOSE x : D(x)
  OBVIOUS
<1>9. D(f)
  BY <1>7, <1>8
<1>10. IdsAmong(buf, ids) = f[n]
  BY <1>1, <1>2, <1>8 DEF IdsAmong
<1>11. f[n] = g[n]
  <2> DEFINE K == {i \in 0..n : f[i] # g[i]}
  <2>1. SUFFICES ASSUME K # {} PROVE FALSE
    OBVIOUS
  <2>2. PICK m \in K : \A k \in K : m <= k
    <3>1. K \in SUBSET Nat
      OBVIOUS
    <3> HIDE DEF K
    <3> QED
      BY <2>1, <3>1, LeastExists
  <2>3. m \in 0..n /\ f[m] # g[m]
    OBVIOUS
  <2>4. m # 0
    BY <1>6, <1>9, <2>3
  <2>5. m \in 1..n /\ m - 1 \in 0..n /\ m - 1 \notin K
    BY <2>2, <2>3, <2>4
  <2>6. f[m - 1] = g[m - 1]
    BY <2>5
  <2>7. f[m] = (IF buf[m].id \in ids THEN Append(f[m - 1], buf[m].id) ELSE f[m - 1])
    BY <1>9, <2>3, <2>4
  <2> QED
    BY <1>6, <2>3, <2>5, <2>6, <2>7
<1> QED
  BY <1>1, <1>2, <1>6, <1>10, <1>11 DEF Picks

PickAt(buf, ids, i, u) ==
  /\ u \in Seq(Nat)
  /\ \A x \in 1..Len(u) : \E k \in 1..i : u[x] = buf[k].id
  /\ \A k \in 1..i : buf[k].id \in ids => \E x \in 1..Len(u) : u[x] = buf[k].id
  /\ \A x, y \in 1..Len(u) : x < y => u[x] <= u[y]

LEMMA PickNext ==
  ASSUME NEW buf \in Seq(FrameSet), Rises(buf), NEW ids, NEW i \in Nat, i < Len(buf), NEW u, PickAt(buf, ids, i, u),
         NEW v, v = IF buf[i + 1].id \in ids THEN Append(u, buf[i + 1].id) ELSE u
  PROVE  PickAt(buf, ids, i + 1, v)
<1>0. PICK n \in Nat : n = Len(buf)
  OBVIOUS
<1>9. i < n
  BY <1>0
<1>1. n = Len(buf) /\ i + 1 \in 1..n /\ \A k \in 1..i : k \in 1..n /\ k \in 1..(i + 1) /\ k < i + 1
  BY <1>0, <1>9
<1>2. \A k \in 1..n : buf[k].id \in Nat
  BY <1>1, FrameIs
<1>3. PICK b \in Nat : b = buf[i + 1].id
  BY <1>1, <1>2
<1>4. PICK l \in Nat : l = Len(u) /\ u \in Seq(Nat)
  BY DEF PickAt
<1>5. \A x \in 1..l : u[x] \in Nat /\ u[x] <= b /\ \E k \in 1..(i + 1) : u[x] = buf[k].id
  <2>1. ASSUME NEW x \in 1..l PROVE u[x] \in Nat /\ u[x] <= b /\ \E k \in 1..(i + 1) : u[x] = buf[k].id
    <3>1. PICK k \in 1..i : u[x] = buf[k].id
      BY <1>4 DEF PickAt
    <3>2. buf[k].id < buf[i + 1].id
      BY <1>1 DEF Rises
    <3> QED
      BY <1>1, <1>2, <1>3, <3>1, <3>2
  <2> QED
    BY <2>1
<1>6. \A k \in 1..(i + 1) : k \in 1..i \/ k = i + 1
  OBVIOUS
<1>7. CASE b \notin ids
  <2>1. v = u
    BY <1>3, <1>7
  <2>2. \A k \in 1..(i + 1) : buf[k].id \in ids => \E x \in 1..Len(u) : u[x] = buf[k].id
    BY <1>3, <1>6, <1>7 DEF PickAt
  <2>3. \A x, y \in 1..Len(u) : x < y => u[x] <= u[y]
    BY DEF PickAt
  <2>4. u \in Seq(Nat) /\ \A x \in 1..Len(u) : \E k \in 1..(i + 1) : u[x] = buf[k].id
    BY <1>4, <1>5
  <2>5. PickAt(buf, ids, i + 1, u)
    BY <2>2, <2>3, <2>4 DEF PickAt
  <2> QED
    BY <2>1, <2>5
<1>8. CASE b \in ids
  <2>1. v = Append(u, b)
    BY <1>3, <1>8
  <2>2. v \in Seq(Nat) /\ Len(v) = l + 1 /\ v[l + 1] = b /\ \A x \in 1..l : v[x] = u[x]
    <3>1. v \in Seq(Nat) /\ Len(v) = Len(u) + 1 /\ v[Len(u) + 1] = b /\ \A x \in 1..Len(u) : v[x] = u[x]
      BY <1>4, <2>1, AppendProperties
    <3> QED
      BY <1>4, <3>1
  <2>3. \A x \in 1..(l + 1) : x \in 1..l \/ x = l + 1
    OBVIOUS
  <2>4. \A x \in 1..(l + 1) : \E k \in 1..(i + 1) : v[x] = buf[k].id
    <3>1. i + 1 \in 1..(i + 1)
      OBVIOUS
    <3> QED
      BY <1>3, <1>5, <2>2, <2>3, <3>1
  <2>5. ASSUME NEW k \in 1..(i + 1), buf[k].id \in ids PROVE \E x \in 1..(l + 1) : v[x] = buf[k].id
    <3>1. CASE k = i + 1
      <4>1. l + 1 \in 1..(l + 1)
        OBVIOUS
      <4> QED
        BY <1>3, <2>2, <3>1, <4>1
    <3>2. CASE k \in 1..i
      <4>1. PICK x \in 1..l : u[x] = buf[k].id
        BY <1>4, <2>5, <3>2 DEF PickAt
      <4>2. x \in 1..(l + 1)
        OBVIOUS
      <4> QED
        BY <2>2, <4>1, <4>2
    <3> QED
      BY <1>6, <3>1, <3>2
  <2>6. ASSUME NEW x \in 1..(l + 1), NEW y \in 1..(l + 1), x < y PROVE v[x] <= v[y]
    <3>1. x \in 1..l
      BY <2>6
    <3>2. CASE y = l + 1
      BY <1>5, <2>2, <3>1, <3>2
    <3>3. CASE y \in 1..l
      BY <1>4, <2>2, <2>6, <3>1, <3>3 DEF PickAt
    <3> QED
      BY <2>3, <3>2, <3>3
  <2> QED
    BY <2>2, <2>4, <2>5, <2>6 DEF PickAt
<1> QED
  BY <1>7, <1>8

LEMMA AmongIs ==
  ASSUME NEW buf \in Seq(FrameSet), Rises(buf), NEW ids
  PROVE  PickAt(buf, ids, Len(buf), IdsAmong(buf, ids))
<1>1. PICK n \in Nat : n = Len(buf)
  OBVIOUS
<1>3. PICK g : Picks(buf, ids, g)
  BY AmongAre
<1> DEFINE K == {i \in 0..n : ~PickAt(buf, ids, i, g[i])}
<1>4. SUFFICES K = {}
  <2>1. n \in 0..n /\ IdsAmong(buf, ids) = g[n]
    BY <1>1, <1>3 DEF Picks
  <2> QED
    BY <1>1, <2>1
<1>5. SUFFICES ASSUME K # {} PROVE FALSE
  OBVIOUS
<1>6. PICK k \in K : \A l \in K : k <= l
  <2>1. K \in SUBSET Nat
    OBVIOUS
  <2> HIDE DEF K
  <2> QED
    BY <1>5, <2>1, LeastExists
<1>7. k \in 0..n /\ ~PickAt(buf, ids, k, g[k])
  OBVIOUS
<1>8. k # 0
  <2>1. PICK s : s = g[0] /\ s = <<>>
    BY <1>3 DEF Picks
  <2>3. s \in Seq(Nat) /\ Len(s) = 0 /\ \A e \in 1..0 : FALSE
    BY <2>1
  <2>4. PickAt(buf, ids, 0, s)
    BY <2>3 DEF PickAt
  <2> QED
    BY <1>7, <2>1, <2>4
<1>9. PICK i \in Nat : k = i + 1 /\ k \in 1..n /\ k - 1 = i /\ i \in 0..n /\ i < n
  BY <1>7, <1>8
<1>10. i \notin K
  BY <1>6, <1>9
<1>11. PICK a : a = g[i] /\ PickAt(buf, ids, i, a)
  BY <1>9, <1>10
<1>12. g[k] = IF buf[i + 1].id \in ids THEN Append(a, buf[i + 1].id) ELSE a
  BY <1>1, <1>3, <1>9, <1>11 DEF Picks
<1>13. PickAt(buf, ids, i + 1, g[k])
  BY <1>1, <1>9, <1>11, <1>12, PickNext
<1> QED
  BY <1>7, <1>9, <1>13

(* Where the records of a batch end.                                       *)
LEMMA EndsAre ==
  ASSUME NEW buf \in Seq(FrameSet)
  PROVE  Ends(buf)[0] = 0 /\ \A i \in 1..Len(buf) : Ends(buf)[i] = Ends(buf)[i - 1] + buf[i].size
<1>1. PICK n \in Nat : n = Len(buf)
  OBVIOUS
<1>2. \A i \in 1..n : buf[i].size \in Nat
  BY <1>1, FrameIs
<1>3. PICK next : next = [x \in Nat \X (1..n) |-> x[1] + buf[x[2]].size]
  OBVIOUS
<1>4. next \in [Nat \X (1..n) -> Nat]
  <2>1. ASSUME NEW x \in Nat \X (1..n) PROVE x[1] + buf[x[2]].size \in Nat
    <3>1. x[1] \in Nat /\ buf[x[2]].size \in Nat
      BY <1>2
    <3> QED
      BY <3>1
  <2> QED
    BY <1>3, <2>1
<1>5. PICK g : Unrolled(Nat, n, 0, next, g)
  BY <1>4, Unrolls
<1>6. g \in [0..n -> Nat] /\ g[0] = 0 /\ \A i \in 1..n : g[i] = g[i - 1] + buf[i].size
  <2>1. g \in [0..n -> Nat] /\ g[0] = 0 /\ \A i \in 1..n : g[i] = next[<<g[i - 1], i>>]
    BY <1>5 DEF Unrolled
  <2>2. ASSUME NEW i \in 1..n PROVE g[i] = g[i - 1] + buf[i].size
    <3>1. i - 1 \in 0..n
      OBVIOUS
    <3>2. g[i - 1] \in Nat
      BY <2>1, <3>1
    <3>3. <<g[i - 1], i>> \in Nat \X (1..n)
      BY <3>2
    <3> QED
      BY <1>3, <2>1, <3>3
  <2> QED
    BY <2>1, <2>2
<1> DEFINE D(f) == f = [i \in 0..n |-> IF i = 0 THEN 0 ELSE f[i - 1] + buf[i].size]
<1>7. D(g)
  <2>1. \A i \in 0..n : i # 0 => i \in 1..n
    OBVIOUS
  <2>2. \A i \in 0..n : g[i] = IF i = 0 THEN 0 ELSE g[i - 1] + buf[i].size
    BY <1>6, <2>1
  <2> QED
    BY <1>6, <2>2
<1>8. PICK f : f = CHOOSE x : D(x)
  OBVIOUS
<1>9. D(f)
  BY <1>7, <1>8
<1>10. Ends(buf) = f
  BY <1>1, <1>8 DEF Ends
<1>11. 0 \in 0..n /\ \A i \in 1..n : i \in 0..n /\ i # 0
  OBVIOUS
<1> QED
  BY <1>1, <1>9, <1>10, <1>11

(* All records but the last have the size of the first.                    *)
Uniform(buf, n, size) ==
  /\ n = Len(buf) /\ n > 0 /\ buf[1].size = size /\ size \in Nat
  /\ \A i \in 1..n : (i < n => buf[i].size = size) /\ buf[i].size <= size

LEMMA UniformEnds ==
  ASSUME NEW buf \in Seq(FrameSet), NEW n \in Nat, NEW size \in Nat, Uniform(buf, n, size)
  PROVE  /\ \A i \in 0..n : i < n => Ends(buf)[i] = i * size
         /\ Ends(buf)[n] = (n - 1) * size + buf[n].size
<1>1. n = Len(buf) /\ n > 0 /\ \A i \in 1..n : (i < n => buf[i].size = size)
  BY DEF Uniform
<1>2. PICK e : e = Ends(buf)
  OBVIOUS
<1>3. e[0] = 0 /\ \A i \in 1..n : e[i] = e[i - 1] + buf[i].size
  BY <1>1, <1>2, EndsAre
<1> DEFINE K == {i \in 0..(n - 1) : e[i] # i * size}
<1>4. K = {}
  <2>1. SUFFICES ASSUME K # {} PROVE FALSE
    OBVIOUS
  <2>2. PICK k \in K : \A l \in K : k <= l
    <3>1. K \in SUBSET Nat
      OBVIOUS
    <3> HIDE DEF K
    <3> QED
      BY <2>1, <3>1, LeastExists
  <2>3. k \in 0..(n - 1) /\ e[k] # k * size
    OBVIOUS
  <2>4. k # 0
    <3>1. 0 * size = 0
      OBVIOUS
    <3> QED
      BY <1>3, <2>3, <3>1
  <2>5. PICK i \in Nat : k = i + 1 /\ k \in 1..n /\ k - 1 = i /\ i \in 0..(n - 1) /\ k < n
    BY <2>3, <2>4
  <2>6. i \notin K
    BY <2>2, <2>5
  <2>7. e[i] = i * size /\ buf[k].size = size /\ e[k] = e[i] + buf[k].size
    BY <1>1, <1>3, <2>5, <2>6
  <2>8. k * size = i * size + size
    BY <2>5, ProductNext
  <2> QED
    BY <2>3, <2>7, <2>8
<1>5. \A i \in 0..n : i < n => i \in 0..(n - 1)
  OBVIOUS
<1>6. \A i \in 0..n : i < n => e[i] = i * size
  BY <1>4, <1>5
<1>7. n \in 1..n /\ n - 1 \in 0..n /\ n - 1 < n
  BY <1>1
<1>8. e[n] = (n - 1) * size + buf[n].size
  BY <1>3, <1>6, <1>7
<1> QED
  BY <1>2, <1>6, <1>8

LEMMA UniformSliced ==
  ASSUME NEW buf \in Seq(FrameSet), NEW n \in Nat, NEW size \in Nat, Uniform(buf, n, size)
  PROVE  Slices(buf, n) = Bounds(buf)
<1>1. n = Len(buf) /\ n > 0 /\ buf[1].size = size
  BY DEF Uniform
<1>2. PICK e : e = Ends(buf)
  OBVIOUS
<1>3. (\A i \in 0..n : i < n => e[i] = i * size) /\ e[n] = (n - 1) * size + buf[n].size
  BY <1>2, UniformEnds
<1>4. n \in 1..n /\ buf[n].size \in Nat /\ buf[n].size > 0 /\ buf[n].size <= size
  <2>1. n \in 1..n
    BY <1>1
  <2> QED
    BY <1>1, <2>1, FrameIs DEF Uniform
<1>5. PICK a \in Nat, b \in Nat, t \in Nat : a = (n - 1) * size /\ b = buf[n].size /\ t = e[n] /\ t = a + b /\ b > 0 /\ b <= size
  <2>1. (n - 1) * size \in Nat
    <3>1. n - 1 \in Nat
      BY <1>1
    <3> QED
      BY <3>1, ProductNext
  <2>2. (n - 1) * size + buf[n].size \in Nat
    BY <1>4, <2>1
  <2> QED
    BY <1>3, <1>4, <2>1, <2>2
<1>6. Slices(buf, n) = [i \in 1..n |-> <<(i - 1) * size, Least(i * size, t)>>]
  BY <1>1, <1>2, <1>5 DEF Slices
<1>7. DOMAIN buf = 1..n
  BY <1>1
<1>8. Bounds(buf) = [i \in 1..n |-> <<e[i - 1], e[i]>>]
  BY <1>2, <1>7 DEF Bounds
<1>9. ASSUME NEW i \in 1..n PROVE (i - 1) * size = e[i - 1] /\ Least(i * size, t) = e[i]
  <2>1. PICK j \in Nat : i = j + 1 /\ j = i - 1 /\ j \in 0..n /\ j < n /\ i \in 0..n /\ i <= n /\ i \in Nat
    OBVIOUS
  <2>2. e[i - 1] = (i - 1) * size
    BY <1>3, <2>1
  <2>3. CASE i < n
    <3>1. e[i] = i * size
      BY <1>3, <2>1, <2>3
    <3>2. PICK k \in Nat : k = n - 1 /\ i <= k
      BY <1>1, <2>1, <2>3
    <3>3. i * size \in Nat /\ i * size <= a
      BY <1>5, <2>1, <3>2, ProductGrows
    <3>4. i * size < t
      BY <1>5, <3>3
    <3> QED
      BY <2>2, <3>1, <3>4 DEF Least
  <2>4. CASE i = n
    <3>1. j * size = a
      BY <1>5, <2>1, <2>4
    <3>2. i * size = a + size /\ i * size \in Nat
      BY <2>1, <3>1, ProductNext
    <3>3. ~(i * size < t)
      <4>1. PICK z \in Nat : z = i * size /\ z = a + size
        BY <3>2
      <4>2. t <= a + size
        BY <1>5
      <4> QED
        BY <4>1, <4>2
    <3> QED
      BY <1>5, <2>2, <2>4, <3>3 DEF Least
  <2> QED
    BY <2>1, <2>3, <2>4
<1> QED
  BY <1>6, <1>8, <1>9

(* A batch that opened on an empty queue.                                  *)
TilesWell(s) ==
  /\ s[1].from = 0 /\ s[1].seq = 0
  /\ \A i \in 1..(Len(s) - 1) :
       /\ s[i + 1].from = s[i].to
       /\ s[i + 1].seq = (s[i].seq + (s[i].to - s[i].from)) % SeqSpace
       /\ ~s[i].flags
  /\ s[Len(s)].flags
BatchWell(b) == (b # NoBatch /\ ~b.stale) => b.slices = Bounds(b.buf) /\ TilesWell(b.segs)

LEMMA TilesAre ==
  ASSUME NEW payload \in Nat, NEW g \in Nat, g > 0, NEW n, n = calc_gso_segs(payload, g), n > 0
  PROVE  TilesWell(SegmentsOf(payload, g))
<1>1. PICK s : s = SegmentsOf(payload, g)
  OBVIOUS
<1>2. Segmented(s, payload, g, n)
  BY <1>1, SegmentsAre
<1>3. n \in Nat /\ Len(s) = n /\ \A i \in 1..n : SegmentWell(s[i], payload, g, n, i)
  BY <1>2 DEF Segmented
<1>4. SeqSpace \in Nat /\ SeqSpace > 0
  BY SendBounds
<1>5. s[1].from = 0 /\ s[1].seq = 0
  <2>1. 1 \in 1..n /\ (1 - 1) * g = 0 /\ g * (1 - 1) = 0
    BY <1>3
  <2>2. SegmentWell(s[1], payload, g, n, 1)
    BY <1>3, <2>1
  <2>3. s[1].from = 0 /\ s[1].seq = 0 % SeqSpace
    BY <2>1, <2>2 DEF SegmentWell
  <2>4. 0 % SeqSpace = 0
    BY <1>4
  <2> QED
    BY <2>3, <2>4
<1>6. ASSUME NEW i \in 1..(n - 1)
      PROVE  /\ s[i + 1].from = s[i].to
             /\ s[i + 1].seq = (s[i].seq + (s[i].to - s[i].from)) % SeqSpace
             /\ ~s[i].flags
  <2>1. PICK j \in Nat : i = j + 1 /\ j = i - 1 /\ i \in Nat /\ i \in 1..n /\ i < n /\ i + 1 \in 1..n /\ (i + 1) - 1 = i
    BY <1>3
  <2>2. SegmentWell(s[i], payload, g, n, i) /\ SegmentWell(s[i + 1], payload, g, n, i + 1)
    BY <1>3, <2>1
  <2>3. /\ s[i].to = i * g /\ s[i].to < payload /\ s[i].to - s[i].from = g /\ s[i].to \in Nat
        /\ s[i].seq = (g * j) % SeqSpace /\ (s[i].flags <=> s[i].to = payload)
    BY <2>1, <2>2 DEF SegmentWell
  <2>4. s[i + 1].from = i * g /\ s[i + 1].seq = (g * i) % SeqSpace
    BY <2>1, <2>2 DEF SegmentWell
  <2>5. PICK a \in Nat : a = g * j /\ g * i = a + g
    <3>1. g * j = j * g /\ g * i = i * g /\ j * g \in Nat
      BY <2>1
    <3>2. i * g = j * g + g
      BY <2>1, ProductNext
    <3> QED
      BY <3>1, <3>2
  <2>6. ((a % SeqSpace) + g) % SeqSpace = (a + g) % SeqSpace
    BY <1>4, RemainderAdds
  <2>7. ~s[i].flags
    BY <2>3
  <2> QED
    BY <2>3, <2>4, <2>5, <2>6, <2>7
<1>7. s[n].flags
  <2>1. n \in 1..n
    BY <1>3
  <2> QED
    BY <1>3, <2>1 DEF SegmentWell
<1> QED
  BY <1>1, <1>3, <1>5, <1>6, <1>7 DEF TilesWell

(* A batch leaves the rest of the send path as a call does, whatever the   *)
(* receiver can decrypt of it.                                             *)
LEMMA SlotIs ==
  ASSUME Setting, ~conn.stream, pendq \in Seq(FrameSet), NEW m \in Nat, QueueNumbered(pendq, m), NEW F \in Seq(FrameSet),
         \A k \in 1..Len(F) : F[k].id = m + k, NEW k \in 1..Len(F)
  PROVE  /\ Slot(F, k) \in FrameSet /\ Slot(F, k).id \in 1..(m + k) /\ (k # 1 => Slot(F, k).id = m + k)
         /\ Slot(F, k).id = m + k \/ (~conn.lane /\ Len(pendq) # 0 /\ Slot(F, k) = pendq[1])
<1>1. PICK n \in Nat, l \in Nat : n = Len(F) /\ l = Len(pendq) /\ k \in 1..n
  OBVIOUS
<1>2. F[k] \in FrameSet /\ F[k].id = m + k /\ m + k \in 1..(m + k)
  BY FrameIs
<1>3. CASE k = 1 /\ ~conn.lane /\ l # 0
  <2>1. Slot(F, k) = pendq[1]
    BY <1>1, <1>3 DEF Slot
  <2>2. 1 \in 1..l
    BY <1>3
  <2>3. pendq[1] \in FrameSet /\ pendq[1].id \in 1..m
    BY <1>1, <2>2, FrameIs DEF QueueNumbered
  <2>4. pendq[1].id \in 1..(m + k)
    BY <2>3
  <2> QED
    BY <1>1, <1>3, <2>1, <2>3, <2>4
<1>4. CASE ~(k = 1 /\ ~conn.lane /\ l # 0)
  <2>1. Slot(F, k) = F[k]
    BY <1>1, <1>4 DEF Slot
  <2> QED
    BY <1>2, <2>1
<1> QED
  BY <1>3, <1>4

LEMMA BatchKeeps ==
  ASSUME Setting, ~conn.stream, NEW m \in Nat, NEW A, NEW D, Sending(pendq, sendBuf, wireOut, m, A, D),
         NEW F \in Seq(FrameSet), \A k \in 1..Len(F) : F[k].id = m + k, NEW cut \in 0..Len(F), NEW whole,
         NEW acc, acc = Coalesced(F, cut), NEW v, v = wireOut \o IdsAmong(acc.buf, whole)
  PROVE  Sending(acc.queue, sendBuf, v, m + Len(F), A \cup acc.taken, D \cup (Ids(acc.buf) \ whole))
<1>1. /\ pendq \in Seq(FrameSet) /\ sendBuf \in Nat /\ wireOut \in Seq(WireSet) /\ QueueNumbered(pendq, m) /\ Rises(pendq)
      /\ Within(wireOut, m) /\ (conn.lane \/ (WireRises(wireOut) /\ Below(wireOut, pendq, 0)))
      /\ (sendBuf # 0 => conn.stream) /\ Accounted(pendq, wireOut, A, D) /\ A \subseteq 1..m /\ D \subseteq 1..m
  BY DEF Sending
<1>2. Limit = 1 /\ Len(pendq) <= 1 /\ conn.stream \in BOOLEAN
  BY SendSettingIs DEF Sending
<1>3. PICK n \in Nat, t \in Nat : n = Len(F) /\ t = m + n /\ m <= t /\ cut \in 0..n /\ cut \in Nat
  OBVIOUS
<1>4. FillAt(F, cut, acc)
  BY <1>1, <1>2, CoalescedIs
<1>5. PICK buf \in Seq(FrameSet) : buf = acc.buf /\ Len(buf) = cut
  BY <1>4, AccIs DEF FillAt, Coalesces
<1>6. ASSUME NEW k \in 1..cut
      PROVE  /\ buf[k].id \in Nat /\ buf[k].id \in 1..(m + k) /\ buf[k].id \in 1..t /\ (k # 1 => buf[k].id = m + k)
             /\ buf[k].id = m + k \/ (~conn.lane /\ Len(pendq) # 0 /\ buf[k] = pendq[1])
  <2>1. k \in 1..n /\ buf[k] = Slot(F, k)
    BY <1>3, <1>4, <1>5 DEF FillAt
  <2>2. /\ Slot(F, k).id \in 1..(m + k) /\ (k # 1 => Slot(F, k).id = m + k)
        /\ Slot(F, k).id = m + k \/ (~conn.lane /\ Len(pendq) # 0 /\ Slot(F, k) = pendq[1])
    BY <1>1, <1>3, <2>1, SlotIs
  <2>3. PICK x : x = buf[k].id
    OBVIOUS
  <2>4. x \in 1..(m + k)
    BY <2>1, <2>2, <2>3
  <2>5. m + k <= t
    BY <1>3, <2>1
  <2>6. x \in Nat /\ x \in 1..t
    BY <2>4, <2>5
  <2> QED
    BY <2>1, <2>2, <2>3, <2>6
<1>7. Rises(buf)
  <2>1. ASSUME NEW i \in 1..cut, NEW j \in 1..cut, i < j PROVE buf[i].id < buf[j].id
    <3>1. j # 1 /\ m + i < m + j
      BY <2>1
    <3>2. buf[i].id \in 1..(m + i) /\ buf[j].id = m + j
      BY <1>6, <3>1
    <3> QED
      BY <3>1, <3>2
  <2> QED
    BY <1>5, <2>1 DEF Rises
<1>8. PICK u : u = IdsAmong(buf, whole) /\ PickAt(buf, whole, cut, u)
  BY <1>5, <1>7, AmongIs
<1>9. PICK x \in Nat, y \in Nat : x = Len(wireOut) /\ y = Len(u)
  BY <1>1, <1>8 DEF PickAt
<1>10. WireSet = Nat /\ \A e : UnitId(e) = e
  BY DEF WireSet, UnitId
<1>11. u \in Seq(WireSet) /\ v = wireOut \o u
  BY <1>5, <1>8, <1>10 DEF PickAt
<1>12. v \in Seq(WireSet) /\ Len(v) = x + y /\ \A i \in 1..(x + y) : v[i] = IF i <= x THEN wireOut[i] ELSE u[i - x]
  BY <1>1, <1>9, <1>11, ConcatProperties
<1>13. \A i \in 1..(x + y) : \/ i <= x /\ i \in 1..x /\ v[i] = wireOut[i]
                             \/ i > x /\ i - x \in 1..y /\ v[i] = u[i - x]
  <2>1. ASSUME NEW i \in 1..(x + y)
        PROVE  (i <= x /\ i \in 1..x /\ v[i] = wireOut[i]) \/ (i > x /\ i - x \in 1..y /\ v[i] = u[i - x])
    <3>1. (i <= x /\ i \in 1..x) \/ (i > x /\ i - x \in 1..y /\ ~(i <= x))
      OBVIOUS
    <3> QED
      BY <1>12, <3>1
  <2> QED
    BY <2>1
<1>27. (\A i \in 1..x : v[i] = wireOut[i]) /\ \A i \in 1..y : v[x + i] = u[i]
  <2>1. \A i \in 1..x : i \in 1..(x + y) /\ i <= x
    OBVIOUS
  <2>2. \A i \in 1..y : x + i \in 1..(x + y) /\ ~(x + i <= x) /\ (x + i) - x = i
    OBVIOUS
  <2> QED
    BY <1>12, <2>1, <2>2
<1>14. \A i \in 1..x : wireOut[i] \in Nat /\ wireOut[i] <= m /\ wireOut[i] <= t
  <2>1. \A i \in 1..x : wireOut[i] \in Nat /\ wireOut[i] <= m
    BY <1>1, <1>9, <1>10 DEF Within
  <2> QED
    BY <1>3, <2>1
<1>15. ASSUME NEW i \in 1..y PROVE \E k \in 1..cut : u[i] = buf[k].id
  BY <1>8, <1>9 DEF PickAt
<1>16. \A i \in 1..y : u[i] \in Nat /\ u[i] <= t
  <2>1. ASSUME NEW i \in 1..y PROVE u[i] \in Nat /\ u[i] <= t
    <3>1. PICK k \in 1..cut : u[i] = buf[k].id
      BY <1>15
    <3>2. u[i] \in 1..t
      BY <1>6, <3>1
    <3> QED
      BY <3>2
  <2> QED
    BY <2>1
<1>17. Within(v, t)
  <2>1. \A i \in 1..(x + y) : v[i] <= t
    BY <1>13, <1>14, <1>16
  <2> QED
    BY <1>10, <1>12, <2>1 DEF Within
<1>18. Prefix(wireOut, v)
  <2>1. x <= x + y /\ \A i \in 1..x : i \in 1..(x + y) /\ i <= x
    OBVIOUS
  <2> QED
    BY <1>9, <1>12, <2>1 DEF Prefix
<1>19. ASSUME NEW k \in 1..cut, buf[k].id \in whole PROVE On(v, buf[k].id)
  <2>1. PICK i \in 1..y : u[i] = buf[k].id
    BY <1>8, <1>9, <1>19 DEF PickAt
  <2>2. x + i \in 1..(x + y) /\ ~(x + i <= x) /\ (x + i) - x = i
    OBVIOUS
  <2>3. v[x + i] = buf[k].id
    BY <1>12, <2>1, <2>2
  <2> QED
    BY <1>10, <1>12, <2>2, <2>3 DEF On
<1>20. ASSUME NEW k \in 1..cut PROVE buf[k].id \in D \cup (Ids(buf) \ whole) \/ On(v, buf[k].id)
  <2>1. buf[k].id \in Ids(buf)
    BY <1>5 DEF Ids
  <2> QED
    BY <1>19, <2>1
<1>21. /\ acc.queue \in Seq(FrameSet) /\ (conn.lane \/ cut = 0 => acc.queue = pendq)
       /\ (~conn.lane /\ cut > 0 => acc.queue = <<>>)
       /\ \A id \in acc.taken : \E k \in 1..cut : buf[k].id = id
  <2>1. acc.queue \in Seq(FrameSet)
    BY <1>4, AccIs DEF FillAt, Coalesces
  <2> QED
    BY <1>4, <1>5, <2>1 DEF FillAt
<1>22. A \cup acc.taken \subseteq 1..t /\ D \cup (Ids(buf) \ whole) \subseteq 1..t
  <2>1. 1..m \subseteq 1..t
    BY <1>3
  <2>2. acc.taken \subseteq 1..t
    <3>1. ASSUME NEW id \in acc.taken PROVE id \in 1..t
      <4>1. PICK k \in 1..cut : buf[k].id = id
        BY <1>21
      <4> QED
        BY <1>6, <4>1
    <3> QED
      BY <3>1
  <2>3. Ids(buf) \subseteq 1..t
    BY <1>5, <1>6 DEF Ids
  <2> QED
    BY <1>1, <2>1, <2>2, <2>3
<1>23. Len(acc.queue) <= Limit /\ Rises(acc.queue) /\ QueueNumbered(acc.queue, t)
  <2>1. CASE conn.lane \/ cut = 0
    <3>1. QueueNumbered(pendq, t)
      <4>1. \A k \in 1..Len(pendq) : pendq[k].id \in 1..m /\ pendq[k].id \in 1..t
        BY <1>1, <1>3 DEF QueueNumbered
      <4> QED
        BY <4>1 DEF QueueNumbered
    <3> QED
      BY <1>1, <1>2, <1>21, <2>1, <3>1
  <2>2. CASE ~(conn.lane \/ cut = 0)
    <3>1. acc.queue = <<>>
      BY <1>3, <1>21, <2>2
    <3>2. Len(acc.queue) = 0 /\ \A e \in 1..0 : FALSE
      BY <3>1
    <3> QED
      BY <1>2, <3>2 DEF Rises, QueueNumbered
  <2> QED
    BY <2>1, <2>2
<1>24. ASSUME ~conn.lane PROVE WireRises(v)
  <2>1. \A i, j \in 1..x : i < j => wireOut[i] <= wireOut[j]
    BY <1>1, <1>9, <1>10, <1>24 DEF WireRises
  <2>2. \A i, j \in 1..y : i < j => u[i] <= u[j]
    BY <1>8, <1>9 DEF PickAt
  <2>3. ASSUME NEW i \in 1..x, NEW j \in 1..y PROVE wireOut[i] <= u[j]
    <3>1. PICK k \in 1..cut : u[j] = buf[k].id
      BY <1>15
    <3>2. CASE buf[k].id = m + k
      BY <1>14, <3>1, <3>2
    <3>3. CASE Len(pendq) # 0 /\ buf[k] = pendq[1]
      <4>1. 1 \in 1..Len(pendq) /\ 1 > 0
        BY <1>1, <3>3
      <4>2. UnitId(wireOut[i]) <= pendq[1].id
        BY <1>1, <1>9, <1>24, <4>1 DEF Below
      <4> QED
        BY <1>10, <3>1, <3>3, <4>2
    <3> QED
      BY <1>6, <3>2, <3>3
  <2>4. ASSUME NEW i \in 1..(x + y), NEW j \in 1..(x + y), i < j PROVE v[i] <= v[j]
    <3>1. CASE j <= x
      <4>2. i \in 1..x /\ j \in 1..x
        BY <2>4, <3>1
      <4>1. i \in 1..x /\ j \in 1..x /\ v[i] = wireOut[i] /\ v[j] = wireOut[j]
        BY <1>27, <4>2
      <4> QED
        BY <2>1, <2>4, <4>1
    <3>2. CASE i <= x /\ ~(j <= x)
      <4>1. i \in 1..x
        BY <3>2
      <4>2. PICK b \in 1..y : j = x + b
        BY <3>2
      <4>3. v[i] = wireOut[i] /\ v[j] = u[b]
        BY <1>27, <4>1, <4>2
      <4> QED
        BY <2>3, <4>1, <4>3
    <3>3. CASE ~(i <= x)
      <4>1. PICK a \in 1..y : i = x + a
        BY <3>3
      <4>2. PICK b \in 1..y : j = x + b
        BY <2>4, <3>3
      <4>3. a < b
        BY <2>4, <4>1, <4>2
      <4>4. v[i] = u[a] /\ v[j] = u[b]
        BY <1>27, <4>1, <4>2
      <4> QED
        BY <2>2, <4>3, <4>4
    <3>4. j <= x \/ (i <= x /\ ~(j <= x)) \/ ~(i <= x)
      OBVIOUS
    <3> QED
      BY <3>1, <3>2, <3>3, <3>4
  <2>5. \A i, j \in 1..(x + y) : i < j => v[i] <= v[j]
    BY <2>4
  <2> QED
    BY <1>12, <2>5 DEF WireRises, UnitId
<1>25. ASSUME ~conn.lane PROVE Below(v, acc.queue, 0)
  <2>1. CASE cut = 0
    <3>1. y = 0
      BY <1>15, <2>1
    <3>2. \A i \in 1..Len(v) : i \in 1..x /\ v[i] = wireOut[i]
      BY <1>12, <1>13, <3>1
    <3> QED
      BY <1>1, <1>9, <1>21, <1>25, <2>1, <3>2 DEF Below
  <2>2. CASE cut # 0
    <3>1. acc.queue = <<>>
      BY <1>3, <1>21, <1>25, <2>2
    <3>2. Len(acc.queue) = 0 /\ \A e \in 1..0 : FALSE
      BY <3>1
    <3> QED
      BY <3>2 DEF Below
  <2> QED
    BY <2>1, <2>2
<1>26. Accounted(acc.queue, v, A \cup acc.taken, D \cup (Ids(buf) \ whole))
  <2>1. ASSUME NEW id \in acc.taken PROVE id \in D \cup (Ids(buf) \ whole) \/ On(v, id)
    <3>1. PICK k \in 1..cut : buf[k].id = id
      BY <1>21
    <3> QED
      BY <1>20, <3>1
  <2>2. ASSUME NEW id \in A
        PROVE  id \in D \cup (Ids(buf) \ whole) \/ (\E k \in 1..Len(acc.queue) : acc.queue[k].id = id) \/ On(v, id)
    <3>1. id \in D \/ (\E k \in 1..Len(pendq) : pendq[k].id = id) \/ On(wireOut, id)
      BY <1>1 DEF Accounted
    <3>2. CASE On(wireOut, id)
      BY <1>1, <1>12, <1>18, <3>2, OnPrefix
    <3>3. CASE \E k \in 1..Len(pendq) : pendq[k].id = id
      <4>1. CASE conn.lane \/ cut = 0
        BY <1>21, <3>3, <4>1
      <4>2. CASE ~conn.lane /\ cut # 0
        <5>1. PICK k \in 1..Len(pendq) : pendq[k].id = id
          BY <3>3
        <5>2. k = 1 /\ Len(pendq) # 0 /\ 1 \in 1..cut
          BY <1>1, <1>2, <1>3, <4>2
        <5>3. buf[1] = pendq[1]
          BY <1>4, <1>5, <4>2, <5>2 DEF FillAt, Slot
        <5> QED
          BY <1>20, <5>1, <5>2, <5>3
      <4> QED
        BY <4>1, <4>2
    <3> QED
      BY <3>1, <3>2, <3>3
  <2> QED
    BY <2>1, <2>2 DEF Accounted
<1> QED
  BY <1>1, <1>3, <1>5, <1>12, <1>17, <1>21, <1>22, <1>23, <1>24, <1>25, <1>26 DEF Sending

(* The inductive invariant of the send path.                               *)
SendInv ==
  /\ Setting /\ frameNo \in 0..MaxFrames /\ broken \in BOOLEAN /\ (broken => conn.stream)
  /\ Sending(pendq, sendBuf, wireOut, frameNo, accepted, dropped)
  /\ conn.stream /\ ~broken => StreamWell(pendq, sendBuf, wireOut)
  /\ BatchWell(batch)

LEMMA SendInitially ==
  ASSUME SendInit
  PROVE  SendInv
<1>1. /\ pendq = <<>> /\ sendBuf = 0 /\ wireOut = <<>> /\ frameNo = 0 /\ accepted = {} /\ dropped = {} /\ batch = NoBatch
      /\ broken = FALSE /\ Setting
  BY DEF SendInit, Setting
<1>2. pendq \in Seq(FrameSet) /\ wireOut \in Seq(WireSet) /\ Len(pendq) = 0 /\ Len(wireOut) = 0 /\ \A e \in 1..0 : FALSE
  BY <1>1
<1>3. Len(pendq) <= Limit /\ Rises(pendq) /\ QueueNumbered(pendq, 0) /\ Within(wireOut, 0) /\ WireRises(wireOut) /\ Below(wireOut, pendq, 0)
  <2>1. Limit \in Nat /\ Limit > 0
    BY <1>1, SendSettingIs
  <2> QED
    BY <1>2, <2>1 DEF Rises, QueueNumbered, Within, WireRises, Below
<1>4. Sending(pendq, sendBuf, wireOut, frameNo, accepted, dropped)
  BY <1>1, <1>2, <1>3 DEF Sending, Accounted
<1>5. StreamWell(pendq, sendBuf, wireOut)
  <2>1. \A e \in 1..(Len(wireOut) - 1) : FALSE
    BY <1>2
  <2>2. StreamOk(wireOut)
    BY <2>1 DEF StreamOk
  <2> QED
    BY <1>1, <1>2, <2>2 DEF StreamWell
<1>6. BatchWell(batch)
  BY <1>1 DEF BatchWell
<1>7. frameNo \in 0..MaxFrames
  BY <1>1, SendBounds
<1> QED
  BY <1>1, <1>4, <1>5, <1>6, <1>7 DEF SendInv

(* A call starts from the variables.                                       *)
CallFields(acc, q, h, w, p) ==
  /\ acc \in AccSet(p)
  /\ acc.queue = q /\ acc.held = h /\ acc.wire = w
  /\ acc.lost = {} /\ acc.taken = {} /\ ~acc.err /\ ~acc.stop /\ ~acc.open

LEMMA CallStarts ==
  ASSUME NEW q \in Seq(FrameSet), NEW h \in Nat, NEW w \in Seq(WireSet), NEW room \in Nat, NEW p, NEW fails \in BOOLEAN, NEW acc,
         acc = [queue |-> q, rest |-> <<>>, held |-> h, wire |-> w, room |-> room,
                fails |-> fails, plugin |-> p, open |-> FALSE, buf |-> <<>>, stop |-> FALSE,
                err |-> FALSE, lost |-> {}, taken |-> {}]
  PROVE  CallFields(acc, q, h, w, p)
<1>1. acc \in AccSet(p)
  <2>1. CASE fails = TRUE
    <3>1. acc = [queue |-> q, rest |-> <<>>, held |-> h, wire |-> w, room |-> room,
                 fails |-> TRUE, plugin |-> p, open |-> FALSE, buf |-> <<>>, stop |-> FALSE,
                 err |-> FALSE, lost |-> {}, taken |-> {}]
      BY <2>1
    <3> QED
      BY <3>1 DEF AccSet
  <2>2. CASE fails = FALSE
    <3>1. acc = [queue |-> q, rest |-> <<>>, held |-> h, wire |-> w, room |-> room,
                 fails |-> FALSE, plugin |-> p, open |-> FALSE, buf |-> <<>>, stop |-> FALSE,
                 err |-> FALSE, lost |-> {}, taken |-> {}]
      BY <2>2
    <3> QED
      BY <3>1 DEF AccSet
  <2> QED
    BY <2>1, <2>2
<1>2. acc.queue = q /\ acc.held = h /\ acc.wire = w
  OBVIOUS
<1>3. acc.lost = {} /\ acc.taken = {} /\ ~acc.err /\ ~acc.stop /\ ~acc.open
  OBVIOUS
<1> QED
  BY <1>1, <1>2, <1>3 DEF CallFields

(* The state of a call is well formed, and so is what it returns.          *)
LEMMA CallIs ==
  ASSUME SendInv, ~broken, NEW room \in Nat, NEW fails \in BOOLEAN, NEW p, NEW acc, acc = Call(room, fails, p, FALSE)
  PROVE  /\ SegWell(p, acc, frameNo, accepted, dropped) /\ ~acc.err /\ ~acc.stop
         /\ acc.queue = pendq /\ acc.held = sendBuf /\ acc.wire = wireOut /\ acc.lost = {} /\ acc.taken = {}
<1>1. pendq \in Seq(FrameSet) /\ sendBuf \in Nat /\ wireOut \in Seq(WireSet)
  BY DEF SendInv, Sending
<1>2. acc = [queue |-> pendq, rest |-> <<>>, held |-> sendBuf, wire |-> wireOut, room |-> room,
             fails |-> fails, plugin |-> p, open |-> FALSE, buf |-> <<>>, stop |-> FALSE,
             err |-> FALSE, lost |-> {}, taken |-> {}]
  BY DEF Call
<1>3. CallFields(acc, pendq, sendBuf, wireOut, p)
  BY <1>1, <1>2, CallStarts
<1>4. /\ acc \in AccSet(p)
      /\ acc.queue = pendq /\ acc.held = sendBuf /\ acc.wire = wireOut /\ acc.lost = {} /\ acc.taken = {}
      /\ ~acc.err /\ ~acc.stop /\ ~acc.open
  BY <1>3 DEF CallFields
<1>5. acc \in SendsOn(p)
  BY <1>4 DEF SendsOn
<1>6. accepted \cup {} = accepted /\ dropped \cup {} = dropped
  OBVIOUS
<1>7. Sending(acc.queue, acc.held, acc.wire, frameNo, accepted \cup acc.taken, dropped \cup acc.lost)
  BY <1>4, <1>6 DEF SendInv
<1>8. conn.stream => StreamWell(acc.queue, acc.held, acc.wire)
  BY <1>4 DEF SendInv
<1>9. CallWell(p, acc, frameNo, accepted, dropped)
  BY <1>4, <1>7, <1>8 DEF CallWell
<1> QED
  BY <1>4, <1>5, <1>9 DEF SegWell

LEMMA SendingPrime ==
  ASSUME conn' = conn, Sending(pendq', sendBuf', wireOut', frameNo', accepted', dropped')
  PROVE  Sending(pendq, sendBuf, wireOut, frameNo, accepted, dropped)'
BY DEF Sending, Limit, WireSet, UnitId, On, Rises, QueueNumbered, Within, WireRises, Below, Accounted, FrameSet

LEMMA StreamPrime ==
  ASSUME StreamWell(pendq', sendBuf', wireOut')
  PROVE  StreamWell(pendq, sendBuf, wireOut)'
BY DEF StreamWell, StreamOk, Follows, Begun, Before

LEMMA Returned ==
  ASSUME SendInv, NEW p, NEW acc, CallWell(p, acc, frameNo', accepted, dropped), Return(acc),
         frameNo' \in 0..MaxFrames, conn' = conn, batch' = NoBatch
  PROVE  SendInv'
<1>1. Setting /\ conn.stream \in BOOLEAN
  BY SendSettingIs DEF SendInv
<1>2. acc \in AccSet(p) /\ acc.err \in BOOLEAN
  BY AccIs DEF CallWell
<1>3. /\ pendq' = acc.queue /\ sendBuf' = acc.held /\ wireOut' = acc.wire
      /\ accepted' = accepted \cup acc.taken /\ dropped' = dropped \cup acc.lost
      /\ broken' = (conn.stream /\ acc.err)
  BY DEF Return
<1>4. Sending(pendq', sendBuf', wireOut', frameNo', accepted', dropped')
  BY <1>3 DEF CallWell
<1>5. Sending(pendq, sendBuf, wireOut, frameNo, accepted, dropped)'
  BY <1>4, SendingPrime
<1>6. broken' \in BOOLEAN /\ (broken' => conn.stream) /\ (conn.stream /\ ~broken' => ~acc.err)
  BY <1>1, <1>2, <1>3
<1>7. ASSUME conn.stream, ~broken' PROVE StreamWell(pendq, sendBuf, wireOut)'
  <2>1. StreamWell(pendq', sendBuf', wireOut')
    BY <1>3, <1>6, <1>7 DEF CallWell
  <2> QED
    BY <2>1, StreamPrime
<1>8. Setting'
  BY <1>1 DEF Setting
<1>9. BatchWell(batch)'
  BY DEF BatchWell
<1> QED
  BY <1>5, <1>6, <1>7, <1>8, <1>9 DEF SendInv

LEMMA FrameKeeps ==
  ASSUME SendInv, NEW kind \in {"tcp", "control"}, NEW size \in FrameSizes, SendFrame(kind, size)
  PROVE  SendInv'
<1>1. PICK room \in 0..MaxRoom, fails \in BOOLEAN :
        \E plugin \in [Ids(pendq) \cup {frameNo + 1} -> Verdicts] :
          /\ ~broken /\ frameNo < MaxFrames
          /\ frameNo' = frameNo + 1
          /\ Return(send_frame_or_queue(Call(room, fails, plugin, FALSE),
                                        [id |-> frameNo + 1, kind |-> kind, size |-> size]))
          /\ batch' = NoBatch
          /\ UNCHANGED conn
  BY DEF SendFrame
<1>2. PICK p : /\ ~broken /\ frameNo < MaxFrames
               /\ frameNo' = frameNo + 1
               /\ Return(send_frame_or_queue(Call(room, fails, p, FALSE),
                                             [id |-> frameNo + 1, kind |-> kind, size |-> size]))
               /\ batch' = NoBatch
               /\ conn' = conn
  BY <1>1
<1>3. PICK m \in Nat : m = frameNo /\ m + 1 \in 0..MaxFrames
  BY <1>2, SendBounds DEF SendInv
<1>4. PICK f : f = [id |-> frameNo + 1, kind |-> kind, size |-> size]
  OBVIOUS
<1>5. f \in FrameSet /\ f.id = m + 1
  <2>1. size \in Nat \ {0} /\ m + 1 \in Nat
    BY SendBounds
  <2> QED
    BY <1>3, <1>4, <2>1 DEF FrameSet
<1>6. PICK acc : acc = Call(room, fails, p, FALSE)
  OBVIOUS
<1>7. SegWell(p, acc, m, accepted, dropped) /\ ~acc.err
  <2>1. room \in Nat
    BY SendBounds
  <2> QED
    BY <1>2, <1>3, <1>6, <2>1, CallIs
<1>8. PICK r : r = send_frame_or_queue(acc, f)
  OBVIOUS
<1>9. Setting
  BY DEF SendInv
<1>10. CallWell(p, r, m + 1, accepted, dropped)
  BY <1>5, <1>7, <1>8, <1>9, SendIs DEF SegWell
<1>11. Return(r)
  BY <1>2, <1>4, <1>6, <1>8
<1>12. CallWell(p, r, frameNo', accepted, dropped) /\ frameNo' \in 0..MaxFrames
  BY <1>2, <1>3, <1>10
<1> QED
  BY <1>2, <1>11, <1>12, Returned

LEMMA LaneKeepsInv ==
  ASSUME SendInv, NEW size \in FrameSizes, SendLane(size)
  PROVE  SendInv'
<1>1. PICK room \in 0..MaxRoom, fails \in BOOLEAN, verdict \in Verdicts :
        LET f == [id |-> frameNo + 1, kind |-> "tcp", size |-> size]
            acc == udp_send(Call(room, fails, [i \in {f.id} |-> verdict], FALSE), f)
        IN /\ conn.lane /\ frameNo < MaxFrames
           /\ frameNo' = frameNo + 1
           /\ wireOut' = acc.wire
           /\ batch' = NoBatch
           /\ UNCHANGED <<pendq, sendBuf, accepted, dropped, broken, conn>>
  BY DEF SendLane
<1>2. PICK f : f = [id |-> frameNo + 1, kind |-> "tcp", size |-> size]
  OBVIOUS
<1>3. PICK p : p = [i \in {f.id} |-> verdict]
  OBVIOUS
<1>4. PICK acc : acc = Call(room, fails, p, FALSE)
  OBVIOUS
<1>5. PICK r : r = udp_send(acc, f)
  OBVIOUS
<1>6. /\ conn.lane /\ frameNo < MaxFrames /\ frameNo' = frameNo + 1 /\ wireOut' = r.wire /\ batch' = NoBatch
      /\ pendq' = pendq /\ sendBuf' = sendBuf /\ accepted' = accepted /\ dropped' = dropped /\ broken' = broken /\ conn' = conn
  BY <1>1, <1>2, <1>3, <1>4, <1>5
<1>7. PICK m \in Nat : m = frameNo /\ m + 1 \in 0..MaxFrames
  BY <1>6, SendBounds DEF SendInv
<1>8. f \in FrameSet /\ f.id = m + 1
  <2>1. size \in Nat \ {0} /\ m + 1 \in Nat
    BY SendBounds
  <2> QED
    BY <1>2, <1>7, <2>1 DEF FrameSet
<1>9. Setting /\ ~conn.stream /\ ~broken
  BY <1>6, SendSettingIs DEF SendInv
<1>10. /\ acc \in AccSet(p) /\ ~acc.open /\ ~acc.stop /\ acc.wire = wireOut
  <2>1. room \in Nat
    BY SendBounds
  <2> QED
    BY <1>4, <1>9, <2>1, CallIs DEF SegWell, SendsOn
<1>11. More(wireOut, r.wire, m + 1)
  BY <1>5, <1>6, <1>8, <1>9, <1>10, LaneSends
<1>12. Sending(pendq, sendBuf, wireOut, m, accepted, dropped)
  BY <1>7 DEF SendInv
<1>13. Sending(pendq, sendBuf, r.wire, m + 1, accepted, dropped)
  <2>1. dropped \subseteq dropped /\ dropped \subseteq dropped \cup {m + 1}
    OBVIOUS
  <2> QED
    BY <1>6, <1>9, <1>11, <1>12, <2>1, LaneKeeps
<1>14. Sending(pendq', sendBuf', wireOut', frameNo', accepted', dropped')
  BY <1>6, <1>7, <1>13
<1>15. Sending(pendq, sendBuf, wireOut, frameNo, accepted, dropped)'
  BY <1>6, <1>14, SendingPrime
<1>16. Setting' /\ BatchWell(batch)' /\ frameNo' \in 0..MaxFrames /\ broken' \in BOOLEAN
  BY <1>6, <1>7, <1>9 DEF Setting, BatchWell, SendInv
<1> QED
  BY <1>6, <1>9, <1>15, <1>16 DEF SendInv

LEMMA SegmentsKeep ==
  ASSUME SendInv, NEW payload \in Payloads, NEW g \in GsoSizes, NEW room \in 0..MaxRoom, NEW fails \in BOOLEAN,
         SendSegments(payload, g, room, fails)
  PROVE  SendInv'
<1>1. payload \in Nat /\ g \in Nat /\ g > 0 /\ room \in Nat /\ MaxFrames \in Nat
  BY SendBounds
<1>2. PICK segs : segs = SegmentsOf(payload, g)
  OBVIOUS
<1>3. PICK n : n = calc_gso_segs(payload, g)
  OBVIOUS
<1>4. n \in Nat /\ Len(segs) = n /\ DOMAIN segs = 1..n
  <2>1. Segmented(segs, payload, g, n)
    BY <1>1, <1>2, <1>3, SegmentsAre
  <2> QED
    BY <2>1 DEF Segmented
<1>5. PICK m \in Nat : m = frameNo
  BY DEF SendInv
<1>6. PICK F : F = Frames(segs, m)
  OBVIOUS
<1>7. F \in Seq(FrameSet) /\ Len(F) = n /\ \A i \in 1..n : F[i].id = m + i
  <2>1. Framed(F, n, m, g)
    BY <1>1, <1>2, <1>3, <1>6, FramesAre
  <2> QED
    BY <2>1 DEF Framed
<1>8. F = [i \in DOMAIN segs |-> FrameOf(segs[i], frameNo + i)]
  BY <1>4, <1>5, <1>6 DEF Frames
<1>9. PICK p : p = [i \in 1..MaxFrames |-> "accept"]
  OBVIOUS
<1>10. PICK acc : acc = Call(room, fails, p, FALSE)
  OBVIOUS
<1>11. PICK r : r = SendEach(acc, F)
  OBVIOUS
<1>12. /\ ~broken /\ m + n <= MaxFrames /\ frameNo' = m + n /\ Return(r) /\ batch' = NoBatch /\ conn' = conn
  BY <1>2, <1>4, <1>5, <1>8, <1>9, <1>10, <1>11 DEF SendSegments
<1>13. Setting
  BY DEF SendInv
<1>14. SegWell(p, acc, m, accepted, dropped)
  BY <1>1, <1>5, <1>10, <1>12, CallIs
<1>15. CallWell(p, r, m + Len(F), accepted, dropped)
  BY <1>7, <1>11, <1>13, <1>14, EachSent
<1>16. CallWell(p, r, frameNo', accepted, dropped) /\ frameNo' \in 0..MaxFrames
  BY <1>1, <1>4, <1>7, <1>12, <1>15
<1> QED
  BY <1>12, <1>16, Returned

LEMMA BatchKeepsInv ==
  ASSUME SendInv, NEW payload \in Payloads, NEW g \in GsoSizes, NEW cut \in 0..MAX_GSO_SEGS, NEW taken \in BOOLEAN,
         SendBatch(payload, g, cut, taken)
  PROVE  SendInv'
<1>1. payload \in Nat /\ g \in Nat /\ g > 0 /\ MaxFrames \in Nat
  BY SendBounds
<1>2. PICK segs : segs = SegmentsOf(payload, g)
  OBVIOUS
<1>3. PICK n : n = calc_gso_segs(payload, g)
  OBVIOUS
<1>4. n \in Nat /\ Len(segs) = n /\ DOMAIN segs = 1..n
  <2>1. Segmented(segs, payload, g, n)
    BY <1>1, <1>2, <1>3, SegmentsAre
  <2> QED
    BY <2>1 DEF Segmented
<1>5. PICK m \in Nat : m = frameNo
  BY DEF SendInv
<1>6. PICK F : F = Frames(segs, m)
  OBVIOUS
<1>7. /\ F \in Seq(FrameSet) /\ Len(F) = n
      /\ \A i \in 1..n : F[i].id = m + i /\ (i < n => F[i].size = 1 + g) /\ F[i].size <= 1 + g
  <2>1. Framed(F, n, m, g)
    BY <1>1, <1>2, <1>3, <1>6, FramesAre
  <2> QED
    BY <2>1 DEF Framed
<1>8. F = [i \in 1..n |-> FrameOf(segs[i], frameNo + i)]
  BY <1>4, <1>5, <1>6 DEF Frames
<1>9. PICK acc : acc = Coalesced(F, cut)
  OBVIOUS
<1>10. PICK whole : whole = IF taken /\ cut = n THEN Whole(acc.buf, n) ELSE {}
  OBVIOUS
<1>11. /\ ~conn.stream /\ n > 0 /\ cut <= n /\ m + n <= MaxFrames /\ frameNo' = m + n
       /\ pendq' = acc.queue /\ accepted' = accepted \cup acc.taken
       /\ dropped' = dropped \cup (Ids(acc.buf) \ whole)
       /\ wireOut' = wireOut \o IdsAmong(acc.buf, whole)
       /\ batch' = IF cut = n
                   THEN [segs |-> segs, gsoSize |-> acc.buf[1].size, buf |-> acc.buf,
                         slices |-> Slices(acc.buf, n), stale |-> pendq # <<>> /\ ~conn.lane]
                   ELSE NoBatch
       /\ sendBuf' = sendBuf /\ broken' = broken /\ conn' = conn
  BY <1>2, <1>4, <1>5, <1>8, <1>9, <1>10 DEF SendBatch
<1>12. Setting /\ cut \in 0..Len(F)
  BY <1>4, <1>7, <1>11 DEF SendInv
<1>13. PICK v : v = wireOut \o IdsAmong(acc.buf, whole)
  OBVIOUS
<1>14. Sending(pendq, sendBuf, wireOut, m, accepted, dropped)
  BY <1>5 DEF SendInv
<1>15. Sending(acc.queue, sendBuf, v, m + Len(F), accepted \cup acc.taken, dropped \cup (Ids(acc.buf) \ whole))
  BY <1>7, <1>9, <1>11, <1>12, <1>13, <1>14, BatchKeeps
<1>16. Sending(pendq', sendBuf', wireOut', frameNo', accepted', dropped')
  BY <1>7, <1>11, <1>13, <1>15
<1>17. Sending(pendq, sendBuf, wireOut, frameNo, accepted, dropped)'
  BY <1>11, <1>16, SendingPrime
<1>18. ASSUME cut = n, ~(pendq # <<>> /\ ~conn.lane)
       PROVE  Slices(acc.buf, n) = Bounds(acc.buf) /\ TilesWell(segs)
  <2>1. FillAt(F, cut, acc)
    <3>1. pendq \in Seq(FrameSet) /\ sendBuf \in Nat /\ wireOut \in Seq(WireSet) /\ Len(pendq) <= 1
      BY <1>11, <1>12, <1>14, SendSettingIs DEF Sending
    <3> QED
      BY <1>7, <1>9, <1>11, <1>12, <3>1, CoalescedIs
  <2>2. PICK buf \in Seq(FrameSet) : buf = acc.buf /\ Len(buf) = n
    BY <1>18, <2>1, AccIs DEF FillAt, Coalesces
  <2>3. \A k \in 1..n : buf[k] = F[k]
    <3>1. \A k \in 1..n : buf[k] = Slot(F, k)
      BY <1>18, <2>1, <2>2 DEF FillAt
    <3>2. conn.lane \/ Len(pendq) = 0
      BY <1>18
    <3> QED
      BY <3>1, <3>2 DEF Slot
  <2>4. PICK size \in Nat : size = buf[1].size
    <3>1. 1 \in 1..Len(buf)
      BY <1>4, <1>11, <2>2
    <3> QED
      BY <3>1, FrameIs
  <2>5. Uniform(buf, n, size)
    <3>1. 1 \in 1..n /\ size <= 1 + g /\ (1 < n => size = 1 + g)
      BY <1>4, <1>7, <1>11, <2>3, <2>4
    <3>2. \A i \in 1..n : (i < n => buf[i].size = 1 + g) /\ buf[i].size <= 1 + g
      BY <1>7, <2>3
    <3>3. ASSUME NEW i \in 1..n PROVE (i < n => buf[i].size = size) /\ buf[i].size <= size
      <4>1. CASE n = 1
        <5>1. i = 1 /\ ~(i < n)
          BY <4>1
        <5> QED
          BY <2>4, <5>1
      <4>2. CASE n # 1
        <5>1. 1 < n
          BY <1>4, <1>11, <4>2
        <5> QED
          BY <3>1, <3>2, <5>1
      <4> QED
        BY <4>1, <4>2
    <3> QED
      BY <1>11, <2>2, <2>4, <3>3 DEF Uniform
  <2>6. Slices(buf, n) = Bounds(buf)
    BY <1>4, <2>5, UniformSliced
  <2>7. TilesWell(segs)
    BY <1>1, <1>2, <1>3, <1>11, TilesAre
  <2> QED
    BY <2>2, <2>6, <2>7
<1>19. BatchWell(batch')
  <2>1. CASE cut = n
    <3>1. PICK b : b = [segs |-> segs, gsoSize |-> acc.buf[1].size, buf |-> acc.buf,
                        slices |-> Slices(acc.buf, n), stale |-> pendq # <<>> /\ ~conn.lane]
      OBVIOUS
    <3>2. b.segs = segs /\ b.buf = acc.buf /\ b.slices = Slices(acc.buf, n) /\ b.stale = (pendq # <<>> /\ ~conn.lane)
      BY <3>1
    <3>3. BatchWell(b)
      BY <1>18, <2>1, <3>2 DEF BatchWell
    <3>4. batch' = b
      BY <1>11, <2>1, <3>1
    <3> QED
      BY <3>3, <3>4
  <2>2. CASE cut # n
    BY <1>11, <2>2 DEF BatchWell
  <2> QED
    BY <2>1, <2>2
<1>20. Setting' /\ BatchWell(batch)' /\ frameNo' \in 0..MaxFrames /\ broken' \in BOOLEAN /\ (broken' => conn.stream)
  <2>1. BatchWell(batch)'
    BY <1>19 DEF BatchWell
  <2>2. frameNo' \in 0..MaxFrames
    BY <1>1, <1>4, <1>11
  <2> QED
    BY <1>11, <1>12, <2>1, <2>2 DEF Setting, SendInv
<1> QED
  BY <1>11, <1>17, <1>20 DEF SendInv

LEMMA SendStutters ==
  ASSUME SendInv, UNCHANGED sendVars
  PROVE  SendInv'
<1>1. /\ pendq' = pendq /\ sendBuf' = sendBuf /\ wireOut' = wireOut /\ frameNo' = frameNo /\ accepted' = accepted
      /\ dropped' = dropped /\ batch' = batch /\ broken' = broken /\ conn' = conn
  BY DEF sendVars
<1>2. Sending(pendq', sendBuf', wireOut', frameNo', accepted', dropped')
  BY <1>1 DEF SendInv
<1>3. Sending(pendq, sendBuf, wireOut, frameNo, accepted, dropped)'
  BY <1>1, <1>2, SendingPrime
<1>4. ASSUME conn.stream, ~broken PROVE StreamWell(pendq, sendBuf, wireOut)'
  <2>1. StreamWell(pendq', sendBuf', wireOut')
    BY <1>1, <1>4 DEF SendInv
  <2> QED
    BY <2>1, StreamPrime
<1>5. BatchWell(batch)'
  <2>1. BatchWell(batch')
    BY <1>1 DEF SendInv
  <2> QED
    BY <2>1 DEF BatchWell, TilesWell
<1>6. Setting' /\ frameNo' \in 0..MaxFrames /\ broken' \in BOOLEAN /\ (broken' => conn'.stream)
  BY <1>1 DEF SendInv, Setting
<1> QED
  BY <1>1, <1>3, <1>4, <1>5, <1>6 DEF SendInv

LEMMA SendKeeps ==
  ASSUME SendInv, [SendNext]_sendVars
  PROVE  SendInv'
<1>1. CASE \E kind \in {"tcp", "control"}, size \in FrameSizes : SendFrame(kind, size)
  BY <1>1, FrameKeeps
<1>2. CASE \E size \in FrameSizes : SendLane(size)
  BY <1>2, LaneKeepsInv
<1>3. CASE \E payload \in Payloads, g \in GsoSizes :
             \E cut \in 0..MAX_GSO_SEGS, taken \in BOOLEAN : SendBatch(payload, g, cut, taken)
  BY <1>3, BatchKeepsInv
<1>4. CASE \E payload \in Payloads, g \in GsoSizes :
             \E room \in 0..MaxRoom, fails \in BOOLEAN : SendSegments(payload, g, room, fails)
  BY <1>4, SegmentsKeep
<1>5. CASE UNCHANGED sendVars
  BY <1>5, SendStutters
<1> QED
  BY <1>1, <1>2, <1>3, <1>4, <1>5 DEF SendNext

(* What the invariant says, in the words of the properties.                *)
LEMMA ToldTypes ==
  ASSUME SendInv
  PROVE  SendTypeOK
<1>1. Setting /\ Sending(pendq, sendBuf, wireOut, frameNo, accepted, dropped)
  BY DEF SendInv
<1>2. Len(pendq) <= Limit /\ sendBuf \in Nat /\ (sendBuf # 0 => conn.stream) /\ accepted \subseteq 1..frameNo /\ dropped \subseteq 1..frameNo
  BY <1>1 DEF Sending
<1>3. ASSUME NEW f \in ToSet(pendq) PROVE f.id \in 1..frameNo /\ f.size > 0
  <2>1. PICK k \in 1..Len(pendq) : f = pendq[k]
    BY <1>1, <1>3 DEF Sending, ToSet
  <2>2. f.id \in 1..frameNo
    BY <1>1, <2>1 DEF Sending, QueueNumbered
  <2>3. f \in FrameSet
    BY <1>1, <2>1, FrameIs DEF Sending
  <2> QED
    BY <2>2, <2>3 DEF FrameSet
<1> QED
  BY <1>1, <1>2, <1>3 DEF SendInv, Setting, SendTypeOK, Limit

LEMMA ToldStream ==
  ASSUME SendInv
  PROVE  StreamIntact
<1>1. SUFFICES ASSUME conn.stream, ~broken
      PROVE  /\ \A i \in 1..(Len(wireOut) - 1) :
                  LET a == wireOut[i] b == wireOut[i + 1]
                  IN (b[1] = a[1] /\ b[2] = a[2] + 1) \/ (b[1] > a[1] /\ b[2] = 1)
             /\ sendBuf # 0 =>
                  /\ pendq # <<>>
                  /\ \/ sendBuf = pendq[1].size /\ (wireOut = <<>> \/ Last(wireOut)[1] < pendq[1].id)
                     \/ wireOut # <<>> /\ Last(wireOut) = <<pendq[1].id, pendq[1].size - sendBuf>>
  BY DEF StreamIntact
<1>2. StreamWell(pendq, sendBuf, wireOut) /\ pendq \in Seq(FrameSet) /\ wireOut \in Seq(WireSet)
  BY <1>1 DEF SendInv, Sending
<1>3. \A i \in 1..(Len(wireOut) - 1) : Follows(wireOut[i], wireOut[i + 1])
  BY <1>2 DEF StreamWell, StreamOk
<1>4. ASSUME sendBuf # 0
      PROVE  /\ pendq # <<>>
             /\ \/ sendBuf = pendq[1].size /\ (wireOut = <<>> \/ Last(wireOut)[1] < pendq[1].id)
                \/ wireOut # <<>> /\ Last(wireOut) = <<pendq[1].id, pendq[1].size - sendBuf>>
  <2>1. Len(pendq) # 0 /\ Begun(sendBuf, wireOut, pendq[1])
    BY <1>2, <1>4 DEF StreamWell
  <2>2. pendq # <<>> /\ (Len(wireOut) = 0 <=> wireOut = <<>>)
    BY <1>2, <2>1, EmptySeq
  <2>3. Last(wireOut) = wireOut[Len(wireOut)]
    BY DEF Last
  <2>4. \/ sendBuf = pendq[1].size /\ (Len(wireOut) = 0 \/ wireOut[Len(wireOut)][1] < pendq[1].id)
        \/ Len(wireOut) # 0 /\ wireOut[Len(wireOut)] = <<pendq[1].id, pendq[1].size - sendBuf>>
    BY <2>1, Zenon DEF Begun, Before
  <2> QED
    BY <2>2, <2>3, <2>4, Zenon
<1> QED
  BY <1>3, <1>4, Zenon DEF Follows

LEMMA ToldAccounts ==
  ASSUME SendInv
  PROVE  AcceptedAccounted
<1>1. Sending(pendq, sendBuf, wireOut, frameNo, accepted, dropped) /\ Setting
  BY DEF SendInv
<1>2. pendq \in Seq(FrameSet) /\ wireOut \in Seq(WireSet) /\ Accounted(pendq, wireOut, accepted, dropped)
  BY <1>1 DEF Sending
<1>3. DOMAIN pendq = 1..Len(pendq) /\ DOMAIN wireOut = 1..Len(wireOut)
  BY <1>2
<1>4. SUFFICES ASSUME NEW id \in accepted \ (dropped \cup Ids(pendq))
      PROVE  IF conn.stream THEN \E i \in DOMAIN wireOut : wireOut[i][1] = id ELSE Contains(wireOut, id)
  BY DEF AcceptedAccounted
<1>5. ~\E k \in 1..Len(pendq) : pendq[k].id = id
  BY <1>3, <1>4 DEF Ids
<1>6. On(wireOut, id)
  BY <1>2, <1>4, <1>5 DEF Accounted
<1>7. PICK i \in 1..Len(wireOut) : UnitId(wireOut[i]) = id
  BY <1>6 DEF On
<1> QED
  BY <1>3, <1>7 DEF UnitId, Contains

LEMMA ToldOrder ==
  ASSUME SendInv
  PROVE  NoOvertaking
<1>1. Sending(pendq, sendBuf, wireOut, frameNo, accepted, dropped) /\ Setting
  BY DEF SendInv
<1>2. pendq \in Seq(FrameSet) /\ wireOut \in Seq(WireSet) /\ Rises(pendq) /\ (conn.lane \/ (WireRises(wireOut) /\ Below(wireOut, pendq, 0)))
  BY <1>1 DEF Sending
<1>3. DOMAIN wireOut = 1..Len(wireOut) /\ DOMAIN pendq = 1..Len(pendq) /\ Len(pendq) \in Nat /\ Len(wireOut) \in Nat
  BY <1>2
<1>4. ASSUME ~conn.lane
      PROVE  /\ \A i \in 1..(Len(wireOut) - 1) : UnitId(wireOut[i]) <= UnitId(wireOut[i + 1])
             /\ \A f \in ToSet(pendq), i \in DOMAIN wireOut : UnitId(wireOut[i]) <= f.id
  <2>1. ASSUME NEW i \in 1..(Len(wireOut) - 1) PROVE UnitId(wireOut[i]) <= UnitId(wireOut[i + 1])
    <3>1. i \in 1..Len(wireOut) /\ i + 1 \in 1..Len(wireOut) /\ i < i + 1
      BY <1>3
    <3> QED
      BY <1>2, <1>4, <3>1 DEF WireRises
  <2>2. ASSUME NEW f \in ToSet(pendq), NEW i \in DOMAIN wireOut PROVE UnitId(wireOut[i]) <= f.id
    <3>1. PICK k \in 1..Len(pendq) : f = pendq[k]
      BY <1>3 DEF ToSet
    <3>2. k > 0
      BY <1>3
    <3> QED
      BY <1>2, <1>3, <1>4, <3>1, <3>2 DEF Below
  <2> QED
    BY <2>1, <2>2
<1>5. ASSUME NEW i \in 1..(Len(pendq) - 1) PROVE pendq[i].id < pendq[i + 1].id
  <2>1. i \in 1..Len(pendq) /\ i + 1 \in 1..Len(pendq) /\ i < i + 1
    BY <1>3
  <2> QED
    BY <1>2, <2>1 DEF Rises
<1>6. \A u : UnitId(u) = IF conn.stream THEN u[1] ELSE u
  BY DEF UnitId
<1> QED
  BY <1>4, <1>5, <1>6, Zenon DEF NoOvertaking

LEMMA SendInvImplies ==
  ASSUME SendInv
  PROVE  SendSafe
<1>1. BatchSliced
  <2>1. BatchWell(batch)
    BY DEF SendInv
  <2> QED
    BY <2>1, Zenon DEF BatchWell, TilesWell, BatchSliced
<1> QED
  BY <1>1, ToldTypes, ToldStream, ToldAccounts, ToldOrder DEF SendSafe

(* For every limit of the pending queue, every superpacket and however the *)
(* socket blocks, fails or takes half a frame: a stream has no hole, no    *)
(* repeat and no two frames mixed, frames do not overtake each other, none *)
(* that was accepted is lost in silence, and a batch that opens on an      *)
(* empty queue is cut where its segments end (send_frame_or_queue,         *)
(* io_adapter.rs, gso.rs).                                                 *)
THEOREM SendIsSafe == SendSpec => []SendSafe
<1>1. SendInit => SendInv
  BY SendInitially
<1>2. SendInv /\ [SendNext]_sendVars => SendInv'
  BY SendKeeps
<1>3. SendInv => SendSafe
  BY SendInvImplies
<1> QED
  BY <1>1, <1>2, <1>3, PTL DEF SendSpec
=============================================================================
