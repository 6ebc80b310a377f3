-------------------------------- MODULE Codec --------------------------------
(***************************************************************************)
(* Negotiation of the inside packet codec (connection.rs): the client asks *)
(* with numbered requests, retransmits the last one from a tick and gives  *)
(* up after a number of attempts; the server follows the newest request it *)
(* has seen and answers. Both ends are Online datagram connections with an *)
(* encoder. The network loses, reorders and repeats.                       *)
(***************************************************************************)
EXTENDS Naturals, FiniteSets

CONSTANTS
  ENCODING_REQUEST_PKT_MAX_RETRANSMISSION_ATTEMPTS,   \* 5 in the code
  MaxRequests,     \* bound: requests the client makes
  Authorizations   \* subset of BOOLEAN: can_use_inside_pkt_encoding of the server

ASSUME CodecAssumption ==
  /\ ENCODING_REQUEST_PKT_MAX_RETRANSMISSION_ATTEMPTS \in Nat
  /\ MaxRequests \in Nat /\ Authorizations \subseteq BOOLEAN

VARIABLES
  encoding,    \* what each end's encoder does: [client, server] of BOOLEAN
  idCounter,   \* id_counter of each end
  pendingReq,  \* pending_request_pkt of the client, or NoRequest
  retries,     \* retransmissions_counter
  codecTicks,  \* request ids for which a PktCodecTick is scheduled
  requests,    \* EncodingRequests in the network
  responses,   \* EncodingResponses in the network
  agreed,      \* history: the last request was answered, not given up
  authorized   \* this behaviour's member of Authorizations

codecVars == <<encoding, idCounter, pendingReq, retries, codecTicks, requests, responses,
               agreed, authorized>>

NoRequest == [id |-> 0, enable |-> FALSE]
Messages == [id : 1..MaxRequests, enable : BOOLEAN]

CodecInit ==
  /\ encoding = [client |-> FALSE, server |-> FALSE]
  /\ idCounter = [client |-> 0, server |-> 0]
  /\ pendingReq = NoRequest /\ retries = 0 /\ codecTicks = {}
  /\ requests = {} /\ responses = {} /\ agreed = TRUE
  /\ authorized \in Authorizations

\* A new request replaces a pending one; the tick of the old one stays armed.
set_encoding(enable) ==
  LET request == [id |-> idCounter.client + 1, enable |-> enable]
  IN /\ idCounter.client < MaxRequests
     /\ idCounter' = [idCounter EXCEPT !.client = request.id]
     /\ pendingReq' = request /\ retries' = 0
     /\ codecTicks' = codecTicks \cup {request.id}
     /\ requests' = requests \cup {request}
     /\ agreed' = FALSE
     /\ UNCHANGED <<encoding, responses, authorized>>

\* The stall guard, on a data path the codec black-holes.
downgrade_inside_pkt_codec_if_stalled ==
  /\ encoding.client
  /\ pendingReq = NoRequest
  /\ set_encoding(FALSE)

TickNeverEnds(id) ==
  /\ id \in codecTicks
  /\ IF pendingReq = NoRequest \/ id # idCounter.client
     THEN codecTicks' = codecTicks \ {id} /\ UNCHANGED <<pendingReq, retries, requests>>
     ELSE UNCHANGED <<pendingReq, retries, codecTicks>> /\ requests' = requests \cup {pendingReq}
  /\ UNCHANGED <<encoding, idCounter, responses, agreed, authorized>>

codec_tick(id) ==
  /\ id \in codecTicks
  /\ IF pendingReq = NoRequest \/ id # idCounter.client
     THEN codecTicks' = codecTicks \ {id} /\ UNCHANGED <<pendingReq, retries, requests>>
     ELSE IF retries >= ENCODING_REQUEST_PKT_MAX_RETRANSMISSION_ATTEMPTS
     THEN /\ pendingReq' = NoRequest /\ codecTicks' = codecTicks \ {id}
          /\ UNCHANGED <<retries, requests>>
     ELSE /\ retries' = retries + 1
          /\ requests' = requests \cup {pendingReq}
          /\ UNCHANGED <<pendingReq, codecTicks>>
  /\ UNCHANGED <<encoding, idCounter, responses, agreed, authorized>>

\* The message stays in the network if another copy of it is under way.
Received(m, net) == net \ {m}

FollowsAnyRequest(m) ==
  /\ m \in requests
  /\ requests' \in {requests, Received(m, requests)}
  /\ encoding' = [encoding EXCEPT !.server = m.enable]
  /\ responses' = responses \cup {m}
  /\ UNCHANGED <<idCounter, pendingReq, retries, codecTicks, agreed, authorized>>

process_encoding_request_pkt(m) ==
  /\ m \in requests
  /\ requests' \in {requests, Received(m, requests)}
  /\ \/ /\ ~authorized
        /\ responses' = responses \cup {[id |-> m.id, enable |-> FALSE]}
        /\ UNCHANGED <<encoding, idCounter>>
     \/ /\ authorized /\ m.id < idCounter.server
        /\ UNCHANGED <<encoding, idCounter, responses>>
     \/ /\ authorized /\ m.id >= idCounter.server
        /\ idCounter' = [idCounter EXCEPT !.server = m.id]
        /\ encoding' = [encoding EXCEPT !.server = m.enable]
        /\ responses' = responses \cup {m}
  /\ UNCHANGED <<pendingReq, retries, codecTicks, agreed, authorized>>

process_encoding_response_pkt(m) ==
  /\ m \in responses
  /\ responses' \in {responses, Received(m, responses)}
  /\ IF pendingReq = NoRequest \/ m.id # idCounter.client
     THEN UNCHANGED <<encoding, pendingReq, agreed>>
     ELSE /\ encoding' = [encoding EXCEPT !.client = m.enable]
          /\ pendingReq' = NoRequest
          /\ agreed' = TRUE
  /\ UNCHANGED <<idCounter, retries, codecTicks, requests, authorized>>

LoseRequest(m) ==
  /\ m \in requests /\ requests' = requests \ {m}
  /\ UNCHANGED <<encoding, idCounter, pendingReq, retries, codecTicks, responses, agreed, authorized>>

LoseResponse(m) ==
  /\ m \in responses /\ responses' = responses \ {m}
  /\ UNCHANGED <<encoding, idCounter, pendingReq, retries, codecTicks, requests, agreed, authorized>>

CodecNext ==
  \/ \E enable \in BOOLEAN : set_encoding(enable)
  \/ downgrade_inside_pkt_codec_if_stalled
  \/ \E id \in 1..MaxRequests : codec_tick(id)
  \/ \E m \in Messages : \/ process_encoding_request_pkt(m) \/ LoseRequest(m)
                         \/ process_encoding_response_pkt(m) \/ LoseResponse(m)

\* A scheduled tick fires: the ticker task sleeps and then calls codec_tick.
CodecFairness == \A id \in 1..MaxRequests : WF_codecVars(codec_tick(id))
CodecSpec == CodecInit /\ [][CodecNext]_codecVars /\ CodecFairness
-----------------------------------------------------------------------------
(* Once the client's last request has been answered, both encoders do the  *)
(* same, whatever older requests and answers are still under way or arrive *)
(* again (the id checks of the two handlers).                              *)
EncodingAgreed == agreed => encoding.client = encoding.server

(* A pending request always has its tick, also after it replaced another:  *)
(* no request waits for ever for an answer that was lost.                  *)
RequestTicked == pendingReq # NoRequest => pendingReq.id \in codecTicks

(* Every request is answered, replaced or given up: the stall guard, which *)
(* is suppressed while one is pending, is never suppressed for good.       *)
RequestResolved == \A id \in 1..MaxRequests : (pendingReq.id = id) ~> (pendingReq.id # id)

(* Ids grow: the server never runs ahead of the client, a pending request  *)
(* is the client's newest, and retries stay within their limit.            *)
CodecTypeOK ==
  /\ encoding \in [client : BOOLEAN, server : BOOLEAN]
  /\ idCounter.server <= idCounter.client /\ idCounter.client \in 0..MaxRequests
  /\ pendingReq # NoRequest => pendingReq.id = idCounter.client
  /\ retries \in 0..ENCODING_REQUEST_PKT_MAX_RETRANSMISSION_ATTEMPTS
  /\ codecTicks \subseteq 1..idCounter.client
  /\ requests \subseteq Messages /\ responses \subseteq Messages

(* Stale, repeated and lost requests and answers leave the two encoders    *)
(* agreed, and never a request without its tick                            *)
(* (process_encoding_request_pkt, process_encoding_response_pkt).          *)
NegotiationSafe ==
  /\ CodecTypeOK
  /\ EncodingAgreed
  /\ RequestTicked
=============================================================================
