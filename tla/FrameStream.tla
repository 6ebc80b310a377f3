----------------------------- MODULE FrameStream -----------------------------
(***************************************************************************)
(* Frames on the wire: how each is encoded and decoded, and the loop of    *)
(* Connection::handle_messages that takes them out of what TLS hands over. *)
(* A stream delivers bytes in chunks that respect no frame; a datagram     *)
(* carries whole frames behind a header, and may be lost or overtaken.     *)
(* Bytes are naturals below 256; field widths are constants.               *)
(***************************************************************************)
EXTENDS Naturals, SequencesExt

CONSTANTS
  MAX_USER_PASS_LENGTH, MAX_TOKEN_BYTES, MAX_SERVER_CONFIG_BYTES, MAX_STR_SIZE,
  SessionSize, U64Size, KeySize, AuthFailureSize,   \* widths of fixed fields, in bytes
  FrameSamples,     \* the frames sent
  HeaderVersions,   \* versions in the header of a peer's datagrams
  MaxFramesSent     \* bound

VARIABLES
  link,         \* datagram or stream, is the receiver a server, the version in the peer's headers,
                \* does the peer send newer kinds
  fsent,        \* frames written so far
  inflight,     \* the stream's bytes; the datagrams, each with the number of its frame
  tls_pending,  \* plaintext of the last chunk or datagram that try_read has not taken
  receive_buf,  \* Connection.receive_buf
  reading,      \* handle_messages runs
  arrived,    \* frames that reached the connection while it was up, in order
  fhandled,     \* frames handled, in order
  ignored,      \* errors the application ignored
  fate          \* "up", or the error that ended the connection

frameVars == <<link, fsent, inflight, tls_pending, receive_buf, reading, arrived, fhandled, ignored, fate>>

Skip(b, n) == SubSeq(b, n + 1, Len(b))
Zeros(n) == [i \in 1..n |-> 0]
put_u16(n) == <<n \div 256, n % 256>>
get_u16(b, at) == b[at] * 256 + b[at + 1]
put_bool(v) == <<IF v THEN 1 ELSE 0>>
Blob(data) == put_u16(Len(data)) \o data

FrameKind ==
  [NoOp |-> 1, Ping |-> 2, Pong |-> 3, AuthRequest |-> 4, Data |-> 5, AuthSuccessWithConfigV4 |-> 6,
   AuthFailure |-> 7, Goodbye |-> 12, ServerConfig |-> 14, DataFrag |-> 15, EncodedData |-> 16,
   EncodedDataFrag |-> 17, EncodingRequest |-> 18, EncodingResponse |-> 19, ExpresslaneConfig |-> 20]
Newer == [kind |-> "Newer"]   \* a frame of a kind that comes with a later version

AuthMethodKind == [UserPass |-> 1, Token |-> 2, VersionedToken |-> 3, CustomCallback |-> 23]
Version(v) == v[1] = 1 /\ v[2] \in 1..3   \* Version::try_new: MINIMUM 1.1, MAXIMUM 1.3
IsUtf8(s) == \A i \in DOMAIN s : s[i] < 128

-----------------------------------------------------------------------------
(* append_to_wire.                                                         *)

Padded(s, n) == s \o Zeros(n - Len(s))
OffsetAndMoreFragments(f) == (IF f.more_fragments THEN 8192 ELSE 0) + f.offset \div 8

AuthToWire(f) ==
  <<AuthMethodKind[f.method]>> \o
  CASE f.method = "UserPass" -> <<Len(f.user), Len(f.password)>> \o Padded(f.user, MAX_USER_PASS_LENGTH)
                                  \o Padded(f.password, MAX_USER_PASS_LENGTH)
    [] f.method = "VersionedToken" -> f.version \o Blob(f.data)
    [] OTHER -> Blob(f.data)

AuthSuccessToWire(f) ==
  FlattenSeq([i \in 1..4 |-> Padded(f.strings[i], MAX_STR_SIZE + 1)]) \o f.session

append_to_wire(f) ==
  IF f = Newer THEN <<21>>
  ELSE <<FrameKind[f.kind]>> \o
    CASE f.kind \in {"NoOp", "Goodbye"} -> <<>>
      [] f.kind \in {"Ping", "Pong"} -> put_u16(f.id) \o Blob(f.data)
      [] f.kind \in {"Data", "EncodedData", "ServerConfig"} -> Blob(f.data)
      [] f.kind \in {"DataFrag", "EncodedDataFrag"} ->
           put_u16(Len(f.data)) \o put_u16(f.id) \o put_u16(OffsetAndMoreFragments(f)) \o f.data
      [] f.kind \in {"EncodingRequest", "EncodingResponse"} -> f.id \o put_bool(f.enable)
      [] f.kind = "ExpresslaneConfig" ->
           <<f.version, (IF f.enabled THEN 128 ELSE 0) + (IF f.ack THEN 64 ELSE 0), 0, 0>> \o f.counter \o f.key
      [] f.kind = "AuthRequest" -> AuthToWire(f)
      [] f.kind = "AuthSuccessWithConfigV4" -> AuthSuccessToWire(f)
      [] f.kind = "AuthFailure" -> Zeros(AuthFailureSize)

-----------------------------------------------------------------------------
(* try_from_wire.  A BorrowedBytesMut that is dropped before its commit    *)
(* leaves the buffer as it was.                                            *)
CommitsAnyway(cursor) == cursor
Uncommitted(cursor) == 0

Insufficient(cursor) == [tag |-> "InsufficientData", used |-> Uncommitted(cursor)]
Refused(why) == [tag |-> why, used |-> Uncommitted(1)]
Parsed(frame, used) == [tag |-> "ok", frame |-> frame, used |-> used]

Short(b, n) == Len(b) < n

(* After the kind: `size` bytes of fixed fields, u16 length at `at`, data; *)
(* `fields` is the frame without its data.                                 *)
BlobFromWire(b, size, at, max, fields) ==
  IF Short(b, size) THEN Insufficient(1)
  ELSE LET n == get_u16(b, at) IN
       IF n > max THEN Refused("FieldTooLarge")
       ELSE IF Short(b, size + n) THEN Insufficient(1 + size)
       ELSE Parsed(fields @@ [data |-> SubSeq(b, size + 1, size + n)], 1 + size + n)

Unbounded == 65535

(* The fixed-length strings end at their first zero.                       *)
FixedString(b, at) ==
  LET field == SubSeq(b, at, at + MAX_STR_SIZE)
      zeros == {i \in DOMAIN field : field[i] = 0}
      n == IF zeros = {} THEN MAX_STR_SIZE ELSE Min(zeros) - 1
  IN SubSeq(field, 1, n)

AuthSuccessFromWire(b) ==
  LET size == 4 * (MAX_STR_SIZE + 1) + SessionSize
      strings == [i \in 1..4 |-> FixedString(b, 1 + (i - 1) * (MAX_STR_SIZE + 1))] IN
  IF Short(b, size) THEN Insufficient(1)
  ELSE IF \E i \in 1..4 : ~IsUtf8(strings[i]) THEN Refused("InvalidStringEncoding")
  ELSE Parsed([kind |-> "AuthSuccessWithConfigV4", strings |-> strings,
               session |-> SubSeq(b, size - SessionSize + 1, size)], 1 + size)

(* UserPass is of fixed length.                                            *)
UserPassFromWire(b) ==
  LET size == 3 + 2 * MAX_USER_PASS_LENGTH
      user == SubSeq(b, 4, 3 + b[2])
      password == SubSeq(b, 4 + MAX_USER_PASS_LENGTH, 3 + MAX_USER_PASS_LENGTH + b[3]) IN
  IF Short(b, size) THEN Insufficient(2)
  ELSE IF b[2] > MAX_USER_PASS_LENGTH \/ b[3] > MAX_USER_PASS_LENGTH THEN Refused("FieldTooLarge")
  ELSE IF ~IsUtf8(user) \/ ~IsUtf8(password) THEN Refused("InvalidStringEncoding")
  ELSE Parsed([kind |-> "AuthRequest", method |-> "UserPass", user |-> user, password |-> password], 1 + size)

AuthFromWire(b) ==
  LET Request(method) == [kind |-> "AuthRequest", method |-> method]
      Versioned == Request("VersionedToken") @@ [version |-> SubSeq(b, 2, 3)]
      Text(r) == IF r.tag = "ok" /\ ~IsUtf8(r.frame.data) THEN Refused("InvalidStringEncoding") ELSE r IN
  IF b = <<>> THEN Insufficient(1)
  ELSE CASE b[1] = AuthMethodKind["UserPass"] -> UserPassFromWire(b)
         [] b[1] = AuthMethodKind["Token"] -> Text(BlobFromWire(b, 3, 2, MAX_TOKEN_BYTES, Request("Token")))
         [] b[1] = AuthMethodKind["VersionedToken"] ->
              IF Len(b) >= 5 /\ ~Version(<<b[2], b[3]>>) THEN Refused("InvalidProtocolVersion")
              ELSE Text(BlobFromWire(b, 5, 4, MAX_TOKEN_BYTES - 2, Versioned))
         [] b[1] = AuthMethodKind["CustomCallback"] -> BlobFromWire(b, 3, 2, MAX_TOKEN_BYTES, Request("CustomCallback"))
         [] OTHER -> Refused("InvalidEnumEncoding")

EncodingFromWire(b, kind) ==
  LET size == U64Size + 1 IN
  IF Short(b, size) THEN Insufficient(1)
  ELSE IF b[size] \notin {0, 1} THEN Refused("InvalidBool")
  ELSE Parsed([kind |-> kind, id |-> SubSeq(b, 1, U64Size), enable |-> b[size] = 1], 1 + size)

ExpresslaneConfigFromWire(b) ==
  LET size == 4 + U64Size + KeySize IN
  IF Short(b, size) THEN Insufficient(1)
  ELSE Parsed([kind |-> "ExpresslaneConfig", version |-> b[1],
               enabled |-> b[2] \div 128 = 1, ack |-> (b[2] \div 64) % 2 = 1,
               counter |-> SubSeq(b, 5, 4 + U64Size), key |-> SubSeq(b, 5 + U64Size, size)], 1 + size)

try_from_wire(buf) ==
  IF buf = <<>> THEN Insufficient(0)
  ELSE IF \A k \in DOMAIN FrameKind : FrameKind[k] # buf[1] THEN Refused("UnknownFrameType")
  ELSE LET kind == CHOOSE k \in DOMAIN FrameKind : FrameKind[k] = buf[1]
           b == Tail(buf)
           Plain == [kind |-> kind]
           Echo == [kind |-> kind, id |-> get_u16(b, 1)]
           Fragment == [kind |-> kind, id |-> get_u16(b, 3), offset |-> (get_u16(b, 5) % 8192) * 8,
                        more_fragments |-> (get_u16(b, 5) \div 8192) % 2 = 1]
       IN CASE kind \in {"NoOp", "Goodbye"} -> Parsed([kind |-> kind], 1)
            [] kind \in {"Ping", "Pong"} -> BlobFromWire(b, 4, 3, Unbounded, Echo)
            [] kind \in {"Data", "EncodedData"} -> BlobFromWire(b, 2, 1, Unbounded, Plain)
            [] kind = "ServerConfig" -> BlobFromWire(b, 2, 1, MAX_SERVER_CONFIG_BYTES, Plain)
            [] kind \in {"DataFrag", "EncodedDataFrag"} -> BlobFromWire(b, 6, 1, Unbounded, Fragment)
            [] kind \in {"EncodingRequest", "EncodingResponse"} -> EncodingFromWire(b, kind)
            [] kind = "ExpresslaneConfig" -> ExpresslaneConfigFromWire(b)
            [] kind = "AuthRequest" -> AuthFromWire(b)
            [] kind = "AuthSuccessWithConfigV4" -> AuthSuccessFromWire(b)
            [] kind = "AuthFailure" ->
                 IF Short(b, AuthFailureSize) THEN Insufficient(1)
                 ELSE Parsed([kind |-> kind], 1 + AuthFailureSize)

-----------------------------------------------------------------------------
(* The header of a datagram: magic, version, two flags, reserved, session. *)
HeaderToWire(version) == <<72, 101>> \o version \o <<0, 0, 0, 0>> \o Zeros(SessionSize)
HeaderSize == 8 + SessionSize
HeaderFromWire(b) == /\ Len(b) >= HeaderSize /\ b[1] = 72 /\ b[2] = 101
                     /\ Version(<<b[3], b[4]>>)

FrameInit ==
  /\ link \in [datagram : BOOLEAN, server : BOOLEAN, version : HeaderVersions, newer : BOOLEAN]
  /\ ~link.datagram => ~link.server /\ link.version = <<1, 3>>   \* no header to check
  /\ fsent = <<>> /\ inflight = <<>> /\ tls_pending = <<>> /\ receive_buf = <<>> /\ reading = FALSE
  /\ arrived = <<>> /\ fhandled = <<>> /\ ignored = 0 /\ fate = "up"

WriteFrame(f) ==
  /\ Len(fsent) < MaxFramesSent /\ (f = Newer => link.newer)
  /\ fsent' = Append(fsent, f)
  /\ inflight' = IF link.datagram
                 THEN Append(inflight, [frame |-> f, bytes |-> HeaderToWire(link.version) \o append_to_wire(f)])
                 ELSE inflight \o append_to_wire(f)
  /\ UNCHANGED <<link, tls_pending, receive_buf, reading, arrived, fhandled, ignored, fate>>

(* outside_data_received: the header of a datagram is taken off; one that  *)
(* is not ours is refused, and so is, by a server, one of another version  *)
(* than the connection's (tunnel_protocol_version).                        *)
ArriveDatagram(i) ==
  /\ link.datagram /\ fate = "up" /\ ~reading /\ i \in DOMAIN inflight
  /\ inflight' = RemoveAt(inflight, i)
  /\ IF HeaderFromWire(inflight[i].bytes) /\ (link.server => link.version = <<1, 3>>)
     THEN /\ tls_pending' = Skip(inflight[i].bytes, HeaderSize) /\ reading' = TRUE
          /\ arrived' = Append(arrived, inflight[i].frame)
     ELSE UNCHANGED <<tls_pending, reading, arrived>>
  /\ UNCHANGED <<link, fsent, receive_buf, fhandled, ignored, fate>>

ArriveBytes(n) ==
  /\ ~link.datagram /\ fate = "up" /\ ~reading /\ n \in 1..Len(inflight)
  /\ tls_pending' = SubSeq(inflight, 1, n) /\ inflight' = Skip(inflight, n) /\ reading' = TRUE
  /\ UNCHANGED <<link, fsent, receive_buf, arrived, fhandled, ignored, fate>>

LoseDatagram(i) ==
  /\ link.datagram /\ i \in DOMAIN inflight
  /\ inflight' = RemoveAt(inflight, i)
  /\ UNCHANGED <<link, fsent, tls_pending, receive_buf, reading, arrived, fhandled, ignored, fate>>

(* handle_messages asks TLS for more only when no frame can be made.       *)
TryRead ==
  LET r == try_from_wire(receive_buf) IN
  /\ reading /\ fate = "up" /\ r.tag = "InsufficientData"
  /\ receive_buf' = Skip(receive_buf, r.used) \o tls_pending /\ tls_pending' = <<>>
  /\ reading' = (tls_pending # <<>>)
  /\ UNCHANGED <<link, fsent, inflight, arrived, fhandled, ignored, fate>>

HandleFrame ==
  LET r == try_from_wire(receive_buf) IN
  /\ reading /\ fate = "up" /\ r.tag = "ok"
  /\ receive_buf' = Skip(receive_buf, r.used)
  /\ fhandled' = Append(fhandled, r.frame)
  /\ fate' = CASE r.frame.kind = "Goodbye" -> "Goodbye"
               [] r.frame.kind = "AuthFailure" -> "Unauthorized" [] OTHER -> fate
  /\ UNCHANGED <<link, fsent, inflight, tls_pending, reading, arrived, ignored>>

(* ConnectionError::is_fatal.                                              *)
is_fatal(why) == ~link.datagram \/ why \notin {"UnknownFrameType", "InvalidProtocolVersion"}

(* The loop returns the error; what TLS has not been asked for is dropped  *)
(* with its datagram.                                                      *)
FrameError ==
  LET r == try_from_wire(receive_buf) IN
  /\ reading /\ fate = "up" /\ r.tag \notin {"ok", "InsufficientData"}
  /\ IF is_fatal(r.tag) THEN fate' = r.tag /\ UNCHANGED ignored
     ELSE ignored' = ignored + 1 /\ UNCHANGED fate
  /\ reading' = FALSE /\ tls_pending' = <<>>
  /\ UNCHANGED <<link, fsent, inflight, receive_buf, arrived, fhandled>>

FrameNext ==
  \/ \E f \in FrameSamples \cup {Newer} : WriteFrame(f)
  \/ \E i \in 1..MaxFramesSent : ArriveDatagram(i) \/ LoseDatagram(i)
  \/ \E n \in 1..Len(inflight) : ArriveBytes(n)
  \/ TryRead \/ HandleFrame \/ FrameError

-----------------------------------------------------------------------------
(* The buffers hold bytes, the channel carries frames (wire.rs,            *)
(* handle_messages).                                                       *)
FrameTypeOK ==
  /\ \A i \in DOMAIN receive_buf : receive_buf[i] \in 0..255
  /\ ignored <= MaxFramesSent /\ (reading => fate = "up" \/ fhandled # <<>>)

Channel == INSTANCE FrameChannel WITH
  Frames <- FrameSamples \cup {Newer},
  sent <- IF link.datagram THEN arrived ELSE fsent,
  received <- fhandled

(* No frame waits in the buffer when all of it is there: an idle connection*)
(* that ignored no error has handled everything it was given.              *)
FramesComplete ==
  (fate = "up" /\ ~reading /\ ignored = 0) =>
    IF link.datagram THEN fhandled = arrived /\ receive_buf = <<>>
    ELSE inflight = <<>> => fhandled = fsent

(* "For UDP/DTLS many errors can be ignored": after a frame of a kind it   *)
(* does not know, a datagram connection goes on with the frames it knows.  *)
(* Fails: the unknown frame is never taken out of receive_buf.             *)
IgnoredSkipped ==
  (fate = "up" /\ ~reading /\ link.datagram) =>
    fhandled = SelectSeq(arrived, LAMBDA f : f # Newer)

(* What is handled is what was sent: the frames cut out of a stream, in    *)
(* whatever chunks its bytes come, and those of the datagrams that arrive, *)
(* are those of a channel that carries whole frames in order; and none     *)
(* that is complete is left in the buffer (handle_messages).               *)
FramesIntact == Channel!ChannelSpec /\ [](FrameTypeOK /\ FramesComplete)
=============================================================================
