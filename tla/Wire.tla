-------------------------------- MODULE Wire --------------------------------
(***************************************************************************)
(* A message on its way from Session.Send to the peer's Session.Receive:   *)
(* encoded (messages*.go), encrypted into a frame (crypto.go, frame.go,    *)
(* header.go), put on the wire, and back.  SendPayload brings in payloads  *)
(* of any content.  Bytes are their lengths and what the decoders look at; *)
(* sequence numbers, keys and rekeys are Session.tla's.                    *)
(*                                                                         *)
(* MaxFrameSize and MaxUint8 are 65535 and 255 in the code.  Instances     *)
(* take a smaller MaxFrameSize of the same remainder modulo 4.             *)
(***************************************************************************)
EXTENDS Tlv

CONSTANTS
  MaxUint8,  \* the range of PadLength and of the count of an Ack
  Calls      \* what callers pass in: see CallsAssumption

HeaderSize == 40
AEADTagSize == 16
MaxFrameSize == MaxSequenceSize
MaxEncryptedPayloadSize == MaxFrameSize - HeaderSize - AEADTagSize
MaxHandshakePayloadSize == MaxFrameSize - HeaderSize
MaxReasonSize == MaxEncryptedPayloadSize - 2 - TLVHeaderSize - 1
MaxErrorContextSize == MaxEncryptedPayloadSize - 2

ASSUME WireAssumption ==
  /\ MaxUint8 \in Nat /\ MaxFrameSize % 4 = 3
  /\ MaxEncryptedPayloadSize >= 36 + MaxUint8              \* a RekeyInit fits
  /\ MaxEncryptedPayloadSize >= 1 + 8 * MaxUint8 + MaxUint8 \* every Ack fits
  /\ MaxHandshakePayloadSize >= 96                         \* every flight fits

VARIABLES
  call,     \* what the caller asked for
  stage,    \* how far it has come
  payload,  \* the plaintext
  frame,    \* the Frame of the sender, then of the receiver
  octets,   \* the bytes on the wire
  got       \* what the receiver returns

vars == <<call, stage, payload, frame, octets, got>>

None == [kind |-> "none"]

-----------------------------------------------------------------------------
(* Messages and their payloads.  A payload has a length and what its bytes say.
   Text is its length and whether it is UTF-8. *)

Text(size, utf8) == [size |-> size, utf8 |-> utf8]
DataPayload(len, zero, tlv) == [len |-> len, zero |-> zero, tlv |-> tlv]
TextPayload(len, code, tlv, utf8) == [len |-> len, code |-> code, tlv |-> tlv, utf8 |-> utf8]
RawPayload(len, utf8) == [len |-> len, utf8 |-> utf8]
AckPayload(len, count) == [len |-> len, count |-> count]
PingPayload(len, flag) == [len |-> len, flag |-> flag]
FlightPayload(len, pattern, zero) == [len |-> len, pattern |-> pattern, zero |-> zero]
RekeyPayload(len, epoch) == [len |-> len, epoch |-> epoch]

Good(p) == [kind |-> "OK", payload |-> p]
Bad(kind) == [kind |-> kind]

textTLVType == 1
NoTLV == Buffer(0, <<>>)
PingPongSize == 9
RekeyInitSize == 36
AckSize(count) == 1 + 8 * count

rejectDuplicateTLVs(fields) ==
  \E i, j \in DOMAIN fields : i # j /\ fields[i].type = fields[j].type

(* EncryptedData.EncodedLen, the validation of NewEncryptedData too. *)
EncryptedDataLen(m) ==
  LET fieldsLen == encodedTLVsLen(m.fields) IN
  IF rejectDuplicateTLVs(m.fields) THEN Failure("DuplicateMessageTLV")
  ELSE IF fieldsLen.kind # "OK" THEN fieldsLen
  ELSE IF fieldsLen.n > MaxEncryptedPayloadSize - 4 THEN Failure("MessageLength")
  ELSE Ok(4 + fieldsLen.n)

(* Mutant: the preflight forgets the tag. *)
ValidateFrameSizeUntagged(m, padLength) ==
  LET n == EncryptedDataLen(m) IN
  IF n.kind # "OK" THEN n.kind
  ELSE IF HeaderSize + n.n + padLength > MaxFrameSize THEN "PayloadTooLarge" ELSE "OK"

ValidateFrameSize(m, padLength) ==
  LET n == EncryptedDataLen(m) IN
  IF n.kind # "OK" THEN n.kind
  ELSE IF HeaderSize + n.n + AEADTagSize + padLength > MaxFrameSize THEN "PayloadTooLarge"
  ELSE "OK"

MarshalData(m) ==
  LET fields == EncodeTLVs(m.fields) IN
  IF rejectDuplicateTLVs(m.fields) THEN Bad("DuplicateMessageTLV")
  ELSE IF fields.kind # "OK" THEN Bad(fields.kind)
  ELSE IF fields.data.len > MaxEncryptedPayloadSize - 4 THEN Bad("MessageLength")
  ELSE Good(DataPayload(4 + fields.data.len, TRUE, fields.data))

(* marshalTextMessage; an empty text has no field. *)
MarshalClose(m) ==
  LET field == Field(textTLVType, m.text.size)
      n == EncodedLen(m.text.size)
  IN
  IF m.code > 3 THEN Bad("InvalidCloseCode")
  ELSE IF ~ m.text.utf8 THEN Bad("InvalidUTF8")
  ELSE IF m.text.size > MaxReasonSize THEN Bad("ReasonTooLong")
  ELSE IF m.text.size = 0 THEN Good(TextPayload(2, m.code, NoTLV, TRUE))
  ELSE IF n.kind # "OK" THEN Bad(n.kind)
  ELSE Good(TextPayload(2 + n.n, m.code, Write(<<field>>, n.n), TRUE))

MarshalError(m) ==
  IF ~ m.text.utf8 THEN Bad("InvalidUTF8")
  ELSE IF m.text.size > MaxErrorContextSize THEN Bad("ReasonTooLong")
  ELSE Good(RawPayload(2 + m.text.size, TRUE))

MarshalAck(m) ==
  IF m.count < 1 \/ m.count > MaxUint8 THEN Bad("AckCount")
  ELSE Good(AckPayload(AckSize(m.count), m.count))

MarshalRekey(m) ==
  IF m.epoch = 0 THEN Bad("InvalidEpoch") ELSE Good(RekeyPayload(RekeyInitSize, m.epoch))

MarshalPing(m) == Good(PingPayload(PingPongSize, IF m.response THEN 1 ELSE 0))

(* The flights. *)
MarshalInit(m) ==
  IF m.pattern # "XX" THEN Bad("InvalidNoisePattern")
  ELSE IF m.noise # 0 THEN Bad("UnexpectedNoiseData")
  ELSE Good(FlightPayload(36, "XX", TRUE))

MarshalResponse(m) ==
  IF 32 + m.noise # 96 THEN Bad("MessageLength") ELSE Good(FlightPayload(96, "XX", TRUE))

MarshalFinish(m) ==
  IF m.noise # 64 THEN Bad("MessageLength") ELSE Good(FlightPayload(64, "XX", TRUE))

MarshalBinary(m) ==
  CASE m.kind = "init"     -> MarshalInit(m)
    [] m.kind = "response" -> MarshalResponse(m)
    [] m.kind = "finish"   -> MarshalFinish(m)
    [] m.kind = "data"     -> MarshalData(m)
    [] m.kind = "close"    -> MarshalClose(m)
    [] m.kind = "error"    -> MarshalError(m)
    [] m.kind = "ack"      -> MarshalAck(m)
    [] m.kind = "rekey"    -> MarshalRekey(m)
    [] m.kind = "ping"     -> MarshalPing(m)

-----------------------------------------------------------------------------
(* newInboundMessage and UnmarshalBinary: the message, or Bad with a reason. *)

UnmarshalData(p) ==
  LET tlvs == DecodeTLVs(p.tlv, MaxEncryptedPayloadSize - 4) IN
  IF p.len < 4 THEN Bad("MessageTooShort")
  ELSE IF ~ p.zero THEN Bad("MessageReserved")
  ELSE IF tlvs.kind # "OK" THEN Bad(tlvs.kind)
  ELSE IF rejectDuplicateTLVs(tlvs.fields) THEN Bad("DuplicateMessageTLV")
  ELSE [kind |-> "data", fields |-> tlvs.fields]

(* unmarshalTextMessage, then the code of SessionClose. *)
UnmarshalClose(p) ==
  LET tlvs == DecodeTLVs(p.tlv, Align4(TLVHeaderSize + MaxReasonSize))
      close(text) == IF p.code > 3 THEN Bad("InvalidCloseCode")
                     ELSE [kind |-> "close", code |-> p.code, text |-> text]
  IN IF p.len < 2 THEN Bad("MessageTooShort")
     ELSE IF p.len = 2 THEN close(Text(0, TRUE))
     ELSE IF tlvs.kind # "OK" THEN Bad(tlvs.kind)
     ELSE IF rejectDuplicateTLVs(tlvs.fields) THEN Bad("DuplicateMessageTLV")
     ELSE IF Len(tlvs.fields) # 1 \/ tlvs.fields[1].type # textTLVType THEN Bad("UnknownMessageTLV")
     ELSE IF ~ p.utf8 THEN Bad("InvalidUTF8")
     ELSE close(Text(tlvs.fields[1].size, TRUE))

UnmarshalError(p) ==
  IF p.len < 2 THEN Bad("MessageTooShort")
  ELSE IF p.len > MaxEncryptedPayloadSize THEN Bad("MessageLength")
  ELSE IF ~ p.utf8 THEN Bad("InvalidUTF8")
  ELSE [kind |-> "error", text |-> Text(p.len - 2, TRUE)]

(* Mutant: an Ack of nothing is accepted. *)
UnmarshalAckEmpty(p) ==
  IF p.len < 1 THEN Bad("MessageTooShort")
  ELSE IF p.len # AckSize(p.count) THEN Bad("MessageLength")
  ELSE [kind |-> "ack", count |-> p.count]

UnmarshalAck(p) ==
  IF p.len < 1 THEN Bad("MessageTooShort")
  ELSE IF p.count < 1 \/ p.count > MaxUint8 THEN Bad("AckCount")
  ELSE IF p.len # AckSize(p.count) THEN Bad("MessageLength")
  ELSE [kind |-> "ack", count |-> p.count]

UnmarshalPing(p) ==
  IF p.len # PingPongSize THEN Bad("MessageLength")
  ELSE IF p.flag > 1 THEN Bad("InvalidPingResponse")
  ELSE [kind |-> "ping", response |-> p.flag = 1]

UnmarshalRekey(p) ==
  IF p.len # RekeyInitSize THEN Bad("MessageLength")
  ELSE IF p.epoch = 0 THEN Bad("InvalidEpoch")
  ELSE [kind |-> "rekey", epoch |-> p.epoch]

UnmarshalInit(p) ==
  IF p.len < 36 THEN Bad("MessageTooShort")
  ELSE IF p.len > MaxHandshakePayloadSize THEN Bad("MessageLength")
  ELSE IF p.len % 4 # 0 THEN Bad("HandshakeAlignment")
  ELSE IF p.pattern # "XX" THEN Bad("InvalidNoisePattern")
  ELSE IF ~ p.zero THEN Bad("MessageReserved")
  ELSE IF p.len # 36 THEN Bad("UnexpectedNoiseData")
  ELSE [kind |-> "init", pattern |-> "XX", noise |-> 0]

UnmarshalResponse(p) ==
  IF p.len # 96 THEN Bad("MessageLength") ELSE [kind |-> "response", pattern |-> "XX", noise |-> 64]

UnmarshalFinish(p) ==
  IF p.len # 64 THEN Bad("MessageLength") ELSE [kind |-> "finish", pattern |-> "XX", noise |-> 64]

UnmarshalBinary(kind, p) ==
  CASE kind = "init"     -> UnmarshalInit(p)
    [] kind = "response" -> UnmarshalResponse(p)
    [] kind = "finish"   -> UnmarshalFinish(p)
    [] kind = "data"     -> UnmarshalData(p)
    [] kind = "close"    -> UnmarshalClose(p)
    [] kind = "error"    -> UnmarshalError(p)
    [] kind = "ack"      -> UnmarshalAck(p)
    [] kind = "rekey"    -> UnmarshalRekey(p)
    [] kind = "ping"     -> UnmarshalPing(p)

-----------------------------------------------------------------------------
(* Headers and frames.  The session ID and the sequence number, zero or not,
   follow from the type; unknown stands for reserved flags and bytes, and a
   version other than 1 for a wrong magic too. *)

HandshakeTypes == {"init", "response"}
EncryptedTypes == {"data", "ping", "close", "ack", "rekey", "error"}
TypeOf(kind) == IF kind = "finish" THEN "response" ELSE kind

NewHeader(type, payloadLength, padLength) ==
  [ version |-> 1, type |-> type, padding |-> padLength # 0, unknown |-> FALSE,
    payloadLength |-> payloadLength, padLength |-> padLength ]

hasAEADTag(h) == h.type \notin HandshakeTypes
TagSize(h) == IF hasAEADTag(h) THEN AEADTagSize ELSE 0
FrameSize(h) == HeaderSize + h.payloadLength + h.padLength + TagSize(h)

validateCommon(h) ==
  IF h.version # 1 THEN "UnsupportedVersion"
  ELSE IF h.padding # (h.padLength # 0) THEN "PaddingFlag"
  ELSE IF FrameSize(h) > MaxFrameSize THEN "FrameTooLarge" ELSE "OK"

ValidateSend(h) ==
  IF validateCommon(h) # "OK" THEN validateCommon(h)
  ELSE IF h.unknown THEN "ReservedFlags" ELSE "OK"

(* A frame: its header, the lengths of its parts, and what was sealed into it
   (the associated data and the plaintext), for the tag to be compared. *)
Frame(h, payloadLen, padLen, sealed) ==
  [header |-> h, payload |-> payloadLen, padding |-> padLen, sealed |-> sealed]

validateLengths(f) ==
  IF f.payload # f.header.payloadLength \/ f.padding # f.header.padLength
  THEN "FrameLengthMismatch" ELSE "OK"

(* NewFrame with a tag of the right length, or none for a handshake. *)
NewFrame(type, payloadLen, padLen, sealed) ==
  LET h == NewHeader(type, payloadLen, padLen % (MaxUint8 + 1)) IN
  IF padLen > MaxUint8 THEN Bad("PaddingLength")
  ELSE IF FrameSize(h) > MaxFrameSize THEN Bad("PayloadTooLarge")
  ELSE [kind |-> "OK", frame |-> Frame(h, payloadLen, padLen, sealed)]

(* Codec.Encrypt; the padding is random and of the length asked for. *)
Encrypt(type, p, padLength) ==
  LET h == NewHeader(type, p.len, padLength) IN
  IF type \notin EncryptedTypes THEN Bad("UnencryptedType")
  ELSE IF HeaderSize + p.len + AEADTagSize + padLength > MaxFrameSize THEN Bad("PayloadTooLarge")
  ELSE IF ValidateSend(h) # "OK" THEN Bad(ValidateSend(h))
  ELSE NewFrame(type, p.len, padLength, [aad |-> <<h, padLength>>, text |-> p])

(* Frame.MarshalBinary, and WriteFrame's own checks. *)
MarshalFrame(f) ==
  IF ValidateSend(f.header) # "OK" THEN Bad(ValidateSend(f.header))
  ELSE IF validateLengths(f) # "OK" THEN Bad(validateLengths(f))
  ELSE [ kind |-> "OK", header |-> f.header, sealed |-> f.sealed,
         len |-> HeaderSize + f.payload + TagSize(f.header) + f.padding ]

(* ReadFrame and Frame.UnmarshalBinary: where the parts end. *)
UnmarshalFrame(o) ==
  LET h == o.header
      payloadEnd == HeaderSize + h.payloadLength
      tagEnd == payloadEnd + TagSize(h)
  IN IF o.len < HeaderSize THEN Bad("FrameTooShort")
     ELSE IF validateCommon(h) # "OK" THEN Bad(validateCommon(h))
     ELSE IF o.len # FrameSize(h) THEN Bad("FrameLengthMismatch")
     ELSE [kind |-> "OK", frame |-> Frame(h, payloadEnd - HeaderSize, o.len - tagEnd, o.sealed)]

(* Mutant: a frame with reserved bits is not canonical, so it is refused. *)
DecryptCanonical(f) ==
  IF ValidateSend(f.header) # "OK" THEN Bad(ValidateSend(f.header))
  ELSE IF f.sealed = None \/ f.sealed.aad # <<f.header, f.padding>> THEN Bad("Authentication")
  ELSE Good(f.sealed.text)

(* Codec.Decrypt: the tag matches what was sealed, or nothing was. *)
Decrypt(f) ==
  IF validateCommon(f.header) # "OK" THEN Bad(validateCommon(f.header))
  ELSE IF validateLengths(f) # "OK" THEN Bad(validateLengths(f))
  ELSE IF f.header.type \notin EncryptedTypes THEN Bad("UnencryptedType")
  ELSE IF f.sealed = None \/ f.sealed.aad # <<f.header, f.padding>> THEN Bad("Authentication")
  ELSE Good(f.sealed.text)

(* The types of Session: the reserved ticket is one until it is refused. *)
validSessionMessageType(type) == type \in EncryptedTypes \cup {"ticket"}

ReceivePayload(f) ==
  IF f.header.type = "ticket" \/ ~ validSessionMessageType(f.header.type)
  THEN Bad("MessageType") ELSE Decrypt(f)

validateHandshakeFrame(f, expected) ==
  IF f.header.type # expected \/ validateCommon(f.header) # "OK" \/ validateLengths(f) # "OK"
  THEN Bad("HandshakeFailed") ELSE Good(f.sealed)

-----------------------------------------------------------------------------
(* A call is a message for Send, or one that the session itself generates
   ("rekey") or a flight of a handshake; a payload for SendPayload, of any
   content; or the octets with which a peer of a later version of the protocol
   has sent a message. *)

FieldSet == [type : Nat, size : Nat]
IsBuffer(data) == data.len \in Nat /\ \A o \in DOMAIN data.at : data.at[o] \in FieldSet
TextSet == [size : Nat, utf8 : BOOLEAN]
HeaderSet ==
  [ version : Nat, type : STRING, padding : BOOLEAN, unknown : BOOLEAN,
    payloadLength : Nat, padLength : Nat ]

DataMessage == [kind : {"data"}, fields : Seq(FieldSet)]
CloseMessage == [kind : {"close"}, code : Nat, text : TextSet]
ErrorMessage == [kind : {"error"}, text : TextSet]
AckMessage == [kind : {"ack"}, count : Nat]
PingMessage == [kind : {"ping"}, response : BOOLEAN]
RekeyMessage == [kind : {"rekey"}, epoch : Nat \ {0}]
Flight ==
  [kind : {"init"}, pattern : STRING, noise : Nat]
    \cup [kind : {"response", "finish"}, pattern : {"XX"}, noise : Nat]

Sendable == DataMessage \cup CloseMessage \cup ErrorMessage \cup AckMessage \cup PingMessage

AnyPayload(c) ==
  LET p == c.payload IN
  /\ c.kind = "data" =>
       /\ c.fields \in Seq(FieldSet) /\ p.len \in Nat /\ p.zero \in BOOLEAN
       /\ p.tlv = IF p.len < 4 THEN NoTLV ELSE Cut(c.fields, p.len - 4)
  /\ c.kind = "close" =>
       /\ p.len \in Nat /\ p.code \in Nat /\ p.utf8 \in BOOLEAN /\ IsBuffer(p.tlv)
       /\ p.len >= 2 => p.tlv.len = p.len - 2
  /\ c.kind = "error" => p.len \in Nat /\ p.utf8 \in BOOLEAN
  /\ c.kind = "ack" => p.len \in Nat /\ p.count \in Nat
  /\ c.kind = "ping" => p.len \in Nat /\ p.flag \in Nat

PeerOctets(c) ==
  LET o == c.octets IN
  /\ c.message \in Sendable /\ c.kind = c.message.kind /\ MarshalBinary(c.message).kind = "OK"
  /\ o.header \in HeaderSet /\ o.len \in Int
  /\ o.header.type \in EncryptedTypes => o.header.type = c.kind
  /\ o.sealed = None \/ o.sealed.text = MarshalBinary(c.message).payload

ASSUME CallsAssumption ==
  \A c \in Calls :
    \/ c.via = "send" /\ c.message \in Sendable /\ c.kind = c.message.kind /\ c.pad \in 0..MaxUint8
    \/ c.via = "session" /\ c.message \in RekeyMessage /\ c.kind = "rekey" /\ c.pad \in 0..MaxUint8
    \/ c.via = "flight" /\ c.message \in Flight /\ c.kind = c.message.kind
    \/ c.via = "payload" /\ c.kind \in STRING /\ c.pad \in 0..MaxUint8 /\ AnyPayload(c)
    \/ c.via = "peer" /\ PeerOctets(c)

Init ==
  /\ call \in Calls /\ stage = "called"
  /\ payload = None /\ frame = None /\ octets = None /\ got = None

Refuse(r, as) == stage' = as /\ got' = r /\ UNCHANGED <<call, payload, frame, octets>>

Marshal ==
  LET r == MarshalBinary(call.message) IN
  /\ stage = "called" /\ call.via \in {"send", "session", "flight"}
  /\ \/ r.kind # "OK" /\ Refuse(r, "refused")
     \/ r.kind = "OK" /\ payload' = r.payload /\ stage' = "marshaled"
        /\ UNCHANGED <<call, frame, octets, got>>

SendPayload ==
  /\ stage = "called" /\ call.via = "payload"
  /\ IF call.kind \in {"ticket", "rekey"} \/ ~ validSessionMessageType(call.kind)
     THEN Refuse(Bad("MessageType"), "refused")
     ELSE /\ payload' = call.payload /\ stage' = "marshaled"
          /\ UNCHANGED <<call, frame, octets, got>>

(* The frame of the session, of the responder (NewFrame) or of the initiator,
   which fills in a Frame itself. *)
NewFlightFrame(kind, p) ==
  IF kind = "response" THEN NewFrame("response", p.len, 0, p)
  ELSE [kind |-> "OK", frame |-> Frame(NewHeader(TypeOf(kind), p.len, 0), p.len, 0, p)]

MakeFrame ==
  LET r == IF call.via = "flight" THEN NewFlightFrame(call.kind, payload)
           ELSE Encrypt(call.kind, payload, call.pad)
  IN /\ stage = "marshaled"
     /\ \/ r.kind # "OK" /\ Refuse(r, "refused")
        \/ r.kind = "OK" /\ frame' = r.frame /\ stage' = "framed"
           /\ UNCHANGED <<call, payload, octets, got>>

WriteFrame ==
  LET r == MarshalFrame(frame) IN
  /\ stage = "framed"
  /\ IF r.kind # "OK" THEN Refuse(r, "refused")
     ELSE octets' = r /\ stage' = "sent" /\ UNCHANGED <<call, payload, frame, got>>

PeerSends ==
  /\ stage = "called" /\ call.via = "peer"
  /\ octets' = call.octets /\ stage' = "sent"
  /\ UNCHANGED <<call, payload, frame, got>>

ReadFrame ==
  LET r == UnmarshalFrame(octets) IN
  /\ stage = "sent"
  /\ \/ r.kind # "OK" /\ Refuse(r, "rejected")
     \/ r.kind = "OK" /\ frame' = r.frame /\ stage' = "read"
        /\ UNCHANGED <<call, payload, octets, got>>

(* Receive, or a routine that awaits the flight. *)
Receive ==
  LET r == IF call.via = "flight" THEN validateHandshakeFrame(frame, TypeOf(call.kind))
           ELSE ReceivePayload(frame)
      m == UnmarshalBinary(call.kind, r.payload)
  IN /\ stage = "read"
     /\ \/ r.kind # "OK" /\ Refuse(r, "rejected")
        \/ /\ r.kind = "OK" /\ payload' = r.payload /\ got' = m
           /\ stage' = IF m.kind = call.kind THEN "received" ELSE "rejected"
           /\ UNCHANGED <<call, frame, octets>>

Returned == stage \in {"refused", "rejected", "received"} /\ UNCHANGED vars

Next ==
  \/ Marshal \/ SendPayload \/ MakeFrame \/ WriteFrame
  \/ PeerSends \/ ReadFrame \/ Receive \/ Returned

Spec == Init /\ [][Next]_vars

-----------------------------------------------------------------------------
Typed == call.via \in {"send", "session", "flight"}

(* A peer's frame that this version has to accept: consistent lengths, its own
   header under the tag, reserved bits or not. *)
Acceptable(o) ==
  /\ validateCommon(o.header) = "OK" /\ o.len = FrameSize(o.header)
  /\ o.sealed # None /\ o.sealed.aad = <<o.header, o.header.padLength>>
  /\ o.header.type \in EncryptedTypes

(* What the sender's checks let through, no check of the receiver refuses, and
   it is the message that was sent: the limits of Send, Encrypt and WriteFrame
   agree with those of ReadFrame, Receive and DecodeTLVs.  A control message of
   the session always fits.  Receivers ignore reserved bits (header.go:143). *)
Delivered ==
  /\ Typed => stage # "rejected"
  /\ call.via # "payload" /\ stage = "received" => got = call.message
  /\ call.via = "session" => stage # "refused"
  /\ call.via = "peer" /\ stage = "rejected" => ~ Acceptable(call.octets)

(* ValidateFrameSize answers what Send will do, with the same error, and
   EncodedLen is the length that MarshalBinary produces (messages_tlv.go:20-52).
   A valid reason or error context is refused only when it does not fit: the
   limits of messages.go:30 and messages_error.go:9 are the largest ones. *)
SizesExact ==
  /\ call.via = "send" /\ call.kind = "data" =>
       /\ stage = "refused" => got.kind = ValidateFrameSize(call.message, call.pad)
       /\ stage = "marshaled" => EncryptedDataLen(call.message) = Ok(payload.len)
       /\ stage \in {"framed", "sent", "received"} =>
            ValidateFrameSize(call.message, call.pad) = "OK"
  /\ call.via = "send" /\ call.kind \in {"close", "error"} /\ stage = "refused" =>
       LET size == call.message.text.size
           body == IF call.kind = "close" THEN Align4(TLVHeaderSize + size) ELSE size
       IN \/ ~ call.message.text.utf8 \/ (call.kind = "close" /\ call.message.code > 3)
          \/ HeaderSize + 2 + body + AEADTagSize + call.pad > MaxFrameSize

(* The reference for a decode: the bytes are the first k of the fields that
   they were meant to hold, each whole with its padding (past the last field
   they are zero, which reads as empty fields of type 0). *)
WholeFields(k) ==
  LET meant == call.fields \o [i \in 1..2 |-> Garbage] IN
  /\ k <= Len(meant) /\ Offsets(meant)[k] = call.payload.tlv.len
  /\ got = [kind |-> "data", fields |-> SubSeq(meant, 1, k)]

(* The two passes of DecodeTLVs accept exactly the sequences of whole, aligned
   fields, and return those; a frame that is read is split without a byte
   missing or left over (frame.go:121, internal/tlv/codec.go:93-135). *)
DecodeExact ==
  /\ call.via = "payload" /\ call.kind = "data" /\ stage = "received" =>
       \E k \in 0..(Len(call.fields) + 2) : WholeFields(k)
  /\ call.via = "payload" /\ call.kind = "data" /\ stage = "rejected" =>
       \/ got.kind \in {"MessageTooShort", "MessageReserved", "DuplicateMessageTLV"}
       \/ \A k \in 0..Len(call.fields) : Offsets(call.fields)[k] # payload.tlv.len
  /\ stage \in {"read", "received"} =>
       /\ HeaderSize + frame.payload + TagSize(frame.header) + frame.padding = octets.len
       /\ frame.padding = frame.header.padLength /\ octets.len <= MaxFrameSize

(* A decoder accepts nothing that the encoder would refuse: what is received,
   from SendPayload too, can be sent on, no longer than it came, and decodes to
   itself. *)
ReceivedCanBeSent ==
  stage = "received" =>
    LET again == MarshalBinary(got) IN
    /\ again.kind = "OK" /\ again.payload.len <= payload.len
    /\ UnmarshalBinary(call.kind, again.payload) = got
=============================================================================
