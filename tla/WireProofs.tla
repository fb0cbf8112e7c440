----------------------------- MODULE WireProofs -----------------------------
(***************************************************************************)
(* Proofs about frames and about whole calls, from Send to Receive (Wire), *)
(* for any inputs and limits.                                              *)
(*                                                                         *)
(* The inductive invariant WireInv says that the state is a function of    *)
(* the call and of how far it has come, so the four properties of Wire     *)
(* follow from the facts about the codecs in CodecProofs.                  *)
(***************************************************************************)
EXTENDS CodecProofs

-----------------------------------------------------------------------------
(* Frames.                                                                 *)

(* A padding length that fits in a byte survives the conversion            *)
(* (frame.go:30-61).                                                       *)
LEMMA SmallMod ==
  ASSUME NEW b \in Nat, NEW a \in 0..b
  PROVE  a % (b + 1) = a
<1>1. PICK c \in Nat \ {0} : c = b + 1
  OBVIOUS
<1>2. PICK q, r : q = a \div c /\ r = a % c
  BY Zenon
<1>3. q \in Int /\ r \in 0..(c - 1) /\ a = c * q + r
  BY <1>2
<1>4. q >= 1 => c * q >= c
  BY <1>3
<1>5. q <= -1 => c * q <= -c
  BY <1>3
<1>6. q = 0
  BY <1>1, <1>3, <1>4, <1>5
<1>q. QED
  BY <1>1, <1>2, <1>3, <1>6

(* A header for a payload that fits is valid on both sides.                *)
LEMMA HeaderFits ==
  ASSUME NEW type, NEW n \in Nat, NEW pad \in Nat
  PROVE  LET h == NewHeader(type, n, pad)
         IN /\ type \in HandshakeTypes => TagSize(h) = 0 /\ FrameSize(h) = 40 + n + pad
            /\ type \notin HandshakeTypes => TagSize(h) = 16 /\ FrameSize(h) = 56 + n + pad
            /\ FrameSize(h) <= MaxFrameSize => ValidateSend(h) = "OK" /\ validateCommon(h) = "OK"
<1>1. PICK h : h = NewHeader(type, n, pad)
  BY Zenon
<1>2. /\ h.version = 1 /\ h.type = type /\ h.padding = (pad # 0) /\ h.unknown = FALSE
      /\ h.payloadLength = n /\ h.padLength = pad
  BY <1>1, Zenon DEF NewHeader
<1>3. /\ type \in HandshakeTypes => TagSize(h) = 0
      /\ type \notin HandshakeTypes => TagSize(h) = 16
  BY <1>2, Zenon DEF TagSize, hasAEADTag, AEADTagSize
<1>4. /\ type \in HandshakeTypes => FrameSize(h) = 40 + n + pad
      /\ type \notin HandshakeTypes => FrameSize(h) = 56 + n + pad
  BY <1>2, <1>3 DEF FrameSize, HeaderSize
<1>5. ASSUME FrameSize(h) <= MaxFrameSize PROVE ValidateSend(h) = "OK" /\ validateCommon(h) = "OK"
  <2>1. h.padding = (h.padLength # 0)
    BY <1>2, Zenon
  <2>2. ~(FrameSize(h) > MaxFrameSize)
    BY <1>4, <1>5, Limits
  <2>3. validateCommon(h) = "OK"
    BY <1>2, <2>1, <2>2, Zenon DEF validateCommon
  <2>4. ~h.unknown
    BY <1>2, Zenon
  <2>q. QED
    BY <2>3, <2>4, Zenon DEF ValidateSend
<1>q. QED
  BY <1>1, <1>3, <1>4, <1>5, Zenon

(* The parts of a frame make up the octets.                                *)
Split(f, o) ==
  /\ HeaderSize + f.payload + TagSize(f.header) + f.padding = o.len
  /\ f.padding = f.header.padLength /\ o.len <= MaxFrameSize

(* A frame whose lengths are those of its header comes back as it was.     *)
LEMMA FrameBack ==
  ASSUME NEW type, NEW n \in Nat, NEW pad \in Nat, NEW sealed,
         FrameSize(NewHeader(type, n, pad)) <= MaxFrameSize
  PROVE  LET f == Frame(NewHeader(type, n, pad), n, pad, sealed)
             o == MarshalFrame(f)
         IN /\ o.kind = "OK" /\ o.len \in Nat /\ UnmarshalFrame(o) = [kind |-> "OK", frame |-> f]
            /\ validateLengths(f) = "OK" /\ Split(f, o)
<1>1. PICK h : h = NewHeader(type, n, pad)
  BY Zenon
<1>2. PICK f : f = Frame(h, n, pad, sealed)
  BY Zenon
<1>3. h.payloadLength = n /\ h.padLength = pad
  BY <1>1, Zenon DEF NewHeader
<1>4. f.header = h /\ f.payload = n /\ f.padding = pad /\ f.sealed = sealed
  BY <1>2, Zenon DEF Frame
<1>5. validateLengths(f) = "OK"
  BY <1>3, <1>4, Zenon DEF validateLengths
<1>6. PICK t \in {0, 16} : t = TagSize(h) /\ FrameSize(h) = 40 + n + pad + t
  <2>1. CASE type \in HandshakeTypes
    BY <1>1, <2>1, HeaderFits
  <2>2. CASE type \notin HandshakeTypes
    BY <1>1, <2>2, HeaderFits
  <2>q. QED
    BY <2>1, <2>2, Zenon
<1>7. ValidateSend(h) = "OK" /\ validateCommon(h) = "OK"
  BY <1>1, HeaderFits, Zenon
<1>8. PICK o : o = MarshalFrame(f)
  BY Zenon
<1>9. o = [kind |-> "OK", header |-> h, sealed |-> sealed, len |-> HeaderSize + n + TagSize(h) + pad]
  BY <1>4, <1>5, <1>7, <1>8, Zenon DEF MarshalFrame
<1>10. o.kind = "OK" /\ o.header = h /\ o.sealed = sealed /\ o.len = 40 + n + t + pad
  BY <1>6, <1>9, Zenon DEF HeaderSize
<1>11. ~(o.len < HeaderSize) /\ o.len = FrameSize(h) /\ o.len \in Nat
  BY <1>6, <1>10 DEF HeaderSize
<1>12. (HeaderSize + n) - HeaderSize = n /\ o.len - ((HeaderSize + n) + TagSize(h)) = pad
  BY <1>6, <1>10 DEF HeaderSize
<1>14. Split(f, o)
  BY <1>1, <1>3, <1>4, <1>6, <1>10, <1>11, Zenon DEF Split, HeaderSize
<1>13. UnmarshalFrame(o) = [kind |-> "OK", frame |-> Frame(h, n, pad, sealed)]
  BY <1>3, <1>7, <1>10, <1>11, <1>12, Zenon DEF UnmarshalFrame
<1>q. QED
  BY <1>1, <1>2, <1>5, <1>8, <1>10, <1>11, <1>13, <1>14, Zenon

SealedFrame(type, p, pad) ==
  Frame(NewHeader(type, p.len, pad), p.len, pad,
        [aad |-> <<NewHeader(type, p.len, pad), pad>>, text |-> p])

(* Encrypt refuses only what does not fit into a frame.                    *)
LEMMA EncryptIs ==
  ASSUME NEW type \in EncryptedTypes, NEW p, p.len \in Nat, NEW pad \in 0..MaxUint8
  PROVE  LET fits == 56 + p.len + pad <= MaxFrameSize IN
         /\ fits => /\ Encrypt(type, p, pad) = [kind |-> "OK", frame |-> SealedFrame(type, p, pad)]
                    /\ FrameSize(NewHeader(type, p.len, pad)) <= MaxFrameSize
         /\ ~fits => Encrypt(type, p, pad) = Bad("PayloadTooLarge")
<1>1. PICK n \in Nat : n = p.len
  BY Zenon
<1>2. PICK h : h = NewHeader(type, n, pad)
  BY Zenon
<1>3. pad \in Nat /\ ~(pad > MaxUint8) /\ pad % (MaxUint8 + 1) = pad /\ MaxFrameSize \in Nat
  BY SmallMod, Limits
<1>4. type \notin HandshakeTypes
  BY Zenon DEF EncryptedTypes, HandshakeTypes
<1>5. FrameSize(h) = 56 + n + pad
  BY <1>2, <1>3, <1>4, HeaderFits
<1>6. HeaderSize + n + AEADTagSize + pad = 56 + n + pad
  BY <1>3 DEF HeaderSize, AEADTagSize
<1>7. CASE 56 + n + pad <= MaxFrameSize
  <2>1. ~(56 + n + pad > MaxFrameSize)
    BY <1>3, <1>7
  <2>2. ValidateSend(h) = "OK"
    BY <1>2, <1>3, <1>5, <1>7, HeaderFits, Zenon
  <2>3. PICK sealed : sealed = [aad |-> <<h, pad>>, text |-> p]
    BY Zenon
  <2>4. NewFrame(type, n, pad, sealed) = [kind |-> "OK", frame |-> Frame(h, n, pad, sealed)]
    BY <1>2, <1>3, <1>5, <2>1, Zenon DEF NewFrame
  <2>5. Encrypt(type, p, pad) = NewFrame(type, n, pad, sealed)
    BY <1>1, <1>2, <1>6, <2>1, <2>2, <2>3, Zenon DEF Encrypt
  <2>6. SealedFrame(type, p, pad) = Frame(h, n, pad, sealed)
    BY <1>1, <1>2, <2>3, Zenon DEF SealedFrame
  <2>q. QED
    BY <1>1, <1>2, <1>5, <1>7, <2>4, <2>5, <2>6, Zenon
<1>8. CASE ~(56 + n + pad <= MaxFrameSize)
  <2>1. HeaderSize + n + AEADTagSize + pad > MaxFrameSize
    BY <1>3, <1>6, <1>8
  <2>q. QED
    BY <1>1, <1>8, <2>1, Zenon DEF Encrypt
<1>q. QED
  BY <1>1, <1>7, <1>8, Zenon

(* A sealed frame opens to its payload.                                    *)
LEMMA DecryptBack ==
  ASSUME NEW type \in EncryptedTypes, NEW p, p.len \in Nat, NEW pad \in Nat,
         FrameSize(NewHeader(type, p.len, pad)) <= MaxFrameSize
  PROVE  ReceivePayload(SealedFrame(type, p, pad)) = Good(p)
<1>1. PICK h, f, s : /\ h = NewHeader(type, p.len, pad) /\ f = SealedFrame(type, p, pad)
                     /\ s = [aad |-> <<h, pad>>, text |-> p]
  BY Zenon
<1>2. h.type = type
  BY <1>1, Zenon DEF NewHeader
<1>3. f.header = h /\ f.padding = pad /\ f.sealed = s
  BY <1>1, Zenon DEF SealedFrame, Frame
<1>4. s # None /\ s.aad = <<h, pad>> /\ s.text = p
  BY <1>1, Zenon DEF None
<1>5. validateLengths(f) = "OK"
  BY <1>1, FrameBack DEF SealedFrame
<1>6. validateCommon(h) = "OK"
  BY <1>1, HeaderFits, ZenonT(40)
<1>7. Decrypt(f) = Good(p)
  BY <1>2, <1>3, <1>4, <1>5, <1>6, Zenon DEF Decrypt
<1>8. type # "ticket" /\ validSessionMessageType(type)
  BY Zenon DEF EncryptedTypes, validSessionMessageType
<1>q. QED
  BY <1>1, <1>2, <1>3, <1>7, <1>8, Zenon DEF ReceivePayload

-----------------------------------------------------------------------------
(* The outcome of a call as a function of it.                              *)

Encoded(c) ==
  IF c.via = "payload" THEN c.kind \in EncryptedTypes \ {"rekey"}
  ELSE MarshalBinary(c.message).kind = "OK"

Plain(c) == IF c.via = "payload" THEN c.payload ELSE MarshalBinary(c.message).payload

Sealed(c) ==
  IF c.via = "flight" THEN NewFlightFrame(c.kind, Plain(c)) ELSE Encrypt(c.kind, Plain(c), c.pad)

Opened(c, f) ==
  IF c.via = "flight" THEN validateHandshakeFrame(f, TypeOf(c.kind)) ELSE ReceivePayload(f)

(* The length of every payload.                                            *)
LEMMA PayloadLen ==
  ASSUME NEW m \in AnyMessage, MarshalBinary(m).kind = "OK"
  PROVE  MarshalBinary(m).payload.len \in Nat
<1>1. CASE m \in DataMessage
  <2>1. m.kind = "data"
    BY <1>1, Zenon DEF DataMessage
  <2>2. MarshalData(m).payload = DataPayload(4 + Total(m), TRUE, Write(m.fields, Total(m))) /\ Total(m) \in Nat
    BY <1>1, <2>1, Kinds, DataIs, Zenon
  <2>q. QED
    BY <2>1, <2>2, Kinds DEF DataPayload
<1>2. CASE m \in CloseMessage
  <2>1. m.kind = "close"
    BY <1>2, Zenon DEF CloseMessage
  <2>2. PICK size, n : size = m.text.size /\ n = Align4(TLVHeaderSize + size)
    BY Zenon
  <2>3. /\ n \in Nat
        /\ \/ MarshalClose(m) = Good(TextPayload(2, m.code, NoTLV, TRUE))
           \/ MarshalClose(m) =
                Good(TextPayload(2 + n, m.code, Write(<<Field(textTLVType, size)>>, n), TRUE))
    BY <1>2, <2>1, <2>2, Kinds, CloseIs, Zenon
  <2>4. \A k, x, y, z : TextPayload(k, x, y, z).len = k
    BY Zenon DEF TextPayload
  <2>5. MarshalClose(m).payload.len \in {2, 2 + n}
    <3>1. ASSUME NEW k, NEW x, NEW y, NEW z, MarshalClose(m) = Good(TextPayload(k, x, y, z))
          PROVE  MarshalClose(m).payload.len = k
      BY <2>4, <3>1, Results, SMTT(40)
    <3>q. QED
      BY <2>3, <3>1, Zenon
  <2>q. QED
    BY <2>1, <2>3, <2>5, Kinds, SMTT(40)
<1>3. CASE m \in ErrorMessage
  <2>1. m.kind = "error"
    BY <1>3, Zenon DEF ErrorMessage
  <2>2. m.text.size \in Nat /\ MarshalError(m) = Good(RawPayload(2 + m.text.size, TRUE))
    BY <1>3, <2>1, Kinds, ErrorIs, Zenon
  <2>q. QED
    BY <2>1, <2>2, Kinds, Results DEF RawPayload
<1>4. CASE m \in AckMessage
  <2>1. m.kind = "ack" /\ m.count \in Nat
    BY <1>4, Zenon DEF AckMessage
  <2>2. MarshalAck(m) = Good(AckPayload(AckSize(m.count), m.count))
    BY <2>1, Kinds, Results, SMTT(40) DEF MarshalAck
  <2>q. QED
    BY <2>1, <2>2, Kinds, Results DEF AckPayload, AckSize
<1>5. CASE m \in PingMessage
  <2>1. m.kind = "ping"
    BY <1>5, Zenon DEF PingMessage
  <2>q. QED
    BY <1>5, <2>1, Kinds, PingBack
<1>6. CASE m \in RekeyMessage
  <2>1. m.kind = "rekey"
    BY <1>6, Zenon DEF RekeyMessage
  <2>q. QED
    BY <1>6, <2>1, Kinds, RekeyBack
<1>7. CASE m \in Flight
  BY <1>7, FlightBack, SMTT(40)
<1>q. QED
  BY <1>1, <1>2, <1>3, <1>4, <1>5, <1>6, <1>7, Zenon DEF AnyMessage, Sendable

(* The kinds of calls.                                                     *)
LEMMA CallIs ==
  ASSUME NEW c \in Calls
  PROVE  /\ c.via \in {"send", "session", "flight", "payload", "peer"}
         /\ c.via # "payload" => c.message \in AnyMessage /\ c.kind = c.message.kind
         /\ c.via = "send" => c.message \in Sendable
         /\ c.via = "session" => c.message \in RekeyMessage
         /\ c.via = "flight" => c.message \in Flight /\ c.kind \in {"init", "response", "finish"}
         /\ c.via \in {"send", "session", "peer"} => c.kind \in EncryptedTypes
         /\ c.via \in {"send", "session", "payload"} => c.pad \in 0..MaxUint8
         /\ c.via = "payload" => AnyPayload(c)
         /\ c.via = "peer" => PeerOctets(c) /\ c.message \in Sendable /\ Encoded(c)
<1>1. CASE c.via = "send" /\ c.message \in Sendable /\ c.kind = c.message.kind /\ c.pad \in 0..MaxUint8
  <2>1. c.kind \in EncryptedTypes
    BY <1>1, Zenon DEF Sendable, EncryptedTypes, DataMessage, CloseMessage, ErrorMessage, AckMessage, PingMessage
  <2>q. QED
    BY <1>1, <2>1, Zenon DEF AnyMessage
<1>2. CASE c.via = "session" /\ c.message \in RekeyMessage /\ c.kind = "rekey" /\ c.pad \in 0..MaxUint8
  <2>1. c.kind \in EncryptedTypes /\ c.message.kind = "rekey"
    BY <1>2, Zenon DEF EncryptedTypes, RekeyMessage
  <2>q. QED
    BY <1>2, <2>1, Zenon DEF AnyMessage
<1>3. CASE c.via = "flight" /\ c.message \in Flight /\ c.kind = c.message.kind
  <2>1. c.kind \in {"init", "response", "finish"}
    BY <1>3, Zenon DEF Flight
  <2>q. QED
    BY <1>3, <2>1, Zenon DEF AnyMessage
<1>4. CASE c.via = "payload" /\ c.kind \in STRING /\ c.pad \in 0..MaxUint8 /\ AnyPayload(c)
  BY <1>4, Zenon
<1>5. CASE c.via = "peer" /\ PeerOctets(c)
  <2>1. c.message \in Sendable /\ c.kind = c.message.kind /\ Encoded(c)
    BY <1>5, Zenon DEF PeerOctets, Encoded
  <2>2. c.kind \in EncryptedTypes
    BY <2>1, Zenon DEF Sendable, EncryptedTypes, DataMessage, CloseMessage, ErrorMessage, AckMessage, PingMessage
  <2>q. QED
    BY <1>5, <2>1, <2>2, Zenon DEF AnyMessage
<1>q. QED
  BY <1>1, <1>2, <1>3, <1>4, <1>5, CallsAssumption, Zenon

(* What becomes of an encoded message: sealed if it fits, and then it is   *)
(* read and opened to what was sealed.                                     *)
LEMMA Carried ==
  ASSUME NEW c \in Calls, c.via # "peer", Encoded(c)
  PROVE  /\ Plain(c).len \in Nat
         /\ c.via # "flight" => c.kind \in EncryptedTypes /\ c.pad \in 0..MaxUint8
         /\ Sealed(c).kind # "OK" =>
              /\ c.via # "flight" /\ Sealed(c) = Bad("PayloadTooLarge")
              /\ 56 + Plain(c).len + c.pad > MaxFrameSize
         /\ Sealed(c).kind = "OK" =>
              /\ MarshalFrame(Sealed(c).frame).kind = "OK"
              /\ UnmarshalFrame(MarshalFrame(Sealed(c).frame)) = [kind |-> "OK", frame |-> Sealed(c).frame]
              /\ Opened(c, Sealed(c).frame) = Good(Plain(c))
              /\ Split(Sealed(c).frame, MarshalFrame(Sealed(c).frame))
              /\ c.via # "flight" => 56 + Plain(c).len + c.pad <= MaxFrameSize
<1>1. PICK p : p = Plain(c)
  BY Zenon
<1>2. p.len \in Nat
  <2>1. CASE c.via = "payload"
    <3>1. c.kind \in {"data", "ping", "close", "ack", "error"} /\ p = c.payload /\ AnyPayload(c)
      BY <1>1, <2>1, CallIs, Zenon DEF Encoded, EncryptedTypes, Plain
    <3>q. QED
      BY <3>1, Zenon DEF AnyPayload
  <2>2. CASE c.via # "payload"
    BY <1>1, <2>2, CallIs, PayloadLen, Zenon DEF Encoded, Plain
  <2>q. QED
    BY <2>1, <2>2, Zenon
<1>3. CASE c.via = "flight"
  <2>1. PICK k : k = c.kind /\ k \in {"init", "response", "finish"}
    BY <1>3, CallIs, Zenon
  <2>2. p.len \in {36, 64, 96}
    BY <1>1, <1>3, CallIs, FlightBack, Zenon DEF Encoded, Plain
  <2>3. PICK t : t = TypeOf(k) /\ t \in HandshakeTypes
    BY <2>1, Zenon DEF TypeOf, HandshakeTypes
  <2>4. PICK h : h = NewHeader(t, p.len, 0)
    BY Zenon
  <2>5. FrameSize(h) <= MaxFrameSize /\ validateCommon(h) = "OK"
    <3>1. FrameSize(h) = 40 + p.len + 0
      BY <1>2, <2>3, <2>4, HeaderFits
    <3>2. FrameSize(h) <= MaxFrameSize
      BY <2>2, <3>1, Limits
    <3>q. QED
      BY <1>2, <2>4, <3>2, HeaderFits, Zenon
  <2>6. PICK f : f = Frame(h, p.len, 0, p)
    BY Zenon
  <2>7. NewFlightFrame(k, p) = [kind |-> "OK", frame |-> f]
    <3>1. CASE k = "response"
      <4>1. t = "response" /\ 0 % (MaxUint8 + 1) = 0 /\ ~(0 > MaxUint8) /\ ~(FrameSize(h) > MaxFrameSize)
        <5>1. 0 % (MaxUint8 + 1) = 0
          BY SmallMod, Limits
        <5>2. FrameSize(h) = 40 + p.len + 0
          BY <1>2, <2>3, <2>4, HeaderFits
        <5>q. QED
          BY <1>2, <2>3, <2>5, <3>1, <5>1, <5>2, Limits DEF TypeOf
      <4>q. QED
        BY <2>4, <2>6, <3>1, <4>1, Zenon DEF NewFlightFrame, NewFrame
    <3>2. CASE k # "response"
      BY <2>3, <2>4, <2>6, <3>2, Zenon DEF NewFlightFrame
    <3>q. QED
      BY <3>1, <3>2, Zenon
  <2>8. Sealed(c) = [kind |-> "OK", frame |-> f]
    BY <1>1, <1>3, <2>1, <2>7, Zenon DEF Sealed
  <2>9. MarshalFrame(f).kind = "OK" /\ UnmarshalFrame(MarshalFrame(f)) = [kind |-> "OK", frame |-> f]
        /\ validateLengths(f) = "OK" /\ Split(f, MarshalFrame(f))
    BY <1>2, <2>4, <2>5, <2>6, FrameBack
  <2>10. f.header = h /\ f.sealed = p /\ h.type = t
    BY <2>4, <2>6, Zenon DEF Frame, NewHeader
  <2>11. Opened(c, f) = Good(p)
    BY <1>3, <2>1, <2>3, <2>5, <2>9, <2>10, SMTT(40) DEF Opened, validateHandshakeFrame
  <2>q. QED
    BY <1>1, <1>2, <1>3, <2>8, <2>9, <2>11, SMTT(40)
<1>4. CASE c.via # "flight"
  <2>1. PICK type \in EncryptedTypes : type = c.kind
    BY <1>4, CallIs, Zenon DEF Encoded
  <2>2. PICK pad \in 0..MaxUint8 : pad = c.pad
    BY <1>4, CallIs, Zenon
  <2>3. Sealed(c) = Encrypt(type, p, pad)
    BY <1>1, <1>4, <2>1, <2>2, Zenon DEF Sealed
  <2>4. pad \in Nat /\ MaxFrameSize \in Nat
    BY Limits
  <2>5. CASE 56 + p.len + pad <= MaxFrameSize
    <3>1. PICK f : f = SealedFrame(type, p, pad)
      BY Zenon
    <3>2. Sealed(c) = [kind |-> "OK", frame |-> f] /\ FrameSize(NewHeader(type, p.len, pad)) <= MaxFrameSize
      BY <1>2, <2>3, <2>5, <3>1, EncryptIs, Zenon
    <3>3. /\ MarshalFrame(f).kind = "OK" /\ UnmarshalFrame(MarshalFrame(f)) = [kind |-> "OK", frame |-> f]
          /\ Split(f, MarshalFrame(f))
      BY <1>2, <2>4, <3>1, <3>2, FrameBack DEF SealedFrame
    <3>4. Opened(c, f) = Good(p)
      BY <1>2, <1>4, <2>4, <3>1, <3>2, DecryptBack, Zenon DEF Opened
    <3>q. QED
      BY <1>1, <1>2, <1>4, <2>1, <2>2, <2>5, <3>2, <3>3, <3>4
  <2>6. CASE ~(56 + p.len + pad <= MaxFrameSize)
    <3>1. Sealed(c) = Bad("PayloadTooLarge")
      BY <1>2, <2>3, <2>6, EncryptIs, Zenon
    <3>2. 56 + p.len + pad > MaxFrameSize /\ Sealed(c).kind # "OK"
      BY <1>2, <2>4, <2>6, <3>1, Results, SMTT(40)
    <3>q. QED
      BY <1>1, <1>2, <1>4, <2>1, <2>2, <3>1, <3>2, Zenon
  <2>q. QED
    BY <2>5, <2>6, Zenon
<1>q. QED
  BY <1>3, <1>4, Zenon

(* What a peer's octets are taken for.                                     *)
LEMMA Peers ==
  ASSUME NEW c \in Calls, c.via = "peer"
  PROVE  LET o == c.octets
             r == UnmarshalFrame(o)
         IN /\ r.kind # "OK" => ~Acceptable(o)
            /\ r.kind = "OK" =>
                 /\ Split(r.frame, o)
                 /\ ReceivePayload(r.frame).kind = "OK" =>
                      ReceivePayload(r.frame).payload = Plain(c)
                 /\ ReceivePayload(r.frame).kind # "OK" => ~Acceptable(o)
<1>1. PICK o, h, r, f : o = c.octets /\ h = o.header /\ r = UnmarshalFrame(o) /\ f = r.frame
  BY Zenon
<1>2. /\ h \in HeaderSet /\ o.len \in Int
      /\ o.sealed = None \/ o.sealed.text = Plain(c)
  BY <1>1, CallIs DEF PeerOctets, Plain
<1>3. PICK n, pad \in Nat : n = h.payloadLength /\ pad = h.padLength
  BY <1>2, Zenon DEF HeaderSet
<1>4. PICK t \in {0, 16} : t = TagSize(h)
  BY Zenon DEF TagSize, AEADTagSize
<1>5. FrameSize(h) = 40 + n + pad + t
  BY <1>3, <1>4, Zenon DEF FrameSize, HeaderSize
<1>6. CASE r.kind # "OK"
  <2>1. ASSUME Acceptable(o) PROVE r.kind = "OK"
    <3>1. validateCommon(h) = "OK" /\ o.len = FrameSize(h)
      BY <1>1, <2>1, Zenon DEF Acceptable
    <3>2. ~(o.len < HeaderSize)
      BY <1>3, <1>4, <1>5, <3>1 DEF HeaderSize
    <3>q. QED
      BY <1>1, <3>1, <3>2, Zenon DEF UnmarshalFrame
  <2>q. QED
    BY <1>1, <1>6, <2>1, Zenon
<1>7. CASE r.kind = "OK"
  <2>1. /\ validateCommon(h) = "OK" /\ o.len = FrameSize(h)
        /\ f = Frame(h, (HeaderSize + n) - HeaderSize, o.len - ((HeaderSize + n) + TagSize(h)), o.sealed)
    <3>1. \A k : k # "OK" => Bad(k).kind # "OK"
      BY Results, Zenon
    <3>2. ~(o.len < HeaderSize)
      BY <1>1, <1>7, Results, Zenon DEF UnmarshalFrame
    <3>3. validateCommon(h) = "OK"
      BY <1>1, <1>7, <3>1, <3>2, Zenon DEF UnmarshalFrame
    <3>4. o.len = FrameSize(h)
      BY <1>1, <1>7, <3>2, <3>3, Results, Zenon DEF UnmarshalFrame
    <3>q. QED
      BY <1>1, <1>3, <3>2, <3>3, <3>4, Zenon DEF UnmarshalFrame
  <2>2. (HeaderSize + n) - HeaderSize = n /\ o.len - ((HeaderSize + n) + TagSize(h)) = pad
    BY <1>3, <1>4, <1>5, <2>1 DEF HeaderSize
  <2>3. f.header = h /\ f.payload = n /\ f.padding = pad /\ f.sealed = o.sealed
    BY <2>1, <2>2, Zenon DEF Frame
  <2>4. ~(FrameSize(h) > MaxFrameSize)
    BY <2>1, Zenon DEF validateCommon
  <2>5. HeaderSize + n + TagSize(h) + pad = o.len /\ o.len <= MaxFrameSize
    BY <1>3, <1>4, <1>5, <2>1, <2>4, Limits, SMTT(40) DEF HeaderSize
  <2>11. Split(f, o)
    BY <1>3, <2>3, <2>5, Zenon DEF Split
  <2>6. validateLengths(f) = "OK"
    BY <1>3, <2>3, Zenon DEF validateLengths
  <2>7. PICK x : x = ReceivePayload(f)
    BY Zenon
  <2>8. x = IF h.type = "ticket" \/ ~validSessionMessageType(h.type) THEN Bad("MessageType")
            ELSE IF h.type \notin EncryptedTypes THEN Bad("UnencryptedType")
            ELSE IF o.sealed = None \/ o.sealed.aad # <<h, pad>> THEN Bad("Authentication")
            ELSE Good(o.sealed.text)
    BY <2>1, <2>3, <2>6, <2>7, ZenonT(40) DEF ReceivePayload, Decrypt
  <2>9. ASSUME x.kind = "OK" PROVE x.payload = Plain(c)
    <3>1. x = Good(o.sealed.text) /\ o.sealed # None
      BY <2>8, <2>9, Results, SMTT(40)
    <3>q. QED
      BY <1>2, <3>1, Results, Zenon
  <2>10. ASSUME Acceptable(o) PROVE x.kind = "OK"
    <3>1. o.sealed # None /\ o.sealed.aad = <<h, pad>> /\ h.type \in EncryptedTypes
      BY <1>1, <1>3, <2>10, Zenon DEF Acceptable
    <3>2. h.type # "ticket" /\ validSessionMessageType(h.type)
      BY <3>1, Zenon DEF EncryptedTypes, validSessionMessageType
    <3>q. QED
      BY <2>8, <3>1, <3>2, Results, Zenon
  <2>q. QED
    BY <1>1, <1>7, <2>7, <2>9, <2>10, <2>11, Zenon
<1>q. QED
  BY <1>1, <1>6, <1>7, Zenon

-----------------------------------------------------------------------------
(* The inductive invariant: the state as a function of the call.           *)

Stages == {"called", "marshaled", "framed", "sent", "read", "received", "rejected", "refused"}

Outbound ==
  /\ stage \in Stages \ {"called", "refused"} => Encoded(call) /\ payload = Plain(call)
  /\ stage \in Stages \ {"called", "refused", "marshaled"} =>
       Sealed(call).kind = "OK" /\ frame = Sealed(call).frame
  /\ stage \in {"sent", "read", "received", "rejected"} => octets = MarshalFrame(frame)
  /\ stage \in {"received", "rejected"} =>
       /\ got = UnmarshalBinary(call.kind, payload)
       /\ stage = "received" <=> got.kind = call.kind
  /\ stage = "refused" =>
       \/ ~Encoded(call) /\ (call.via # "payload" => got = MarshalBinary(call.message))
       \/ Encoded(call) /\ Sealed(call).kind # "OK" /\ got = Sealed(call)

Inbound ==
  /\ stage \in {"called", "sent", "read", "received", "rejected"}
  /\ stage # "called" => octets = call.octets
  /\ stage \in {"read", "received"} =>
       UnmarshalFrame(octets).kind = "OK" /\ frame = UnmarshalFrame(octets).frame
  /\ stage = "received" => payload = Plain(call) /\ got = call.message
  /\ stage = "rejected" => ~Acceptable(call.octets)

WireInv ==
  /\ call \in Calls /\ stage \in Stages
  /\ call.via # "peer" => Outbound
  /\ call.via = "peer" => Inbound

(* A call that has not started.                                            *)
LEMMA InitWire == ASSUME Init PROVE WireInv
BY Zenon DEF Init, WireInv, Outbound, Inbound, Stages

(* Every step of a call, from Marshal to Receive, keeps the invariant.     *)
LEMMA NextWire == ASSUME WireInv, [Next]_vars PROVE WireInv'
<1>0. call \in Calls /\ stage \in Stages
  BY Zenon DEF WireInv
<1>1. CASE Marshal
  <2>1. PICK r : r = MarshalBinary(call.message)
    BY Zenon
  <2>2. /\ stage = "called" /\ call.via \in {"send", "session", "flight"} /\ call' = call
        /\ \/ r.kind # "OK" /\ stage' = "refused" /\ got' = r
           \/ r.kind = "OK" /\ stage' = "marshaled" /\ payload' = r.payload
    BY <1>1, <2>1, Zenon DEF Marshal, Refuse
  <2>3. Encoded(call) <=> r.kind = "OK"
    BY <2>1, <2>2, Zenon DEF Encoded
  <2>4. Plain(call) = r.payload
    BY <2>1, <2>2, Zenon DEF Plain
  <2>q. QED
    BY <1>0, <2>1, <2>2, <2>3, <2>4, Zenon DEF WireInv, Outbound, Stages
<1>2. CASE SendPayload
  <2>1. /\ stage = "called" /\ call.via = "payload" /\ call' = call
        /\ \/ call.kind \notin EncryptedTypes \ {"rekey"} /\ stage' = "refused"
           \/ call.kind \in EncryptedTypes \ {"rekey"} /\ stage' = "marshaled" /\ payload' = call.payload
    BY <1>2, Zenon DEF SendPayload, Refuse, validSessionMessageType, EncryptedTypes
  <2>2. Encoded(call) <=> call.kind \in EncryptedTypes \ {"rekey"}
    BY <2>1, Zenon DEF Encoded
  <2>3. Plain(call) = call.payload
    BY <2>1, Zenon DEF Plain
  <2>q. QED
    BY <1>0, <2>1, <2>2, <2>3, Zenon DEF WireInv, Outbound, Stages
<1>3. CASE MakeFrame
  <2>1. call.via # "peer" /\ stage = "marshaled"
    BY <1>3, Zenon DEF MakeFrame, WireInv, Inbound
  <2>2. Encoded(call) /\ payload = Plain(call)
    BY <2>1, Zenon DEF WireInv, Outbound, Stages
  <2>3. PICK r : r = Sealed(call)
    BY Zenon
  <2>4. /\ call' = call
        /\ \/ r.kind # "OK" /\ stage' = "refused" /\ got' = r
           \/ r.kind = "OK" /\ stage' = "framed" /\ frame' = r.frame /\ payload' = payload
    BY <1>3, <2>2, <2>3, Zenon DEF MakeFrame, Refuse, Sealed
  <2>q. QED
    BY <1>0, <2>1, <2>2, <2>3, <2>4, Zenon DEF WireInv, Outbound, Stages
<1>4. CASE WriteFrame
  <2>1. call.via # "peer" /\ stage = "framed"
    BY <1>4, Zenon DEF WriteFrame, WireInv, Inbound
  <2>2. Encoded(call) /\ payload = Plain(call) /\ Sealed(call).kind = "OK" /\ frame = Sealed(call).frame
    BY <2>1, Zenon DEF WireInv, Outbound, Stages
  <2>3. MarshalFrame(frame).kind = "OK"
    BY <1>0, <2>1, <2>2, Carried, Zenon
  <2>4. stage' = "sent" /\ octets' = MarshalFrame(frame) /\ UNCHANGED <<call, payload, frame, got>>
    BY <1>4, <2>3, Zenon DEF WriteFrame
  <2>q. QED
    BY <1>0, <2>1, <2>2, <2>4, Zenon DEF WireInv, Outbound, Stages
<1>5. CASE PeerSends
  <2>1. call.via = "peer" /\ stage' = "sent" /\ octets' = call.octets /\ call' = call
    BY <1>5, Zenon DEF PeerSends
  <2>q. QED
    BY <1>0, <2>1, Zenon DEF WireInv, Inbound, Stages
<1>6. CASE ReadFrame
  <2>1. PICK r : r = UnmarshalFrame(octets)
    BY Zenon
  <2>2. /\ stage = "sent" /\ call' = call /\ octets' = octets /\ payload' = payload
        /\ \/ r.kind # "OK" /\ stage' = "rejected"
           \/ r.kind = "OK" /\ stage' = "read" /\ frame' = r.frame
    BY <1>6, <2>1, Zenon DEF ReadFrame, Refuse
  <2>3. CASE call.via # "peer"
    <3>1. /\ Encoded(call) /\ payload = Plain(call) /\ Sealed(call).kind = "OK"
          /\ frame = Sealed(call).frame /\ octets = MarshalFrame(frame)
      BY <2>2, <2>3, Zenon DEF WireInv, Outbound, Stages
    <3>2. r = [kind |-> "OK", frame |-> frame]
      BY <1>0, <2>1, <2>3, <3>1, Carried, Zenon
    <3>3. stage' = "read" /\ frame' = frame
      BY <2>2, <3>2, Zenon
    <3>q. QED
      BY <1>0, <2>2, <2>3, <3>1, <3>3, Zenon DEF WireInv, Outbound, Stages
  <2>4. CASE call.via = "peer"
    <3>1. octets = call.octets
      BY <2>2, <2>4, Zenon DEF WireInv, Inbound
    <3>2. r.kind # "OK" => ~Acceptable(call.octets)
      BY <1>0, <2>1, <2>4, <3>1, Peers, Zenon
    <3>q. QED
      BY <1>0, <2>1, <2>2, <2>4, <3>1, <3>2, Zenon DEF WireInv, Inbound, Stages
  <2>q. QED
    BY <2>3, <2>4, Zenon
<1>7. CASE Receive
  <2>1. PICK r, m : r = Opened(call, frame) /\ m = UnmarshalBinary(call.kind, r.payload)
    BY Zenon
  <2>2. /\ stage = "read" /\ call' = call /\ octets' = octets /\ frame' = frame
        /\ \/ r.kind # "OK" /\ stage' = "rejected" /\ got' = r
           \/ /\ r.kind = "OK" /\ payload' = r.payload /\ got' = m
              /\ stage' = IF m.kind = call.kind THEN "received" ELSE "rejected"
    BY <1>7, <2>1, Zenon DEF Receive, Refuse, Opened
  <2>3. CASE call.via # "peer"
    <3>1. /\ Encoded(call) /\ payload = Plain(call) /\ Sealed(call).kind = "OK"
          /\ frame = Sealed(call).frame /\ octets = MarshalFrame(frame)
      BY <2>2, <2>3, Zenon DEF WireInv, Outbound, Stages
    <3>2. r = Good(payload)
      BY <1>0, <2>1, <2>3, <3>1, Carried, Zenon
    <3>3. r.kind = "OK" /\ r.payload = payload
      BY <3>2, Results, Zenon
    <3>4. /\ payload' = payload /\ got' = UnmarshalBinary(call.kind, payload)
          /\ stage' \in {"received", "rejected"} /\ (stage' = "received" <=> got'.kind = call.kind)
      BY <2>1, <2>2, <3>3, Zenon
    <3>q. QED
      BY <1>0, <2>2, <2>3, <3>1, <3>4, Zenon DEF WireInv, Outbound, Stages
  <2>4. CASE call.via = "peer"
    <3>1. octets = call.octets /\ UnmarshalFrame(octets).kind = "OK" /\ frame = UnmarshalFrame(octets).frame
      BY <2>2, <2>4, Zenon DEF WireInv, Inbound
    <3>2. r = ReceivePayload(frame)
      BY <2>1, <2>4, Zenon DEF Opened
    <3>3. /\ r.kind # "OK" => ~Acceptable(call.octets)
          /\ r.kind = "OK" => r.payload = Plain(call)
      BY <1>0, <2>4, <3>1, <3>2, Peers, Zenon
    <3>4. r.kind = "OK" => m = call.message /\ m.kind = call.kind
      <4>1. /\ call.message \in AnyMessage /\ call.kind = call.message.kind
            /\ MarshalBinary(call.message).kind = "OK" /\ Plain(call) = MarshalBinary(call.message).payload
        BY <1>0, <2>4, CallIs, Zenon DEF Encoded, Plain
      <4>q. QED
        BY <2>1, <3>3, <4>1, MessageBack, Zenon
    <3>q. QED
      BY <1>0, <2>2, <2>4, <3>1, <3>3, <3>4, Zenon DEF WireInv, Inbound, Stages
  <2>q. QED
    BY <2>3, <2>4, Zenon
<1>8. CASE UNCHANGED vars
  BY <1>8, Zenon DEF vars, WireInv, Outbound, Inbound
<1>q. QED
  BY <1>1, <1>2, <1>3, <1>4, <1>5, <1>6, <1>7, <1>8, Zenon DEF Next, Returned

(* The state is at all times a function of the call and of how far it has  *)
(* come, from Send (session_send.go:14) to Receive                         *)
(* (session_receive.go:17).                                                *)
THEOREM WireInductive == Spec => []WireInv
<1>1. Init => WireInv
  BY InitWire, Zenon
<1>2. WireInv /\ [Next]_vars => WireInv'
  BY NextWire, Zenon
<1>q. QED
  BY <1>1, <1>2, PTL DEF Spec

(* The invariant implies Delivered.                                        *)
LEMMA InvDelivered == ASSUME WireInv PROVE Delivered
<1>0. call \in Calls
  BY Zenon DEF WireInv
<1>1. ASSUME call.via \notin {"payload", "peer"}, stage \in {"received", "rejected"}
      PROVE  stage = "received" /\ got = call.message
  <2>1. /\ Encoded(call) /\ payload = Plain(call) /\ got = UnmarshalBinary(call.kind, payload)
        /\ stage = "received" <=> got.kind = call.kind
    BY <1>1, Zenon DEF WireInv, Outbound, Stages
  <2>2. /\ call.message \in AnyMessage /\ call.kind = call.message.kind
        /\ MarshalBinary(call.message).kind = "OK" /\ Plain(call) = MarshalBinary(call.message).payload
    BY <1>0, <1>1, <2>1, CallIs, Zenon DEF Encoded, Plain
  <2>3. got = call.message
    BY <2>1, <2>2, MessageBack, Zenon
  <2>q. QED
    BY <2>1, <2>2, <2>3, Zenon
<1>2. ASSUME call.via = "session", stage = "refused" PROVE FALSE
  <2>1. call.message \in RekeyMessage /\ call.message.kind = "rekey"
    BY <1>0, <1>2, CallIs, Zenon DEF RekeyMessage
  <2>2. MarshalBinary(call.message).kind = "OK" /\ MarshalBinary(call.message).payload.len = 36
    BY <2>1, Kinds, RekeyBack, Zenon
  <2>3. Encoded(call) /\ Plain(call).len = 36
    BY <1>2, <2>2, Zenon DEF Encoded, Plain
  <2>4. Sealed(call).kind # "OK"
    BY <1>2, <2>3, Zenon DEF WireInv, Outbound
  <2>5. 56 + 36 + call.pad > MaxFrameSize
    BY <1>0, <1>2, <2>3, <2>4, Carried, Zenon
  <2>6. call.pad \in 0..MaxUint8
    BY <1>0, <1>2, CallIs, Zenon
  <2>q. QED
    BY <2>5, <2>6, Limits, SMTT(40)
<1>3. ASSUME call.via = "peer", stage = "received" PROVE got = call.message
  BY <1>3, Zenon DEF WireInv, Inbound
<1>4. ASSUME call.via = "peer", stage = "rejected" PROVE ~Acceptable(call.octets)
  BY <1>4, Zenon DEF WireInv, Inbound
<1>5. Typed => stage # "rejected"
  BY <1>1, Zenon DEF Typed
<1>6. call.via # "payload" /\ stage = "received" => got = call.message
  BY <1>1, <1>3, Zenon
<1>q. QED
  BY <1>2, <1>4, <1>5, <1>6, Zenon DEF Delivered

(* What Send accepts is what Receive returns, whole and never refused on   *)
(* the way (session_send.go:14, session_receive.go:17), for all messages   *)
(* and limits.                                                             *)
THEOREM AllDelivered == Spec => []Delivered
<1>1. WireInv => Delivered
  BY InvDelivered, Zenon
<1>q. QED
  BY <1>1, WireInductive, PTL

(* ValidateFrameSize looks at what Send will look at.                      *)
LEMMA Preflight ==
  ASSUME NEW m \in DataMessage, NEW pad \in Nat
  PROVE  /\ MarshalData(m).kind # "OK" => ValidateFrameSize(m, pad) = MarshalData(m).kind
         /\ MarshalData(m).kind = "OK" =>
              LET n == MarshalData(m).payload.len IN
              /\ EncryptedDataLen(m) = Ok(n)
              /\ 56 + n + pad > MaxFrameSize => ValidateFrameSize(m, pad) = "PayloadTooLarge"
              /\ 56 + n + pad <= MaxFrameSize => ValidateFrameSize(m, pad) = "OK"
<1>1. PICK e : e = EncryptedDataLen(m)
  BY Zenon
<1>2. CASE MarshalData(m).kind # "OK"
  BY <1>1, <1>2, DataIs, Zenon DEF ValidateFrameSize
<1>3. CASE MarshalData(m).kind = "OK"
  <2>1. PICK n \in Nat : n = MarshalData(m).payload.len /\ e = Ok(n)
    <3>1. MarshalData(m).payload.len = 4 + Total(m)
      <4>1. MarshalData(m).payload = DataPayload(4 + Total(m), TRUE, Write(m.fields, Total(m)))
        BY <1>3, DataIs, Zenon
      <4>q. QED
        BY <4>1 DEF DataPayload
    <3>2. Total(m) \in Nat /\ e = Ok(4 + Total(m))
      BY <1>1, <1>3, DataIs, Zenon
    <3>q. QED
      BY <3>1, <3>2, SMTT(40)
  <2>2. e.kind = "OK" /\ e.n = n
    BY <2>1, Results, Zenon
  <2>3. HeaderSize + n + AEADTagSize + pad = 56 + n + pad
    BY DEF HeaderSize, AEADTagSize
  <2>4. ValidateFrameSize(m, pad) = IF 56 + n + pad > MaxFrameSize THEN "PayloadTooLarge" ELSE "OK"
    BY <1>1, <2>2, <2>3, Zenon DEF ValidateFrameSize
  <2>5. 56 + n + pad <= MaxFrameSize <=> ~(56 + n + pad > MaxFrameSize)
    BY Limits, SMTT(40)
  <2>q. QED
    BY <1>1, <1>3, <2>1, <2>4, <2>5, Zenon
<1>q. QED
  BY <1>2, <1>3, Zenon

(* The invariant implies SizesExact.                                       *)
LEMMA InvSizes == ASSUME WireInv PROVE SizesExact
<1>0. call \in Calls
  BY Zenon DEF WireInv
<1>1. PICK m : m = call.message
  BY Zenon
<1>2. ASSUME call.via = "send", call.kind = "data"
      PROVE  /\ stage = "refused" => got.kind = ValidateFrameSize(m, call.pad)
             /\ stage = "marshaled" => EncryptedDataLen(m) = Ok(payload.len)
             /\ stage \in {"framed", "sent", "received"} => ValidateFrameSize(m, call.pad) = "OK"
  <2>1. m \in DataMessage /\ m.kind = "data" /\ call.pad \in Nat
    <3>1. m \in Sendable /\ m.kind = "data" /\ call.pad \in 0..MaxUint8
      BY <1>0, <1>1, <1>2, CallIs, Zenon
    <3>q. QED
      BY <3>1, Limits DEF Sendable, CloseMessage, ErrorMessage, AckMessage, PingMessage
  <2>2. PICK r : r = MarshalData(m)
    BY Zenon
  <2>3. (Encoded(call) <=> r.kind = "OK") /\ Plain(call) = r.payload /\ MarshalBinary(m) = r
    BY <1>1, <1>2, <2>1, <2>2, Kinds, Zenon DEF Encoded, Plain
  <2>4. CASE stage = "refused"
    <3>1. CASE r.kind # "OK"
      <4>1. got = r
        BY <1>1, <1>2, <2>3, <2>4, <3>1, Zenon DEF WireInv, Outbound
      <4>q. QED
        BY <2>1, <2>2, <2>4, <3>1, <4>1, Preflight, Zenon
    <3>2. CASE r.kind = "OK"
      <4>1. Sealed(call).kind # "OK" /\ got = Sealed(call)
        BY <1>2, <2>3, <2>4, <3>2, Zenon DEF WireInv, Outbound
      <4>2. Sealed(call) = Bad("PayloadTooLarge") /\ 56 + r.payload.len + call.pad > MaxFrameSize
        BY <1>0, <1>2, <2>3, <3>2, <4>1, Carried, Zenon
      <4>3. got.kind = "PayloadTooLarge"
        BY <4>1, <4>2, Results, Zenon
      <4>q. QED
        BY <2>1, <2>2, <2>4, <3>2, <4>2, <4>3, Preflight, Zenon
    <3>q. QED
      BY <3>1, <3>2, Zenon
  <2>5. CASE stage = "marshaled"
    <3>1. r.kind = "OK" /\ payload = r.payload
      BY <1>2, <2>3, <2>5, Zenon DEF WireInv, Outbound, Stages
    <3>q. QED
      BY <2>1, <2>2, <2>5, <3>1, Preflight, Zenon
  <2>6. CASE stage \in {"framed", "sent", "received"}
    <3>1. r.kind = "OK" /\ Sealed(call).kind = "OK"
      BY <1>2, <2>3, <2>6, Zenon DEF WireInv, Outbound, Stages
    <3>2. 56 + r.payload.len + call.pad <= MaxFrameSize
      BY <1>0, <1>2, <2>3, <3>1, Carried, ZenonT(40)
    <3>q. QED
      BY <2>1, <2>2, <2>6, <3>1, <3>2, Preflight, Zenon
  <2>q. QED
    BY <2>4, <2>5, <2>6, Zenon
<1>3. ASSUME call.via = "send", call.kind = "close", stage = "refused", m.text.utf8, ~(m.code > 3)
      PROVE  HeaderSize + 2 + Align4(TLVHeaderSize + m.text.size) + AEADTagSize + call.pad > MaxFrameSize
  <2>1. m \in CloseMessage /\ m.kind = "close" /\ call.pad \in Nat
    <3>1. m \in Sendable /\ m.kind = "close" /\ call.pad \in 0..MaxUint8
      BY <1>0, <1>1, <1>3, CallIs, Zenon
    <3>q. QED
      BY <3>1, Limits, SMTT(40) DEF Sendable, DataMessage, ErrorMessage, AckMessage, PingMessage
  <2>2. PICK size, n, r : size = m.text.size /\ n = Align4(TLVHeaderSize + size) /\ r = MarshalClose(m)
    BY Zenon
  <2>3. size \in Nat /\ n \in Nat /\ m.code \in Nat /\ m.code <= 3
    <3>1. m.code \in Nat
      BY <2>1, Zenon DEF CloseMessage
    <3>2. size \in Nat /\ n \in Nat
      BY <2>1, <2>2, CloseIs, Zenon
    <3>q. QED
      BY <1>3, <3>1, <3>2
  <2>4. (Encoded(call) <=> r.kind = "OK") /\ Plain(call) = r.payload
    BY <1>1, <1>3, <2>1, <2>2, Kinds, Zenon DEF Encoded, Plain
  <2>5. 56 + 2 + n + call.pad > MaxFrameSize
    <3>1. CASE ~(size <= MaxReasonSize)
      <4>1. ~(2 + n <= MaxEncryptedPayloadSize)
        BY <2>2, <2>3, <3>1, ReasonFits, Zenon
      <4>q. QED
        BY <2>1, <2>3, <4>1, Limits
    <3>2. CASE size <= MaxReasonSize
      <4>1. /\ size = 0 => r = Good(TextPayload(2, m.code, NoTLV, TRUE))
            /\ size # 0 => r = Good(TextPayload(2 + n, m.code, Write(<<Field(textTLVType, size)>>, n), TRUE))
        BY <1>3, <2>1, <2>2, <2>3, <3>2, CloseIs, Zenon
      <4>2. r.kind = "OK" /\ r.payload.len \in {2, 2 + n}
        <5>1. ASSUME NEW k, NEW x, NEW y, NEW z, r = Good(TextPayload(k, x, y, z))
              PROVE  r.kind = "OK" /\ r.payload.len = k
          BY <5>1, Results, SMTT(40) DEF TextPayload
        <5>q. QED
          BY <4>1, <5>1, ZenonT(40)
      <4>3. Sealed(call).kind # "OK"
        BY <1>3, <2>4, <4>2, Zenon DEF WireInv, Outbound
      <4>4. 56 + r.payload.len + call.pad > MaxFrameSize
        BY <1>0, <1>3, <2>4, <4>2, <4>3, Carried, ZenonT(40)
      <4>q. QED
        BY <2>1, <2>3, <4>2, <4>4, Limits, SMTT(40)
    <3>q. QED
      BY <3>1, <3>2, Zenon
  <2>q. QED
    BY <2>1, <2>2, <2>3, <2>5 DEF HeaderSize, AEADTagSize
<1>4. ASSUME call.via = "send", call.kind = "error", stage = "refused", m.text.utf8
      PROVE  HeaderSize + 2 + m.text.size + AEADTagSize + call.pad > MaxFrameSize
  <2>1. m \in ErrorMessage /\ m.kind = "error" /\ call.pad \in Nat
    <3>1. m \in Sendable /\ m.kind = "error" /\ call.pad \in 0..MaxUint8
      BY <1>0, <1>1, <1>4, CallIs, Zenon
    <3>q. QED
      BY <3>1, Limits, SMTT(40) DEF Sendable, DataMessage, CloseMessage, AckMessage, PingMessage
  <2>2. PICK size, r : size = m.text.size /\ r = MarshalError(m)
    BY Zenon
  <2>3. size \in Nat
    BY <2>1, <2>2, ErrorIs, Zenon
  <2>4. (Encoded(call) <=> r.kind = "OK") /\ Plain(call) = r.payload
    BY <1>1, <1>4, <2>1, <2>2, Kinds, Zenon DEF Encoded, Plain
  <2>5. 56 + 2 + size + call.pad > MaxFrameSize
    <3>1. CASE ~(size <= MaxErrorContextSize)
      BY <2>1, <2>3, <3>1, Limits
    <3>2. CASE size <= MaxErrorContextSize
      <4>1. r = Good(RawPayload(2 + size, TRUE))
        BY <1>4, <2>1, <2>2, <3>2, ErrorIs, ZenonT(40)
      <4>2. r.kind = "OK" /\ r.payload.len = 2 + size
        BY <4>1, Results, SMTT(40) DEF RawPayload
      <4>3. Sealed(call).kind # "OK"
        BY <1>4, <2>4, <4>2, Zenon DEF WireInv, Outbound
      <4>4. 56 + r.payload.len + call.pad > MaxFrameSize
        BY <1>0, <1>4, <2>4, <4>2, <4>3, Carried, Zenon
      <4>q. QED
        BY <2>1, <2>3, <4>2, <4>4, Limits, SMTT(40)
    <3>q. QED
      BY <3>1, <3>2, Zenon
  <2>q. QED
    BY <2>1, <2>2, <2>3, <2>5 DEF HeaderSize, AEADTagSize
<1>q. QED
  BY <1>1, <1>2, <1>3, <1>4, Zenon DEF SizesExact

(* The size checks made before encoding (messages_tlv.go:29-62) agree      *)
(* with what encoding and sealing do, for all messages and limits.         *)
THEOREM SizesAreExact == Spec => []SizesExact
<1>1. WireInv => SizesExact
  BY InvSizes, Zenon
<1>q. QED
  BY <1>1, WireInductive, PTL

(* The failures of DecodeTLVs are those of the field codec                 *)
(* (codec.go:17-38).                                                       *)
LEMMA DecodeKinds ==
  ASSUME NEW data, IsBuffer(data), NEW max \in Int
  PROVE  DecodeTLVs(data, max).kind \in TlvKinds
<1>1. PICK v : v = Validate(data, max)
  BY Zenon
<1>2. DecodeTLVs(data, max).kind = v.kind
  BY <1>1, Zenon DEF DecodeTLVs
<1>3. v.kind \in TlvKinds
  <2>1. Rounds(data)[MaxElements + 1].kind \in TlvKinds
    <3>1. MaxElements + 1 \in 0..(MaxElements + 1)
      BY SequenceSizeAssumption DEF MaxElements
    <3>2. Rounds(data)[MaxElements + 1] \in ScanSet
      BY <3>1, RoundsAre, Zenon
    <3>q. QED
      BY <3>2, Zenon DEF ScanSet
  <2>2. v \in {Failure("SequenceTooLarge"), Failure("DecodeLimit"), Rounds(data)[MaxElements + 1]}
    BY <1>1, Zenon DEF Validate
  <2>3. Failure("SequenceTooLarge").kind \in TlvKinds /\ Failure("DecodeLimit").kind \in TlvKinds
    BY Zenon DEF Failure, TlvKinds
  <2>q. QED
    BY <2>1, <2>2, <2>3, Zenon
<1>q. QED
  BY <1>2, <1>3, Zenon

(* EncryptedData.UnmarshalBinary (messages_tlv.go:83-99) by its outcome.   *)
LEMMA DataGot ==
  ASSUME NEW p, p.len \in Nat, p.zero \in BOOLEAN, p.len >= 4 => IsBuffer(p.tlv)
  PROVE  LET r == UnmarshalData(p)
             d == DecodeTLVs(p.tlv, MaxEncryptedPayloadSize - 4)
         IN /\ r.kind = "data" =>
                 /\ p.len >= 4 /\ d.kind = "OK" /\ ~rejectDuplicateTLVs(d.fields)
                 /\ r = [kind |-> "data", fields |-> d.fields]
            /\ p.len >= 4 /\ d.kind = "OK" /\ r.kind # "data" =>
                 r.kind \in {"MessageReserved", "DuplicateMessageTLV"}
            /\ p.len < 4 => r.kind = "MessageTooShort"
<1>1. PICK r, d : r = UnmarshalData(p) /\ d = DecodeTLVs(p.tlv, MaxEncryptedPayloadSize - 4)
  BY Zenon
<1>2. CASE p.len < 4
  <2>1. r = Bad("MessageTooShort")
    BY <1>1, <1>2, Zenon DEF UnmarshalData
  <2>q. QED
    BY <1>1, <1>2, <2>1, Results
<1>3. CASE ~(p.len < 4)
  <2>1. d.kind \in TlvKinds
    BY <1>1, <1>3, Limits, DecodeKinds
  <2>2. r = IF ~p.zero THEN Bad("MessageReserved")
            ELSE IF d.kind # "OK" THEN Bad(d.kind)
            ELSE IF rejectDuplicateTLVs(d.fields) THEN Bad("DuplicateMessageTLV")
            ELSE [kind |-> "data", fields |-> d.fields]
    BY <1>1, <1>3, Zenon DEF UnmarshalData
  <2>3. CASE ~p.zero
    <3>1. r = Bad("MessageReserved")
      BY <2>2, <2>3, Zenon
    <3>q. QED
      BY <1>1, <1>3, <3>1, Results
  <2>4. CASE p.zero /\ d.kind # "OK"
    <3>1. r = Bad(d.kind)
      BY <2>2, <2>4, Zenon
    <3>2. r.kind = d.kind /\ d.kind # "data"
      BY <2>1, <2>4, <3>1, Results, Zenon DEF TlvKinds
    <3>q. QED
      BY <1>1, <1>3, <2>4, <3>2, Zenon
  <2>5. CASE p.zero /\ d.kind = "OK" /\ rejectDuplicateTLVs(d.fields)
    <3>1. r = Bad("DuplicateMessageTLV")
      BY <2>2, <2>5, Zenon
    <3>2. r.kind = "DuplicateMessageTLV"
      BY <3>1, Results, Zenon
    <3>q. QED
      BY <1>1, <1>3, <3>2, Zenon
  <2>6. CASE p.zero /\ d.kind = "OK" /\ ~rejectDuplicateTLVs(d.fields)
    <3>1. r = [kind |-> "data", fields |-> d.fields]
      BY <2>2, <2>6, Zenon
    <3>2. r.kind = "data" /\ p.len >= 4
      BY <1>3, <3>1, SMTT(40)
    <3>q. QED
      BY <1>1, <1>3, <2>6, <3>1, <3>2
  <2>q. QED
    BY <2>3, <2>4, <2>5, <2>6, Zenon
<1>q. QED
  BY <1>2, <1>3, Zenon

(* What a payload call that got through says of its payload.               *)
LEMMA PayloadCall ==
  ASSUME WireInv, call.via = "payload", stage \in {"received", "rejected"}
  PROVE  /\ call.kind \in {"data", "close", "error", "ack", "ping"}
         /\ payload = call.payload /\ AnyPayload(call)
         /\ got = UnmarshalBinary(call.kind, payload)
         /\ stage = "received" <=> got.kind = call.kind
         /\ payload.len \in Nat /\ payload.len <= MaxEncryptedPayloadSize
<1>1. call \in Calls /\ call.via # "peer" /\ Outbound
  BY Zenon DEF WireInv
<1>2. /\ Encoded(call) /\ payload = Plain(call) /\ Sealed(call).kind = "OK"
      /\ got = UnmarshalBinary(call.kind, payload)
      /\ stage = "received" <=> got.kind = call.kind
  BY <1>1, Zenon DEF Outbound, Stages
<1>3. /\ call.kind \in {"data", "close", "error", "ack", "ping"}
      /\ payload = call.payload /\ AnyPayload(call) /\ call.pad \in 0..MaxUint8
  BY <1>1, <1>2, CallIs, Zenon DEF Encoded, EncryptedTypes, Plain
<1>4. payload.len \in Nat /\ 56 + payload.len + call.pad <= MaxFrameSize
  <2>1. call.via # "flight"
    BY Zenon
  <2>q. QED
    BY <1>1, <1>2, <2>1, Carried, Zenon
<1>5. payload.len <= MaxEncryptedPayloadSize
  BY <1>3, <1>4, Limits, SMTT(40)
<1>q. QED
  BY <1>2, <1>3, <1>4, <1>5, Zenon

(* The invariant implies DecodeExact.                                      *)
LEMMA InvDecode == ASSUME WireInv PROVE DecodeExact
<1>0. call \in Calls
  BY Zenon DEF WireInv
<1>1. ASSUME call.via = "payload", call.kind = "data", stage \in {"received", "rejected"}
      PROVE  /\ call.fields \in Seq(FieldSet) /\ payload.len \in Nat /\ payload.zero \in BOOLEAN
             /\ payload.len <= MaxEncryptedPayloadSize /\ payload = call.payload
             /\ got = UnmarshalData(payload) /\ (stage = "received" <=> got.kind = "data")
             /\ payload.len >= 4 =>
                  /\ payload.tlv = Cut(call.fields, payload.len - 4)
                  /\ IsBuffer(payload.tlv) /\ payload.tlv.len = payload.len - 4
  <2>1. /\ payload = call.payload /\ AnyPayload(call) /\ got = UnmarshalBinary("data", payload)
        /\ (stage = "received" <=> got.kind = "data")
        /\ payload.len \in Nat /\ payload.len <= MaxEncryptedPayloadSize
    BY <1>1, PayloadCall, Zenon
  <2>2. /\ call.fields \in Seq(FieldSet) /\ payload.zero \in BOOLEAN
        /\ payload.tlv = IF payload.len < 4 THEN NoTLV ELSE Cut(call.fields, payload.len - 4)
    BY <1>1, <2>1, Zenon DEF AnyPayload
  <2>3. got = UnmarshalData(payload)
    BY <2>1, Kinds, Zenon
  <2>4. ASSUME payload.len >= 4
        PROVE  /\ payload.tlv = Cut(call.fields, payload.len - 4)
               /\ IsBuffer(payload.tlv) /\ payload.tlv.len = payload.len - 4
    <3>1. payload.tlv = Cut(call.fields, payload.len - 4) /\ payload.len - 4 \in Nat
      BY <2>1, <2>2, <2>4
    <3>q. QED
      BY <2>2, <3>1, CutIs
  <2>q. QED
    BY <2>1, <2>2, <2>3, <2>4, Zenon
<1>2. ASSUME call.via = "payload", call.kind = "data", stage = "received"
      PROVE  \E k \in 0..(Len(call.fields) + 2) : WholeFields(k)
  <2>1. PICK d : d = DecodeTLVs(payload.tlv, MaxEncryptedPayloadSize - 4)
    BY Zenon
  <2>2. /\ payload.len >= 4 /\ d.kind = "OK" /\ ~rejectDuplicateTLVs(d.fields)
        /\ got = [kind |-> "data", fields |-> d.fields]
    BY <1>1, <1>2, <2>1, DataGot, Zenon
  <2>3. PICK n \in Nat : n = payload.len - 4
    BY <1>1, <1>2, <2>2, SMTT(40)
  <2>4. payload.tlv = Cut(call.fields, n) /\ payload.tlv.len = n
    BY <1>1, <1>2, <2>2, <2>3, Zenon
  <2>5. PICK F, G : F = d.fields /\ G = call.fields \o [i \in 1..2 |-> Garbage]
    BY Zenon
  <2>6. /\ Len(F) \in 0..(Len(call.fields) + 2) /\ Len(F) <= Len(G)
        /\ Offsets(G)[Len(F)] = n /\ F = SubSeq(G, 1, Len(F))
    <3>1. /\ call.fields \in Seq(FieldSet) /\ MaxEncryptedPayloadSize - 4 \in Int
          /\ d = DecodeTLVs(Cut(call.fields, n), MaxEncryptedPayloadSize - 4)
      BY <1>1, <1>2, <2>1, <2>4, Limits
    <3>q. QED
      BY <2>2, <2>5, <3>1, CutDecoded, ZenonT(40)
  <2>7. payload = call.payload
    BY <1>1, <1>2, Zenon
  <2>8. WholeFields(Len(F))
    BY <2>2, <2>4, <2>5, <2>6, <2>7, Zenon DEF WholeFields
  <2>q. QED
    BY <2>6, <2>8, Zenon
<1>3. ASSUME call.via = "payload", call.kind = "data", stage = "rejected",
             NEW k \in 0..Len(call.fields), Offsets(call.fields)[k] = payload.tlv.len
      PROVE  got.kind \in {"MessageTooShort", "MessageReserved", "DuplicateMessageTLV"}
  <2>1. PICK d : d = DecodeTLVs(payload.tlv, MaxEncryptedPayloadSize - 4)
    BY Zenon
  <2>2. got = UnmarshalData(payload) /\ got.kind # "data"
    BY <1>1, <1>3, Zenon
  <2>3. CASE payload.len < 4
    BY <1>1, <1>3, <2>2, <2>3, DataGot, Zenon
  <2>4. CASE payload.len >= 4
    <3>1. PICK n \in Nat : n = payload.len - 4
      BY <1>1, <1>3, <2>4, SMTT(40)
    <3>2. /\ call.fields \in Seq(FieldSet) /\ payload.tlv = Cut(call.fields, n)
          /\ payload.tlv.len = n /\ n <= MaxEncryptedPayloadSize - 4
      BY <1>1, <1>3, <2>4, <3>1, Limits, SMTT(40)
    <3>3. Offsets(call.fields)[k] = n /\ n <= MaxSequenceSize /\ MaxEncryptedPayloadSize - 4 \in Int
      BY <1>3, <3>2, Limits, SMTT(40)
    <3>4. d.kind = "OK"
      BY <2>1, <3>2, <3>3, CutDecodable, SMTT(40)
    <3>5. got.kind \in {"MessageReserved", "DuplicateMessageTLV"}
      BY <1>1, <1>3, <2>1, <2>2, <2>4, <3>4, DataGot, ZenonT(40)
    <3>q. QED
      BY <3>5, Zenon
  <2>5. payload.len \in Nat
    BY <1>1, <1>3, Zenon
  <2>q. QED
    BY <2>3, <2>4, <2>5
<1>4. ASSUME stage \in {"read", "received"}
      PROVE  Split(frame, octets)
  <2>1. CASE call.via = "peer"
    <3>1. /\ octets = call.octets /\ UnmarshalFrame(octets).kind = "OK"
          /\ frame = UnmarshalFrame(octets).frame
      BY <1>4, <2>1, Zenon DEF WireInv, Inbound
    <3>q. QED
      BY <1>0, <2>1, <3>1, Peers, Zenon
  <2>2. CASE call.via # "peer"
    <3>1. /\ Encoded(call) /\ Sealed(call).kind = "OK" /\ frame = Sealed(call).frame
          /\ octets = MarshalFrame(frame)
      BY <1>4, <2>2, Zenon DEF WireInv, Outbound, Stages
    <3>q. QED
      BY <1>0, <2>2, <3>1, Carried, Zenon
  <2>q. QED
    BY <2>1, <2>2, Zenon
<1>q. QED
  BY <1>2, <1>3, <1>4, Zenon DEF DecodeExact, Split

(* DecodeTLVs accepts exactly the sequences of whole fields, and a frame   *)
(* that is read is split without a byte missing or left over               *)
(* (codec.go:93-135, frame.go:121-150), for all fields and limits.         *)
THEOREM DecodingIsExact == Spec => []DecodeExact
<1>1. WireInv => DecodeExact
  BY InvDecode, Zenon
<1>q. QED
  BY <1>1, WireInductive, PTL

(* A SessionClose that UnmarshalBinary returns (messages_tlv.go:128-186)   *)
(* is within the limits of MarshalBinary.                                  *)
LEMMA CloseGot ==
  ASSUME NEW p, p.len \in Nat, p.code \in Nat, p.utf8 \in BOOLEAN, IsBuffer(p.tlv),
         p.len >= 2 => p.tlv.len = p.len - 2, UnmarshalClose(p).kind = "close"
  PROVE  \E size \in Nat :
           /\ UnmarshalClose(p) = [kind |-> "close", code |-> p.code, text |-> Text(size, TRUE)]
           /\ p.code <= 3 /\ size <= MaxReasonSize /\ p.len >= 2
           /\ size # 0 => p.len = 2 + Align4(TLVHeaderSize + size)
<1>1. PICK r, most, d : /\ r = UnmarshalClose(p) /\ most = Align4(TLVHeaderSize + MaxReasonSize)
                        /\ d = DecodeTLVs(p.tlv, most)
  BY Zenon
<1>2. MaxReasonSize \in Nat /\ most = MaxEncryptedPayloadSize - 3 /\ most \in Int /\ most > 0
  <2>1. MaxReasonSize \in Nat /\ MaxEncryptedPayloadSize \in Nat /\ MaxEncryptedPayloadSize >= 36
    BY Limits
  <2>2. most = MaxEncryptedPayloadSize - 3
    BY <1>1, <2>1, ReasonFits, Zenon
  <2>q. QED
    BY <2>1, <2>2
<1>3. DEFINE close(text) == IF p.code > 3 THEN Bad("InvalidCloseCode")
                            ELSE [kind |-> "close", code |-> p.code, text |-> text]
<1>4. ASSUME NEW size \in Nat, r = close(Text(size, TRUE))
      PROVE  /\ p.code <= 3
             /\ r = [kind |-> "close", code |-> p.code, text |-> Text(size, TRUE)]
  <2>1. p.code > 3 => r.kind = "InvalidCloseCode"
    BY <1>4, Results, Zenon
  <2>2. ~(p.code > 3)
    BY <1>1, <2>1, Zenon
  <2>q. QED
    BY <1>4, <2>2, SMTT(40)
<1>5. r = IF p.len < 2 THEN Bad("MessageTooShort")
          ELSE IF p.len = 2 THEN close(Text(0, TRUE))
          ELSE IF d.kind # "OK" THEN Bad(d.kind)
          ELSE IF rejectDuplicateTLVs(d.fields) THEN Bad("DuplicateMessageTLV")
          ELSE IF Len(d.fields) # 1 \/ d.fields[1].type # textTLVType THEN Bad("UnknownMessageTLV")
          ELSE IF ~p.utf8 THEN Bad("InvalidUTF8")
          ELSE close(Text(d.fields[1].size, TRUE))
  BY <1>1, Zenon DEF UnmarshalClose
<1> HIDE DEF close
<1>6. d.kind \in TlvKinds
  BY <1>1, <1>2, DecodeKinds, Zenon
<1>7. r.kind = "close"
  BY <1>1, Zenon
<1>8. ~(p.len < 2)
  <2>1. p.len < 2 => r = Bad("MessageTooShort")
    BY <1>5, Zenon
  <2>q. QED
    BY <1>7, <2>1, Results
<1>9. CASE p.len = 2
  <2>1. r = close(Text(0, TRUE))
    BY <1>5, <1>8, <1>9, Zenon
  <2>2. 0 \in Nat /\ 0 <= MaxReasonSize /\ p.len >= 2
    BY <1>2, <1>8
  <2>q. QED
    BY <1>1, <1>4, <2>1, <2>2, Zenon
<1>10. CASE p.len # 2
  <2>1. d.kind = "OK"
    <3>1. d.kind # "OK" => r = Bad(d.kind)
      BY <1>5, <1>8, <1>10, Zenon
    <3>2. d.kind # "close"
      BY <1>6, Zenon DEF TlvKinds
    <3>q. QED
      BY <1>7, <3>1, <3>2, Results, Zenon
  <2>2. ~(Len(d.fields) # 1 \/ d.fields[1].type # textTLVType)
    <3>1. (Len(d.fields) # 1 \/ d.fields[1].type # textTLVType) =>
            r \in {Bad("DuplicateMessageTLV"), Bad("UnknownMessageTLV")}
      BY <1>5, <1>8, <1>10, <2>1, Zenon
    <3>q. QED
      BY <1>7, <3>1, Results
  <2>3. ~rejectDuplicateTLVs(d.fields) /\ p.utf8
    <3>1. ~(~rejectDuplicateTLVs(d.fields) /\ p.utf8) =>
            r \in {Bad("DuplicateMessageTLV"), Bad("UnknownMessageTLV"), Bad("InvalidUTF8")}
      BY <1>5, <1>8, <1>10, <2>1, Zenon
    <3>q. QED
      BY <1>7, <3>1, Results, SMTT(40)
  <2>4. r = close(Text(d.fields[1].size, TRUE))
    BY <1>5, <1>8, <1>10, <2>1, <2>2, <2>3, Zenon
  <2>5. PICK F : F = d.fields
    BY Zenon
  <2>6. /\ F \in Seq(FieldSet) /\ InLimits(p.tlv, most) /\ Offsets(F)[Len(F)] = p.tlv.len /\ Len(F) = 1
    BY <1>1, <1>2, <2>1, <2>2, <2>5, Decoded, Zenon
  <2>7. F[1] \in FieldSet /\ Offsets(F)[1] = p.tlv.len
    <3>1. 1 \in 1..Len(F)
      BY <2>6
    <3>2. F[1] \in FieldSet
      <4>1. F \in Seq(FieldSet)
        BY <2>6, Zenon
      <4>2. \A i \in 1..Len(F) : F[i] \in FieldSet
        BY <4>1
      <4>q. QED
        BY <3>1, <4>2, Zenon
    <3>q. QED
      BY <2>6, <3>2, Zenon
  <2>8. PICK size \in Nat : size = F[1].size
    BY <2>7, Zenon DEF FieldSet
  <2>9. Offsets(F)[1] = Width(F[1])
    <3>1. 1 \in 1..Len(F) /\ 1 - 1 = 0
      BY <2>6
    <3>2. Offsets(F)[0] = 0 /\ Offsets(F)[1] = Offsets(F)[1 - 1] + Width(F[1])
      BY <2>6, <3>1, OffsetsAre, Zenon
    <3>3. Width(F[1]) \in Nat
      BY <2>8, WidthIs, Zenon
    <3>q. QED
      BY <3>1, <3>2, <3>3
  <2>10. PICK n \in Nat : n = Align4(TLVHeaderSize + size) /\ n = p.tlv.len
    <3>1. Width(F[1]) = Align4(TLVHeaderSize + size)
      BY <2>8, Zenon DEF Width
    <3>2. p.tlv.len \in Nat
      BY Zenon DEF IsBuffer
    <3>q. QED
      BY <2>7, <2>9, <3>1, <3>2, Zenon
  <2>11. n <= most
    BY <1>2, <2>6, <2>10, Zenon DEF InLimits
  <2>12. size <= MaxReasonSize
    BY <1>1, <2>10, <2>11, ReasonFits, Zenon
  <2>13. p.len = 2 + n /\ p.len >= 2
    BY <1>8, <2>10, SMTT(40)
  <2>14. r = close(Text(size, TRUE))
    BY <2>4, <2>5, <2>8, Zenon
  <2>q. QED
    BY <1>1, <1>4, <2>10, <2>12, <2>13, <2>14, Zenon
<1>q. QED
  BY <1>9, <1>10, Zenon

(* What a decoder returns for bytes of any origin can be encoded again.    *)
LEMMA Sendback ==
  ASSUME WireInv, call.via = "payload", stage = "received"
  PROVE  /\ got \in AnyMessage /\ MarshalBinary(got).kind = "OK"
         /\ MarshalBinary(got).payload.len <= payload.len
<1>1. PICK p : p = payload
  BY Zenon
<1>2. /\ call.kind \in {"data", "close", "error", "ack", "ping"}
      /\ AnyPayload(call) /\ p = call.payload /\ got = UnmarshalBinary(call.kind, p)
      /\ got.kind = call.kind /\ p.len \in Nat /\ p.len <= MaxEncryptedPayloadSize
  BY <1>1, PayloadCall, Zenon
<1>3. CASE call.kind = "data"
  <2>1. /\ call.fields \in Seq(FieldSet) /\ p.zero \in BOOLEAN
        /\ p.tlv = IF p.len < 4 THEN NoTLV ELSE Cut(call.fields, p.len - 4)
    BY <1>2, <1>3, Zenon DEF AnyPayload
  <2>2. p.len >= 4 => IsBuffer(p.tlv) /\ p.tlv.len = p.len - 4
    <3>1. ASSUME p.len >= 4 PROVE IsBuffer(p.tlv) /\ p.tlv.len = p.len - 4
      <4>1. p.len - 4 \in Nat /\ p.tlv = Cut(call.fields, p.len - 4)
        BY <1>2, <2>1, <3>1
      <4>q. QED
        BY <2>1, <4>1, CutIs, SMTT(40)
    <3>q. QED
      BY <3>1, Zenon
  <2>3. PICK d : d = DecodeTLVs(p.tlv, MaxEncryptedPayloadSize - 4)
    BY Zenon
  <2>4. got = UnmarshalData(p) /\ got.kind = "data"
    BY <1>2, <1>3, Kinds, ZenonT(40)
  <2>5. /\ p.len >= 4 /\ d.kind = "OK" /\ ~rejectDuplicateTLVs(d.fields)
        /\ got = [kind |-> "data", fields |-> d.fields]
    BY <1>2, <2>1, <2>2, <2>3, <2>4, DataGot, ZenonT(40)
  <2>6. d.fields \in Seq(FieldSet) /\ Offsets(d.fields)[Len(d.fields)] = p.len - 4
    <3>1. MaxEncryptedPayloadSize - 4 \in Int /\ IsBuffer(p.tlv) /\ p.tlv.len = p.len - 4
      BY <2>2, <2>5, Limits, SMTT(40)
    <3>q. QED
      BY <2>3, <2>5, <3>1, Decoded, ZenonT(40)
  <2>7. got \in DataMessage /\ got.fields = d.fields
    BY <2>5, <2>6, Zenon DEF DataMessage
  <2>8. Total(got) = p.len - 4
    BY <2>6, <2>7, Zenon DEF Total
  <2>9. p.len - 4 <= MaxEncryptedPayloadSize - 4 /\ 4 + (p.len - 4) = p.len
    BY <1>2, Limits
  <2>10. MarshalData(got).kind = "OK"
    BY <2>5, <2>7, <2>8, <2>9, DataIs, Zenon
  <2>11. MarshalData(got).payload = DataPayload(4 + Total(got), TRUE, Write(got.fields, Total(got)))
    BY <2>7, <2>10, DataIs, Zenon
  <2>12. MarshalData(got).payload.len = p.len
    <3>1. MarshalData(got).payload.len = 4 + Total(got)
      BY <2>11, SMTT(40) DEF DataPayload
    <3>q. QED
      BY <2>8, <2>9, <3>1, Zenon
  <2>13. MarshalBinary(got) = MarshalData(got)
    BY <2>4, Kinds, Zenon
  <2>q. QED
    BY <1>1, <1>2, <2>7, <2>10, <2>12, <2>13, SMTT(40) DEF AnyMessage, Sendable
<1>4. CASE call.kind = "close"
  <2>1. /\ p.code \in Nat /\ p.utf8 \in BOOLEAN /\ IsBuffer(p.tlv)
        /\ p.len >= 2 => p.tlv.len = p.len - 2
    BY <1>2, <1>4, Zenon DEF AnyPayload
  <2>2. got = UnmarshalClose(p) /\ got.kind = "close"
    BY <1>2, <1>4, Kinds, Zenon
  <2>3. PICK size \in Nat :
          /\ got = [kind |-> "close", code |-> p.code, text |-> Text(size, TRUE)]
          /\ p.code <= 3 /\ size <= MaxReasonSize /\ p.len >= 2
          /\ size # 0 => p.len = 2 + Align4(TLVHeaderSize + size)
    BY <1>2, <2>1, <2>2, CloseGot, Zenon
  <2>4. /\ got \in CloseMessage /\ got.code = p.code /\ got.text.size = size /\ got.text.utf8
    BY <2>1, <2>3, Zenon DEF CloseMessage, TextSet, Text
  <2>5. MarshalBinary(got) = MarshalClose(got)
    BY <2>2, Kinds, Zenon
  <2>6. PICK n : n = Align4(TLVHeaderSize + size)
    BY Zenon
  <2>7. CASE size = 0
    <3>1. MarshalClose(got) = Good(TextPayload(2, p.code, NoTLV, TRUE))
      BY <2>3, <2>4, <2>7, CloseIs, Zenon
    <3>2. MarshalClose(got).kind = "OK" /\ MarshalClose(got).payload.len = 2
      BY <3>1, Results, SMTT(40) DEF TextPayload
    <3>q. QED
      BY <1>1, <2>3, <2>4, <2>5, <3>2, Zenon DEF AnyMessage, Sendable
  <2>8. CASE size # 0
    <3>1. MarshalClose(got) =
            Good(TextPayload(2 + n, p.code, Write(<<Field(textTLVType, size)>>, n), TRUE))
      BY <2>3, <2>4, <2>6, <2>8, CloseIs, Zenon
    <3>2. MarshalClose(got).kind = "OK" /\ MarshalClose(got).payload.len = 2 + n
      BY <3>1, Results DEF TextPayload
    <3>3. p.len = 2 + n
      BY <2>3, <2>6, <2>8, Zenon
    <3>q. QED
      BY <1>1, <1>2, <2>4, <2>5, <3>2, <3>3 DEF AnyMessage, Sendable
  <2>q. QED
    BY <2>7, <2>8, Zenon
<1>5. CASE call.kind = "error"
  <2>1. got = UnmarshalError(p) /\ got.kind = "error" /\ p.utf8 \in BOOLEAN
    BY <1>2, <1>5, Kinds, ZenonT(40) DEF AnyPayload
  <2>2. p.len >= 2 /\ got = [kind |-> "error", text |-> Text(p.len - 2, TRUE)]
    <3>1. \/ got \in {Bad("MessageTooShort"), Bad("MessageLength"), Bad("InvalidUTF8")}
          \/ ~(p.len < 2) /\ got = [kind |-> "error", text |-> Text(p.len - 2, TRUE)]
      BY <2>1, Zenon DEF UnmarshalError
    <3>2. got \notin {Bad("MessageTooShort"), Bad("MessageLength"), Bad("InvalidUTF8")}
      BY <2>1, Results
    <3>q. QED
      BY <1>2, <3>1, <3>2, SMTT(40)
  <2>3. PICK size \in Nat : size = p.len - 2
    BY <1>2, <2>2
  <2>4. got \in ErrorMessage /\ got.text.size = size /\ got.text.utf8
    BY <2>2, <2>3, Zenon DEF ErrorMessage, TextSet, Text
  <2>5. size <= MaxErrorContextSize /\ 2 + size = p.len
    BY <1>2, <2>3, Limits
  <2>6. MarshalError(got) = Good(RawPayload(2 + size, TRUE))
    BY <2>4, <2>5, ErrorIs, Zenon
  <2>7. MarshalError(got).kind = "OK" /\ MarshalError(got).payload.len = p.len
    BY <2>5, <2>6, Results, SMTT(40) DEF RawPayload
  <2>8. MarshalBinary(got) = MarshalError(got)
    BY <2>1, Kinds, Zenon
  <2>q. QED
    BY <1>1, <1>2, <2>4, <2>7, <2>8, SMTT(40) DEF AnyMessage, Sendable
<1>6. CASE call.kind = "ack"
  <2>1. got = UnmarshalAck(p) /\ got.kind = "ack" /\ p.count \in Nat
    BY <1>2, <1>6, Kinds, Zenon DEF AnyPayload
  <2>2. /\ ~(p.count < 1 \/ p.count > MaxUint8) /\ p.len = AckSize(p.count)
        /\ got = [kind |-> "ack", count |-> p.count]
    <3>1. \/ got \in {Bad("MessageTooShort"), Bad("AckCount"), Bad("MessageLength")}
          \/ /\ ~(p.count < 1 \/ p.count > MaxUint8) /\ p.len = AckSize(p.count)
             /\ got = [kind |-> "ack", count |-> p.count]
      BY <2>1, Zenon DEF UnmarshalAck
    <3>2. got \notin {Bad("MessageTooShort"), Bad("AckCount"), Bad("MessageLength")}
      BY <2>1, Results
    <3>q. QED
      BY <3>1, <3>2, Zenon
  <2>3. got \in AckMessage /\ got.count = p.count
    BY <2>1, <2>2 DEF AckMessage
  <2>4. MarshalAck(got) = Good(AckPayload(p.len, p.count))
    BY <2>2, <2>3, Zenon DEF MarshalAck
  <2>5. MarshalAck(got).kind = "OK" /\ MarshalAck(got).payload.len = p.len
    BY <2>4, Results DEF AckPayload
  <2>6. MarshalBinary(got) = MarshalAck(got)
    BY <2>1, Kinds, Zenon
  <2>q. QED
    BY <1>1, <1>2, <2>3, <2>5, <2>6, SMTT(40) DEF AnyMessage, Sendable
<1>7. CASE call.kind = "ping"
  <2>1. got = UnmarshalPing(p) /\ got.kind = "ping"
    BY <1>2, <1>7, Kinds, Zenon
  <2>2. p.len = 9 /\ got = [kind |-> "ping", response |-> p.flag = 1]
    <3>1. \/ got \in {Bad("MessageLength"), Bad("InvalidPingResponse")}
          \/ p.len = PingPongSize /\ got = [kind |-> "ping", response |-> p.flag = 1]
      BY <2>1, Zenon DEF UnmarshalPing
    <3>2. got \notin {Bad("MessageLength"), Bad("InvalidPingResponse")}
      BY <2>1, Results
    <3>q. QED
      BY <3>1, <3>2, Zenon DEF PingPongSize
  <2>3. got \in PingMessage
    <3>1. (p.flag = 1) \in BOOLEAN
      BY Zenon
    <3>q. QED
      BY <2>2, <3>1, Zenon DEF PingMessage
  <2>4. MarshalPing(got).kind = "OK" /\ MarshalPing(got).payload.len = 9
    BY <2>3, PingBack, Zenon
  <2>5. MarshalBinary(got) = MarshalPing(got)
    BY <2>1, Kinds, Zenon
  <2>q. QED
    BY <1>1, <2>2, <2>3, <2>4, <2>5, SMTT(40) DEF AnyMessage, Sendable
<1>q. QED
  BY <1>2, <1>3, <1>4, <1>5, <1>6, <1>7, Zenon

(* The invariant implies ReceivedCanBeSent.                                *)
LEMMA InvSent == ASSUME WireInv PROVE ReceivedCanBeSent
<1>0. SUFFICES ASSUME stage = "received"
               PROVE  /\ MarshalBinary(got).kind = "OK"
                      /\ MarshalBinary(got).payload.len <= payload.len
                      /\ UnmarshalBinary(call.kind, MarshalBinary(got).payload) = got
  BY Zenon DEF ReceivedCanBeSent
<1>1. CASE call.via = "payload"
  <2>1. /\ got \in AnyMessage /\ MarshalBinary(got).kind = "OK"
        /\ MarshalBinary(got).payload.len <= payload.len
    BY <1>0, <1>1, Sendback, Zenon
  <2>2. got.kind = call.kind
    BY <1>0, <1>1, PayloadCall, Zenon
  <2>3. UnmarshalBinary(got.kind, MarshalBinary(got).payload) = got
    BY <2>1, MessageBack, Zenon
  <2>q. QED
    BY <2>1, <2>2, <2>3, Zenon
<1>2. CASE call.via # "payload"
  <2>1. /\ call \in Calls /\ call.message \in AnyMessage /\ call.kind = call.message.kind
    BY <1>2, CallIs, Zenon DEF WireInv
  <2>2. got = call.message
    BY <1>0, <1>2, InvDelivered, Zenon DEF Delivered
  <2>3. payload = MarshalBinary(call.message).payload
    BY <1>0, <1>2, Zenon DEF WireInv, Outbound, Inbound, Plain, Stages
  <2>4. MarshalBinary(call.message).kind = "OK"
    <3>1. CASE call.via = "peer"
      BY <2>1, <3>1, CallIs, Zenon DEF PeerOctets
    <3>2. CASE call.via # "peer"
      BY <1>0, <1>2, <3>2, Zenon DEF WireInv, Outbound, Encoded, Stages
    <3>q. QED
      BY <3>1, <3>2, Zenon
  <2>5. MarshalBinary(got).payload.len \in Nat
    BY <2>1, <2>2, <2>4, PayloadLen, Zenon
  <2>6. UnmarshalBinary(got.kind, MarshalBinary(got).payload) = got
    BY <2>1, <2>2, <2>4, MessageBack, Zenon
  <2>q. QED
    BY <2>1, <2>2, <2>3, <2>4, <2>5, <2>6, SMTT(40)
<1>q. QED
  BY <1>1, <1>2, Zenon

(* No decoder accepts what its encoder would refuse: what Receive          *)
(* returns, for bytes of any origin, can be sent on (messages.go,          *)
(* messages_tlv.go, messages_error.go), for all payloads and limits.       *)
THEOREM AllCanBeSent == Spec => []ReceivedCanBeSent
<1>1. WireInv => ReceivedCanBeSent
  BY InvSent, Zenon
<1>q. QED
  BY <1>1, WireInductive, PTL
=============================================================================
