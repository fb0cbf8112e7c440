-------------------------------- MODULE Tlv --------------------------------
(***************************************************************************)
(* The TLV codec: internal/tlv/codec.go and tlv.go.  Of a field only its   *)
(* type and the length of its value matter.  A buffer is its length and    *)
(* the field headers that its bytes hold, by offset; what stands at any    *)
(* other offset is a piece of a value and reads as Garbage.                *)
(***************************************************************************)
EXTENDS Integers, Sequences

CONSTANT MaxSequenceSize  \* 65535 in the code, and the largest value too

ASSUME SequenceSizeAssumption == MaxSequenceSize \in Nat

TLVHeaderSize == 3
MaxValueSize == MaxSequenceSize
MaxElements == MaxSequenceSize \div 4

Field(type, size) == [type |-> type, size |-> size]
Garbage == Field(0, 0)
Buffer(len, at) == [len |-> len, at |-> at]
HeaderAt(data, offset) == IF offset \in DOMAIN data.at THEN data.at[offset] ELSE Garbage

(* A result with its Kind; n is meaningful when the kind is OK. *)
Ok(n) == [kind |-> "OK", n |-> n]
Failure(kind) == [kind |-> kind, n |-> 0]

Align4(n) == ((n + 3) \div 4) * 4

EncodedLen(valueLen) ==
  IF valueLen > MaxValueSize THEN Failure("ValueTooLarge") ELSE Ok(Align4(TLVHeaderSize + valueLen))

AddLen(total, valueLen) ==
  LET n == Align4(TLVHeaderSize + valueLen) IN
  IF valueLen > MaxValueSize THEN Failure("ValueTooLarge")
  ELSE IF n > MaxSequenceSize - total THEN Failure("SequenceFull")
  ELSE Ok(total + n)

(* The length of the first i fields, or the first failure. *)
Lengths(fields) ==
  LET length[i \in 0..Len(fields)] ==
        IF i = 0 THEN Ok(0)
        ELSE LET total == length[i - 1] IN
             IF total.kind = "OK" THEN AddLen(total.n, fields[i].size) ELSE total
  IN length

encodedTLVsLen(fields) ==
  IF Len(fields) > MaxElements THEN Failure("TooManyElements") ELSE Lengths(fields)[Len(fields)]

-----------------------------------------------------------------------------
(* Where the fields of a sequence end when they are written one after the
   other: each begins where the one before it ends. *)
Offsets(fields) ==
  LET at[i \in 0..Len(fields)] ==
        IF i = 0 THEN 0 ELSE at[i - 1] + Align4(TLVHeaderSize + fields[i].size)
  IN at

(* Write for every field, into a buffer of the given length. *)
Write(fields, len) ==
  LET at == Offsets(fields) IN
  Buffer(len, [o \in {at[i - 1] : i \in DOMAIN fields} |->
                 fields[CHOOSE i \in DOMAIN fields : at[i - 1] = o]])

EncodeTLVs(fields) ==
  LET total == encodedTLVsLen(fields) IN
  [kind |-> total.kind,
   data |-> IF total.kind = "OK" THEN Write(fields, total.n) ELSE Buffer(0, <<>>)]

(* The first pass of a decode is under way ("more") or has ended, n fields on. *)
Scan(kind, offset, n) == [kind |-> kind, offset |-> offset, n |-> n]

(* Mutant: the padding of the last field may be missing. *)
RoundUnpadded(data, s) ==
  LET remaining == data.len - s.offset
      unpadded == TLVHeaderSize + HeaderAt(data, s.offset).size
      end(kind) == [s EXCEPT !.kind = kind]
  IN IF s.kind # "more" THEN s
     ELSE IF s.offset >= data.len THEN end("OK")
     ELSE IF s.n = MaxElements THEN end("ElementsFull")
     ELSE IF unpadded > remaining THEN end("TruncatedValue")
     ELSE Scan("more", s.offset + Align4(unpadded), s.n + 1)

(* One round of its loop. *)
Round(data, s) ==
  LET remaining == data.len - s.offset
      valueLen == HeaderAt(data, s.offset).size
      unpadded == TLVHeaderSize + valueLen
      paddingLen == (4 - (unpadded % 4)) % 4
      end(kind) == [s EXCEPT !.kind = kind]
  IN IF s.kind # "more" THEN s
     ELSE IF s.offset >= data.len THEN end("OK")
     ELSE IF s.n = MaxElements THEN end("ElementsFull")
     ELSE IF remaining < TLVHeaderSize THEN end("TooShort")
     ELSE IF valueLen > remaining - TLVHeaderSize THEN end("TruncatedValue")
     ELSE IF paddingLen > remaining - unpadded THEN end("TruncatedPadding")
     ELSE Scan("more", s.offset + unpadded + paddingLen, s.n + 1)

(* The rounds.  The one after MaxElements fields ends the loop at the latest. *)
Rounds(data) ==
  LET after[i \in 0..(MaxElements + 1)] ==
        IF i = 0 THEN Scan("more", 0, 0) ELSE Round(data, after[i - 1])
  IN after

Validate(data, maxBytes) ==
  IF data.len > MaxSequenceSize THEN Failure("SequenceTooLarge")
  ELSE IF maxBytes > 0 /\ data.len > maxBytes THEN Failure("DecodeLimit")
  ELSE Rounds(data)[MaxElements + 1]

(* The offsets of the second pass, which reads as many fields as the first one
   has counted. *)
Reads(data, count) ==
  LET at[i \in 0..count] ==
        IF i = 0 THEN 0
        ELSE LET offset == at[i - 1] IN
             offset + Align4(TLVHeaderSize + HeaderAt(data, offset).size)
  IN at

ReadAll(data, count) == [i \in 1..count |-> HeaderAt(data, Reads(data, count)[i - 1])]

DecodeTLVs(data, maxBytes) ==
  LET count == Validate(data, maxBytes) IN
  [kind |-> count.kind,
   fields |-> IF count.kind = "OK" THEN ReadAll(data, count.n) ELSE <<>>]

-----------------------------------------------------------------------------
(* A buffer whose bytes are meant to hold the fields, cut or extended to len
   bytes: any sequence of bytes is one of these. *)
Cut(fields, len) ==
  LET whole == Write(fields, len) IN
  Buffer(len, [o \in {p \in DOMAIN whole.at : p < len} |-> whole.at[o]])
=============================================================================
