---------------------------- MODULE CodecProofs -----------------------------
(***************************************************************************)
(* Proofs about the field codec (Tlv) and the codecs of messages (Wire),   *)
(* for any fields, texts and limits.                                       *)
(*                                                                         *)
(* The loops of the codec are recursive functions.  They are shown to have *)
(* their intended values by induction on sets (UpTo and Recursion below).  *)
(* Then: decoding what was encoded gives it back, for fields and for       *)
(* messages, and what is decoded from a piece of a sequence of fields.     *)
(***************************************************************************)
EXTENDS Wire, WellFoundedInduction, TLAPS

(* Every non-empty set of natural numbers has a least element.             *)
LEMMA Least ==
  ASSUME NEW T \in SUBSET Nat, T # {}
  PROVE  \E m \in T : \A k \in T : m <= k
<1>1. PICK R : R = OpToRel(<, Nat)
  BY Zenon
<1>2. IsWellFoundedOn(R, Nat)
  BY <1>1, NatLessThanWellFounded, Zenon
<1>3. PICK m \in T : \A k \in T : <<k, m>> \notin R
  BY <1>2, WFMin, Zenon
<1>4. \A k, n \in Nat : <<k, n>> \in R <=> k < n
  BY <1>1, Zenon DEF OpToRel
<1>5. ASSUME NEW k \in T PROVE m <= k
  <2>1. k \in Nat /\ m \in Nat
    BY Zenon
  <2>2. ~(k < m)
    BY <1>3, <1>4, <2>1, Zenon
  <2>q. QED BY <2>1, <2>2
<1>q. QED
  BY <1>5, Zenon

(* Induction up to a bound, on a set.                                      *)
LEMMA UpTo ==
  ASSUME NEW n \in Nat, NEW P, 0 \in P,
         \A i \in 1..n : i - 1 \in P => i \in P
  PROVE  \A i \in 0..n : i \in P
<1> SUFFICES ASSUME NEW j \in 0..n, j \notin P PROVE FALSE
  BY Zenon
<1>1. PICK T : T = {i \in 0..n : i \notin P}
  BY Zenon
<1>2. T \in SUBSET Nat /\ T # {}
  BY <1>1
<1>3. PICK m \in T : \A k \in T : m <= k
  BY <1>2, Least, Zenon
<1>4. m \in 1..n /\ m - 1 \in 0..n /\ m \notin P
  BY <1>1, <1>3
<1>5. m - 1 \in P
  BY <1>1, <1>3, <1>4
<1>q. QED
  BY <1>4, <1>5, Zenon

(* The states f of a loop over 1..n that begins with a.                    *)
Bodies(n, S) == [1..n -> [S -> S]]

Loop(n, S, a, g, f) ==
  f \in [0..n -> S] /\ f[0] = a /\ \A i \in 1..n : f[i] = g[i][f[i - 1]]

(* A loop has its states.                                                  *)
LEMMA Recursion ==
  ASSUME NEW n \in Nat, NEW S, NEW a \in S, NEW g \in Bodies(n, S)
  PROVE  \E f : Loop(n, S, a, g, f)
<1> DEFINE Run(m, f) == f \in [0..m -> S] /\ f[0] = a /\ \A i \in 1..m : f[i] = g[i][f[i - 1]]
<1> USE DEF Bodies
<1> DEFINE P == {m \in Nat : \E f : Run(m, f)}
<1>1. 0 \in P
  <2>1. Run(0, [i \in 0..0 |-> a])
    OBVIOUS
  <2>q. QED  BY <2>1, Zenon
<1>2. ASSUME NEW m \in 1..n, m - 1 \in P PROVE m \in P
  <2>1. PICK f : Run(m - 1, f)
    BY <1>2, Zenon
  <2>2. f[m - 1] \in S /\ g[m] \in [S -> S]
    BY <2>1
  <2>3. PICK h : h = [i \in 0..m |-> IF i = m THEN g[m][f[m - 1]] ELSE f[i]]
    BY Zenon
  <2>4. h \in [0..m -> S] /\ h[0] = a
    BY <2>1, <2>2, <2>3
  <2>5. ASSUME NEW i \in 1..m PROVE h[i] = g[i][h[i - 1]]
    <3>1. CASE i = m
      BY <3>1, <2>3
    <3>2. CASE i # m
      <4>1. i \in 1..(m - 1) /\ i - 1 \in 0..m /\ i - 1 # m /\ i \in 0..m
        BY <3>2
      <4>2. f[i] = g[i][f[i - 1]]
        BY <4>1, <2>1, Zenon
      <4>3. h[i] = f[i] /\ h[i - 1] = f[i - 1]
        BY <4>1, <3>2, <2>3, Zenon
      <4>q. QED  BY <4>2, <4>3, Zenon
    <3>q. QED  BY <3>1, <3>2, Zenon
  <2>6. Run(m, h)
    BY <2>4, <2>5, Zenon
  <2>7. m \in Nat
    OBVIOUS
  <2>q. QED  BY <2>6, <2>7, Zenon
<1> HIDE DEF P
<1>3. \A m \in 0..n : m \in P
  BY <1>1, <1>2, UpTo, Zenon
<1>q. QED
  BY <1>3 DEF P, Loop

(* What the body of a loop preserves holds of all its states.              *)
LEMMA LoopType ==
  ASSUME NEW n \in Nat, NEW S, NEW f, f[0] \in S,
         \A i \in 1..n : f[i - 1] \in S => f[i] \in S
  PROVE  \A i \in 0..n : f[i] \in S
<1>1. PICK P : P = {j \in Nat : f[j] \in S}
  BY Zenon
<1>2. 0 \in P /\ \A i \in 1..n : i - 1 \in P => i \in P
  BY <1>1
<1>3. \A i \in 0..n : i \in P
  BY <1>2, UpTo, Zenon
<1>q. QED
  BY <1>1, <1>3, Zenon

-----------------------------------------------------------------------------
(* Align4 (codec.go:62) rounds up to a multiple of 4, by less than 4.      *)
LEMMA AlignIs ==
  ASSUME NEW n \in Nat
  PROVE  /\ Align4(n) \in Nat /\ n <= Align4(n) /\ Align4(n) <= n + 3
         /\ Align4(n) % 4 = 0
         /\ Align4(n) = n + ((4 - (n % 4)) % 4)
BY DEF Align4

(* Rounding up commutes with a bound that is itself aligned.               *)
LEMMA AlignFits ==
  ASSUME NEW n \in Nat, NEW m \in Nat, n <= m, m % 4 = 0
  PROVE  Align4(n) <= m
BY DEF Align4

Width(f) == Align4(TLVHeaderSize + f.size)

(* A field takes at least 4 bytes, more than its header and value          *)
(* (codec.go:64).                                                          *)
LEMMA WidthIs ==
  ASSUME NEW f, f.size \in Nat
  PROVE  Width(f) \in Nat /\ Width(f) >= 4 /\ Width(f) >= 3 + f.size
<1>1. 3 + f.size \in Nat
  OBVIOUS
<1>2. Width(f) = Align4(3 + f.size)
  BY Zenon DEF Width, TLVHeaderSize
<1>3. Width(f) \in Nat /\ Width(f) >= 3 + f.size /\ Width(f) % 4 = 0
  BY <1>1, <1>2, AlignIs
<1>q. QED
  BY <1>3

(* The offsets at which the loop over Write (tlv.go:88-99) places the      *)
(* fields.                                                                 *)
LEMMA OffsetsAre ==
  ASSUME NEW fields \in Seq(FieldSet)
  PROVE  /\ Offsets(fields) \in [0..Len(fields) -> Nat]
         /\ Offsets(fields)[0] = 0
         /\ \A i \in 1..Len(fields) : Offsets(fields)[i] = Offsets(fields)[i - 1] + Width(fields[i])
<1>1. PICK n \in Nat : n = Len(fields)
  OBVIOUS
<1>2. ASSUME NEW i \in 1..n PROVE Width(fields[i]) \in Nat
  <2>1. fields[i] \in FieldSet
    BY <1>1
  <2>2. fields[i].size \in Nat
    BY <2>1, Zenon DEF FieldSet
  <2>q. QED
    BY <2>2, WidthIs, Zenon
<1>3. PICK g : g = [i \in 1..n |-> [o \in Nat |-> o + Width(fields[i])]]
  BY Zenon
<1>4. g \in Bodies(n, Nat)
  BY <1>2, <1>3, SMTT(40) DEF Bodies
<1>5. PICK f : Loop(n, Nat, 0, g, f)
  <2>1. 0 \in Nat
    BY Zenon
  <2>q. QED
    BY <1>4, <2>1, Recursion, Zenon
<1>6. ASSUME NEW i \in 1..n PROVE f[i] = f[i - 1] + Width(fields[i])
  <2>1. f[i - 1] \in Nat
    BY <1>5 DEF Loop
  <2>q. QED
    BY <1>5, <1>3, <2>1, Zenon DEF Loop
<1>7. f = [i \in 0..n |-> IF i = 0 THEN 0 ELSE f[i - 1] + Width(fields[i])]
  BY <1>5, <1>6 DEF Loop
<1>8. Offsets(fields) = [i \in 0..n |-> IF i = 0 THEN 0 ELSE Offsets(fields)[i - 1] + Width(fields[i])]
  BY <1>7, <1>1, Zenon DEF Offsets, Width
<1>9. PICK at : at = Offsets(fields)
  BY Zenon
<1>10. at = [i \in 0..n |-> IF i = 0 THEN 0 ELSE at[i - 1] + Width(fields[i])]
  BY <1>8, <1>9, Zenon
<1>11. /\ at[0] = 0 /\ \A i \in 1..n : at[i] = at[i - 1] + Width(fields[i])
       /\ DOMAIN at = 0..n
  BY <1>10
<1>12. \A i \in 0..n : at[i] \in Nat
  <2>1. at[0] \in Nat /\ \A i \in 1..n : at[i - 1] \in Nat => at[i] \in Nat
    BY <1>2, <1>11
  <2>q. QED
    BY <2>1, LoopType, Zenon
<1>q. QED
  BY <1>1, <1>9, <1>10, <1>11, <1>12, Zenon

(* The fields follow each other: their ends increase by at least 4.        *)
LEMMA OffsetsGrow ==
  ASSUME NEW fields \in Seq(FieldSet), NEW k \in 0..Len(fields)
  PROVE  /\ 4 * k <= Offsets(fields)[k]
         /\ \A i \in 1..k : Offsets(fields)[i - 1] + Width(fields[i]) <= Offsets(fields)[k]
<1>0. PICK at : at = Offsets(fields)
  BY Zenon
<1>1. PICK n \in Nat : n = Len(fields) /\ at = Offsets(fields)
  BY <1>0
<1>2. ASSUME NEW i \in 1..n PROVE Width(fields[i]) \in Nat /\ Width(fields[i]) >= 4
  <2>1. fields[i] \in FieldSet
    BY <1>1
  <2>2. fields[i].size \in Nat
    BY <2>1, Zenon DEF FieldSet
  <2>q. QED
    BY <2>2, WidthIs, Zenon
<1>3. /\ at \in [0..n -> Nat] /\ at[0] = 0
      /\ \A i \in 1..n : at[i] = at[i - 1] + Width(fields[i])
  BY <1>1, OffsetsAre, Zenon
<1>4. PICK P : P = {j \in 0..n : 4 * j <= at[j] /\ \A i \in 1..j : at[i - 1] + Width(fields[i]) <= at[j]}
  BY Zenon
<1>5. 0 \in P
  BY <1>3, <1>4
<1>6. ASSUME NEW j \in 1..n, j - 1 \in P PROVE j \in P
  <2>1. at[j] = at[j - 1] + Width(fields[j]) /\ at[j] \in Nat /\ at[j - 1] \in Nat
    BY <1>3
  <2>2. 4 * (j - 1) <= at[j - 1]
    BY <1>4, <1>6, Zenon
  <2>3. Width(fields[j]) \in Nat /\ Width(fields[j]) >= 4
    BY <1>2, Zenon
  <2>4. 4 * j <= at[j]
    BY <2>1, <2>2, <2>3
  <2>5. ASSUME NEW i \in 1..j PROVE at[i - 1] + Width(fields[i]) <= at[j]
    <3>1. CASE i = j
      BY <3>1, <2>1
    <3>2. CASE i # j
      <4>1. i \in 1..(j - 1) /\ i \in 1..n
        BY <3>2
      <4>2. at[i - 1] + Width(fields[i]) <= at[j - 1]
        BY <4>1, <1>4, <1>6, Zenon
      <4>3. Width(fields[i]) \in Nat /\ at[i - 1] \in Nat
        <5>1. i - 1 \in 0..n
          BY <4>1
        <5>q. QED
          BY <4>1, <5>1, <1>2, <1>3, Zenon
      <4>q. QED
        BY <4>2, <4>3, <2>1, <2>3, SMTT(40)
    <3>q. QED  BY <3>1, <3>2, Zenon
  <2>q. QED
    BY <1>4, <2>4, <2>5
<1>7. \A i \in 0..n : i \in P
  BY <1>5, <1>6, UpTo, Zenon
<1>q. QED
  BY <1>1, <1>4, <1>7, Zenon

(* Equal fields end at equal offsets.                                      *)
LEMMA OffsetsPrefix ==
  ASSUME NEW F \in Seq(FieldSet), NEW G \in Seq(FieldSet), NEW k \in Nat,
         k <= Len(F), k <= Len(G), \A i \in 1..k : F[i] = G[i]
  PROVE  \A i \in 0..k : Offsets(F)[i] = Offsets(G)[i]
<1>1. PICK f, g : f = Offsets(F) /\ g = Offsets(G)
  BY Zenon
<1>2. /\ f[0] = 0 /\ \A i \in 1..k : f[i] = f[i - 1] + Width(F[i])
      /\ g[0] = 0 /\ \A i \in 1..k : g[i] = g[i - 1] + Width(G[i])
  <2>1. \A i \in 1..k : i \in 1..Len(F) /\ i \in 1..Len(G)
    OBVIOUS
  <2>2. f[0] = 0 /\ \A i \in 1..Len(F) : f[i] = f[i - 1] + Width(F[i])
    BY <1>1, OffsetsAre, Zenon
  <2>3. g[0] = 0 /\ \A i \in 1..Len(G) : g[i] = g[i - 1] + Width(G[i])
    BY <1>1, OffsetsAre, Zenon
  <2>q. QED
    BY <2>1, <2>2, <2>3, Zenon
<1>3. PICK P : P = {j \in Nat : f[j] = g[j]}
  BY Zenon
<1>4. 0 \in P /\ \A i \in 1..k : i - 1 \in P => i \in P
  BY <1>2, <1>3
<1>5. \A i \in 0..k : i \in P
  BY <1>4, UpTo, Zenon
<1>q. QED
  BY <1>1, <1>3, <1>5, Zenon

(* A buffer holds the headers of these fields, at their offsets.           *)
Holds(fields, b) ==
  /\ DOMAIN b.at = {Offsets(fields)[i - 1] : i \in 1..Len(fields)}
  /\ \A i \in 1..Len(fields) : b.at[Offsets(fields)[i - 1]] = fields[i]

(* A written buffer holds each field where it begins, and nothing else.    *)
LEMMA Written ==
  ASSUME NEW fields \in Seq(FieldSet), NEW len
  PROVE  Holds(fields, Write(fields, len)) /\ Write(fields, len).len = len
<1>0. PICK at : at = Offsets(fields)
  BY Zenon
<1>1. PICK n \in Nat : n = Len(fields) /\ at = Offsets(fields)
  BY <1>0
<1>2. DOMAIN fields = 1..n
  BY <1>1
<1>3. PICK w : w = [o \in {at[i - 1] : i \in DOMAIN fields} |->
                         fields[CHOOSE i \in DOMAIN fields : at[i - 1] = o]]
  BY Zenon
<1>4. Write(fields, len) = [len |-> len, at |-> w]
  BY <1>1, <1>3 DEF Write, Buffer
<1>5. ASSUME NEW i \in 1..n, NEW j \in 1..n, at[i - 1] = at[j - 1] PROVE i = j
  <2>1. ASSUME NEW a \in 1..n, NEW b \in 1..n, a < b PROVE at[a - 1] # at[b - 1]
    <3>1. b - 1 \in 0..n /\ a \in 1..(b - 1) /\ a - 1 \in 0..n
      BY <2>1
    <3>2. at[a - 1] + Width(fields[a]) <= at[b - 1]
      BY <3>1, <1>1, OffsetsGrow, Zenon
    <3>3. fields[a] \in FieldSet
      BY <1>1
    <3>4. Width(fields[a]) \in Nat /\ Width(fields[a]) >= 4
      BY <3>3, WidthIs, Zenon DEF FieldSet
    <3>5. at[a - 1] \in Nat /\ at[b - 1] \in Nat
      BY <3>1, <1>1, OffsetsAre, Zenon
    <3>q. QED
      BY <3>2, <3>4, <3>5
  <2>q. QED
    BY <1>5, <2>1
<1>6. ASSUME NEW i \in 1..n PROVE w[at[i - 1]] = fields[i]
  <2>1. PICK o : o = at[i - 1]
    BY Zenon
  <2>2. w[o] = fields[CHOOSE j \in DOMAIN fields : at[j - 1] = o]
    BY <1>2, <1>3, <2>1, Zenon
  <2>3. (CHOOSE j \in DOMAIN fields : at[j - 1] = o) = i
    BY <1>2, <1>5, <2>1, Zenon
  <2>q. QED
    BY <2>1, <2>2, <2>3, Zenon
<1>7. DOMAIN w = {at[i - 1] : i \in 1..n}
  BY <1>2, <1>3, Zenon
<1>q. QED
  BY <1>1, <1>4, <1>6, <1>7 DEF Holds

-----------------------------------------------------------------------------
TlvKinds == {"OK", "ValueTooLarge", "SequenceFull", "TooManyElements", "more", "ElementsFull",
             "TooShort", "TruncatedValue", "TruncatedPadding", "SequenceTooLarge", "DecodeLimit"}

Result == [kind : TlvKinds, n : Nat]

Add(total, f) == IF total.kind = "OK" THEN AddLen(total.n, f.size) ELSE total

(* One step of the loop of encodedTLVsLen: AddLen (codec.go:78-91).        *)
LEMMA AddIs ==
  ASSUME NEW total \in Result, NEW f \in FieldSet
  PROVE  /\ total.kind = "OK" /\ total.n <= MaxSequenceSize =>
              Add(total, f) = IF total.n + Width(f) <= MaxSequenceSize THEN Ok(total.n + Width(f))
                              ELSE IF f.size > MaxValueSize THEN Failure("ValueTooLarge")
                              ELSE Failure("SequenceFull")
         /\ total.kind # "OK" => Add(total, f) = total
         /\ Add(total, f) \in Result
<1>1. f.size \in Nat /\ total.n \in Nat
  BY Zenon DEF FieldSet, Result
<1>2. Width(f) \in Nat /\ Width(f) >= 3 + f.size
  BY <1>1, WidthIs, Zenon
<1>3. MaxSequenceSize \in Nat
  BY SequenceSizeAssumption, Zenon
<1>q. QED
  BY <1>1, <1>2, <1>3 DEF Add, AddLen, Width, Ok, Failure, Result, TlvKinds, MaxValueSize

(* The totals of the loop of encodedTLVsLen (tlv.go:101-116).              *)
LEMMA LengthsAre ==
  ASSUME NEW fields \in Seq(FieldSet)
  PROVE  /\ Lengths(fields) \in [0..Len(fields) -> Result]
         /\ Lengths(fields)[0] = Ok(0)
         /\ \A i \in 1..Len(fields) : Lengths(fields)[i] = Add(Lengths(fields)[i - 1], fields[i])
<1>1. PICK n \in Nat : n = Len(fields)
  OBVIOUS
<1>2. \A i \in 1..n : fields[i] \in FieldSet
  BY <1>1
<1>3. PICK g : g = [i \in 1..n |-> [t \in Result |-> Add(t, fields[i])]]
  BY Zenon
<1>4. g \in Bodies(n, Result)
  BY <1>2, <1>3, AddIs, Zenon DEF Bodies
<1>5. Ok(0) \in Result
  BY Zenon DEF Ok, Result, TlvKinds
<1>6. PICK f : Loop(n, Result, Ok(0), g, f)
  BY <1>4, <1>5, Recursion, Zenon
<1>7. ASSUME NEW i \in 1..n PROVE f[i] = Add(f[i - 1], fields[i])
  <2>1. f[i - 1] \in Result
    BY <1>6 DEF Loop
  <2>2. f[i] = g[i][f[i - 1]]
    BY <1>6, Zenon DEF Loop
  <2>q. QED
    BY <1>3, <2>1, <2>2, Zenon
<1>8. f = [i \in 0..n |-> IF i = 0 THEN Ok(0) ELSE Add(f[i - 1], fields[i])]
  BY <1>6, <1>7 DEF Loop
<1>9. Lengths(fields) = [i \in 0..n |-> IF i = 0 THEN Ok(0) ELSE Add(Lengths(fields)[i - 1], fields[i])]
  BY <1>8, <1>1, Zenon DEF Lengths, Add
<1>10. PICK at : at = Lengths(fields)
  BY Zenon
<1>11. at = [i \in 0..n |-> IF i = 0 THEN Ok(0) ELSE Add(at[i - 1], fields[i])]
  BY <1>9, <1>10, Zenon
<1>12. /\ at[0] = Ok(0) /\ \A i \in 1..n : at[i] = Add(at[i - 1], fields[i])
       /\ DOMAIN at = 0..n
  BY <1>11
<1>13. \A i \in 0..n : at[i] \in Result
  <2>1. at[0] \in Result /\ \A i \in 1..n : at[i - 1] \in Result => at[i] \in Result
    BY <1>2, <1>5, <1>12, AddIs
  <2>q. QED
    BY <2>1, LoopType, Zenon
<1>q. QED
  BY <1>1, <1>10, <1>11, <1>12, <1>13, Zenon

(* encodedTLVsLen succeeds exactly when the fields fit, with their length. *)
LEMMA LengthExact ==
  ASSUME NEW fields \in Seq(FieldSet)
  PROVE  LET total == Offsets(fields)[Len(fields)] IN
         /\ total <= MaxSequenceSize => encodedTLVsLen(fields) = Ok(total)
         /\ total > MaxSequenceSize =>
              encodedTLVsLen(fields).kind \in {"TooManyElements", "ValueTooLarge", "SequenceFull"}
         /\ encodedTLVsLen(fields) \in Result
<1>1. PICK n : n = Len(fields)
  BY Zenon
<1>2. n \in Nat
  BY <1>1
<1>3. PICK at, ln : at = Offsets(fields) /\ ln = Lengths(fields)
  BY Zenon
<1>4. /\ at \in [0..n -> Nat] /\ at[0] = 0
      /\ \A i \in 1..n : at[i] = at[i - 1] + Width(fields[i])
  BY <1>1, <1>3, OffsetsAre, Zenon
<1>5. /\ ln \in [0..n -> Result] /\ ln[0] = Ok(0)
      /\ \A i \in 1..n : ln[i] = Add(ln[i - 1], fields[i])
  BY <1>1, <1>3, LengthsAre, Zenon
<1>6. MaxSequenceSize \in Nat
  BY SequenceSizeAssumption, Zenon
<1>7. PICK P : P = {j \in 0..n : /\ at[j] <= MaxSequenceSize => ln[j] = Ok(at[j])
                                 /\ at[j] > MaxSequenceSize =>
                                      ln[j].kind \in {"ValueTooLarge", "SequenceFull"}}
  BY Zenon
<1>8. 0 \in P
  BY <1>2, <1>4, <1>5, <1>6, <1>7
<1>9. ASSUME NEW j \in 1..n, j - 1 \in P PROVE j \in P
  <2>1. fields[j] \in FieldSet
    BY <1>1
  <2>2. ln[j - 1] \in Result /\ at[j - 1] \in Nat /\ at[j] \in Nat
    BY <1>2, <1>4, <1>5
  <2>3. Width(fields[j]) \in Nat
    BY <2>1, WidthIs, Zenon DEF FieldSet
  <2>4. ln[j] = Add(ln[j - 1], fields[j]) /\ at[j] = at[j - 1] + Width(fields[j])
    BY <1>4, <1>5, Zenon
  <2>5. CASE at[j - 1] <= MaxSequenceSize
    <3>1. ln[j - 1] = Ok(at[j - 1])
      BY <1>7, <1>9, <2>5, Zenon
    <3>2. ln[j - 1].kind = "OK" /\ ln[j - 1].n = at[j - 1]
      BY <3>1 DEF Ok
    <3>3. ln[j] = IF at[j] <= MaxSequenceSize THEN Ok(at[j])
                  ELSE IF fields[j].size > MaxValueSize THEN Failure("ValueTooLarge")
                  ELSE Failure("SequenceFull")
      BY <2>1, <2>2, <2>4, <2>5, <3>2, AddIs, Zenon
    <3>q. QED
      BY <1>6, <1>7, <2>2, <3>3 DEF Failure
  <2>6. CASE at[j - 1] > MaxSequenceSize
    <3>1. ln[j - 1].kind \in {"ValueTooLarge", "SequenceFull"}
      BY <1>7, <1>9, <2>6, Zenon
    <3>2. ln[j] = ln[j - 1]
      BY <3>1, <2>1, <2>2, <2>4, AddIs, Zenon
    <3>q. QED
      BY <1>6, <1>7, <2>2, <2>3, <2>4, <2>6, <3>1, <3>2, SMTT(40)
  <2>q. QED
    BY <1>6, <2>2, <2>5, <2>6
<1>10. n \in P
  <2>1. \A i \in 0..n : i \in P
    BY <1>2, <1>8, <1>9, UpTo, Zenon
  <2>q. QED
    BY <1>2, <2>1
<1>11. at[n] <= MaxSequenceSize => n <= MaxElements
  <2>1. 4 * n <= at[n] /\ at[n] \in Nat
    BY <1>1, <1>2, <1>3, <1>4, OffsetsGrow, SMTT(40)
  <2>q. QED
    BY <1>2, <1>6, <2>1 DEF MaxElements
<1>12. ln[n] \in Result /\ MaxElements \in Nat
  BY <1>2, <1>5, <1>6 DEF MaxElements
<1>13. encodedTLVsLen(fields) = IF n > MaxElements THEN Failure("TooManyElements") ELSE ln[n]
  BY <1>1, <1>3, Zenon DEF encodedTLVsLen
<1>14. at[n] \in Nat
  BY <1>2, <1>4
<1>15. CASE at[n] <= MaxSequenceSize
  BY <1>1, <1>2, <1>3, <1>6, <1>7, <1>10, <1>11, <1>12, <1>13, <1>14, <1>15
<1>16. CASE at[n] > MaxSequenceSize
  BY <1>1, <1>2, <1>3, <1>6, <1>7, <1>10, <1>12, <1>13, <1>14, <1>16 DEF Failure, Result, TlvKinds
<1>q. QED
  BY <1>6, <1>14, <1>15, <1>16

-----------------------------------------------------------------------------
(* What is read as a header of a buffer is a field (codec.go:108-112).     *)
LEMMA HeaderIs ==
  ASSUME NEW data, IsBuffer(data), NEW o
  PROVE  HeaderAt(data, o) \in FieldSet
BY Zenon DEF IsBuffer, HeaderAt, Garbage, Field, FieldSet

ScanSet == [kind : TlvKinds, offset : Nat, n : Nat]

(* What a round does: it goes on behind the next field if that is whole.   *)
LEMMA RoundIs ==
  ASSUME NEW data, IsBuffer(data), NEW s \in ScanSet
  PROVE  LET w == Width(HeaderAt(data, s.offset)) IN
         /\ Round(data, s) \in ScanSet
         /\ s.kind # "more" => Round(data, s) = s
         /\ s.kind = "more" /\ s.offset >= data.len => Round(data, s) = Scan("OK", s.offset, s.n)
         /\ s.kind = "more" /\ s.offset < data.len /\ s.n # MaxElements /\ s.offset + w <= data.len =>
              Round(data, s) = Scan("more", s.offset + w, s.n + 1)
         /\ s.kind = "more" /\ s.offset < data.len /\ (s.n = MaxElements \/ s.offset + w > data.len) =>
              /\ Round(data, s).kind \notin {"more", "OK"}
              /\ Round(data, s).offset = s.offset /\ Round(data, s).n = s.n
<1>1. PICK v, w, u, p : /\ v = HeaderAt(data, s.offset).size /\ w = Width(HeaderAt(data, s.offset))
                        /\ u = 3 + v /\ p = (4 - (u % 4)) % 4
  BY Zenon
<1>2. v \in Nat /\ u \in Nat /\ u >= 3
  <2>1. HeaderAt(data, s.offset) \in FieldSet
    BY HeaderIs, Zenon
  <2>q. QED
    BY <1>1, <2>1 DEF FieldSet
<1>3. w = u + p /\ p \in 0..3 /\ w \in Nat
  <2>1. w = Align4(u)
    BY <1>1, Zenon DEF Width, TLVHeaderSize
  <2>2. w = u + ((4 - (u % 4)) % 4)
    BY <1>2, <2>1, AlignIs, Zenon
  <2>3. \A k \in Nat : (4 - (k % 4)) % 4 \in 0..3
    OBVIOUS
  <2>4. w = u + p /\ p \in 0..3
    BY <1>1, <1>2, <2>2, <2>3, Zenon
  <2>q. QED
    BY <1>2, <2>4
<1>15. u = 3 + v
  BY <1>1, Zenon
<1>4. s.offset \in Nat /\ s.n \in Nat /\ s.kind \in TlvKinds /\ data.len \in Nat
  BY Zenon DEF ScanSet, IsBuffer
<1>5. s = [kind |-> s.kind, offset |-> s.offset, n |-> s.n]
  BY Zenon DEF ScanSet
<1>6. \A kind : [s EXCEPT !.kind = kind] = Scan(kind, s.offset, s.n)
  BY <1>5 DEF Scan
<1>7. Round(data, s) =
        IF s.kind # "more" THEN s
        ELSE IF s.offset >= data.len THEN Scan("OK", s.offset, s.n)
        ELSE IF s.n = MaxElements THEN Scan("ElementsFull", s.offset, s.n)
        ELSE IF data.len - s.offset < 3 THEN Scan("TooShort", s.offset, s.n)
        ELSE IF v > (data.len - s.offset) - 3 THEN Scan("TruncatedValue", s.offset, s.n)
        ELSE IF p > (data.len - s.offset) - u THEN Scan("TruncatedPadding", s.offset, s.n)
        ELSE Scan("more", (s.offset + u) + p, s.n + 1)
  BY <1>1, <1>6, Zenon DEF Round, TLVHeaderSize
<1>8. \A kind \in TlvKinds, n \in Nat, offset \in Nat :
        /\ Scan(kind, offset, n) \in ScanSet /\ Scan(kind, offset, n).kind = kind
        /\ Scan(kind, offset, n).offset = offset /\ Scan(kind, offset, n).n = n
  BY Zenon DEF Scan, ScanSet
<1>9. {"OK", "ElementsFull", "TooShort", "TruncatedValue", "TruncatedPadding", "more"} \subseteq TlvKinds
  BY Zenon DEF TlvKinds
<1>10. s.kind # "more" => Round(data, s) = s
  BY <1>7, Zenon
<1>11. s.kind = "more" /\ s.offset >= data.len => Round(data, s) = Scan("OK", s.offset, s.n)
  BY <1>7, Zenon
<1>12. ASSUME s.kind = "more", s.offset < data.len, s.n # MaxElements, s.offset + w <= data.len
       PROVE  Round(data, s) = Scan("more", s.offset + w, s.n + 1)
  <2>1. ~(s.offset >= data.len) /\ ~(data.len - s.offset < 3) /\ ~(v > (data.len - s.offset) - 3)
        /\ ~(p > (data.len - s.offset) - u) /\ (s.offset + u) + p = s.offset + w
    BY <1>15, <1>2, <1>3, <1>4, <1>12
  <2>q. QED
    BY <1>7, <1>12, <2>1, Zenon
<1>13. ASSUME s.kind = "more", s.offset < data.len, s.n = MaxElements \/ s.offset + w > data.len
       PROVE  /\ Round(data, s).kind \notin {"more", "OK"}
              /\ Round(data, s).offset = s.offset /\ Round(data, s).n = s.n
              /\ Round(data, s) \in ScanSet
  <2>1. ~(s.offset >= data.len)
    BY <1>4, <1>13
  <2>2. s.n # MaxElements /\ ~(data.len - s.offset < 3) /\ ~(v > (data.len - s.offset) - 3) =>
          p > (data.len - s.offset) - u
    BY <1>15, <1>2, <1>3, <1>4, <1>13
  <2>3. PICK kind \in {"ElementsFull", "TooShort", "TruncatedValue", "TruncatedPadding"} :
          Round(data, s) = Scan(kind, s.offset, s.n)
    BY <1>7, <1>13, <2>1, <2>2, Zenon
  <2>q. QED
    BY <1>4, <1>8, <1>9, <2>3
<1>14. Round(data, s) \in ScanSet
  <2>1. CASE s.kind # "more"
    BY <1>10, <2>1, Zenon
  <2>2. CASE s.kind = "more" /\ s.offset >= data.len
    BY <1>4, <1>8, <1>9, <1>11, <2>2
  <2>3. CASE s.kind = "more" /\ s.offset < data.len /\ s.n # MaxElements /\ s.offset + w <= data.len
    <3>1. s.offset + w \in Nat /\ s.n + 1 \in Nat
      BY <1>3, <1>4
    <3>q. QED
      BY <1>8, <1>9, <1>12, <2>3, <3>1
  <2>4. CASE s.kind = "more" /\ s.offset < data.len /\ (s.n = MaxElements \/ s.offset + w > data.len)
    BY <1>13, <2>4, Zenon
  <2>q. QED
    BY <1>3, <1>4, <2>1, <2>2, <2>3, <2>4
<1>q. QED
  BY <1>1, <1>10, <1>11, <1>12, <1>13, <1>14, Zenon

(* The states of the loop of Validate (codec.go:103-123).                  *)
LEMMA RoundsAre ==
  ASSUME NEW data, IsBuffer(data)
  PROVE  /\ Rounds(data) \in [0..(MaxElements + 1) -> ScanSet]
         /\ Rounds(data)[0] = Scan("more", 0, 0)
         /\ \A i \in 1..(MaxElements + 1) : Rounds(data)[i] = Round(data, Rounds(data)[i - 1])
<1>1. PICK n : n = MaxElements + 1
  BY Zenon
<1>2. n \in Nat
  BY <1>1, SequenceSizeAssumption DEF MaxElements
<1>3. PICK g : g = [i \in 1..n |-> [s \in ScanSet |-> Round(data, s)]]
  BY Zenon
<1>4. \A s \in ScanSet : Round(data, s) \in ScanSet
  BY RoundIs, Zenon
<1>5. g \in Bodies(n, ScanSet)
  BY <1>3, <1>4, Zenon DEF Bodies
<1>6. Scan("more", 0, 0) \in ScanSet
  BY Zenon DEF Scan, ScanSet, TlvKinds
<1>7. PICK f : Loop(n, ScanSet, Scan("more", 0, 0), g, f)
  BY <1>2, <1>5, <1>6, Recursion, Zenon
<1>8. ASSUME NEW i \in 1..n PROVE f[i] = Round(data, f[i - 1])
  <2>1. f[i - 1] \in ScanSet
    BY <1>2, <1>7 DEF Loop
  <2>2. f[i] = g[i][f[i - 1]]
    BY <1>7, Zenon DEF Loop
  <2>q. QED
    BY <1>3, <2>1, <2>2, Zenon
<1>9. f = [i \in 0..n |-> IF i = 0 THEN Scan("more", 0, 0) ELSE Round(data, f[i - 1])]
  BY <1>2, <1>7, <1>8 DEF Loop
<1>10. Rounds(data) = [i \in 0..n |-> IF i = 0 THEN Scan("more", 0, 0) ELSE Round(data, Rounds(data)[i - 1])]
  BY <1>9, <1>1, Zenon DEF Rounds
<1>11. PICK r : r = Rounds(data)
  BY Zenon
<1>12. r = [i \in 0..n |-> IF i = 0 THEN Scan("more", 0, 0) ELSE Round(data, r[i - 1])]
  BY <1>10, <1>11, Zenon
<1>13. /\ r[0] = Scan("more", 0, 0) /\ \A i \in 1..n : r[i] = Round(data, r[i - 1])
       /\ DOMAIN r = 0..n
  BY <1>2, <1>12
<1>14. \A i \in 0..n : r[i] \in ScanSet
  <2>1. r[0] \in ScanSet /\ \A i \in 1..n : r[i - 1] \in ScanSet => r[i] \in ScanSet
    BY <1>4, <1>6, <1>13, Zenon
  <2>q. QED
    BY <1>2, <2>1, LoopType, Zenon
<1>q. QED
  BY <1>1, <1>11, <1>12, <1>13, <1>14, Zenon

(* The offsets of the loop over Read (tlv.go:79-83).                       *)
LEMMA ReadsAre ==
  ASSUME NEW data, IsBuffer(data), NEW n \in Nat
  PROVE  /\ Reads(data, n) \in [0..n -> Nat]
         /\ Reads(data, n)[0] = 0
         /\ \A i \in 1..n : Reads(data, n)[i] =
              Reads(data, n)[i - 1] + Width(HeaderAt(data, Reads(data, n)[i - 1]))
<1>1. PICK next : next = [o \in Nat |-> o + Width(HeaderAt(data, o))]
  BY Zenon
<1>2. ASSUME NEW o \in Nat PROVE Width(HeaderAt(data, o)) \in Nat
  <2>1. HeaderAt(data, o) \in FieldSet
    BY HeaderIs, Zenon
  <2>q. QED
    BY <2>1, WidthIs, Zenon DEF FieldSet
<1>3. PICK g : g = [i \in 1..n |-> next]
  BY Zenon
<1>4. next \in [Nat -> Nat]
  BY <1>1, <1>2
<1>5. g \in Bodies(n, Nat) /\ 0 \in Nat
  BY <1>3, <1>4, Zenon DEF Bodies
<1>6. PICK f : Loop(n, Nat, 0, g, f)
  BY <1>5, Recursion, Zenon
<1>7. ASSUME NEW i \in 1..n PROVE f[i] = f[i - 1] + Width(HeaderAt(data, f[i - 1]))
  <2>1. f[i - 1] \in Nat
    BY <1>6 DEF Loop
  <2>2. f[i] = next[f[i - 1]]
    BY <1>3, <1>6, Zenon DEF Loop
  <2>q. QED
    BY <1>1, <2>1, <2>2, Zenon
<1>8. f = [i \in 0..n |-> IF i = 0 THEN 0 ELSE f[i - 1] + Width(HeaderAt(data, f[i - 1]))]
  BY <1>6, <1>7 DEF Loop
<1>9. Reads(data, n) =
        [i \in 0..n |-> IF i = 0 THEN 0 ELSE Reads(data, n)[i - 1] + Width(HeaderAt(data, Reads(data, n)[i - 1]))]
  BY <1>8, Zenon DEF Reads, Width
<1>10. PICK at : at = Reads(data, n)
  BY Zenon
<1>11. at = [i \in 0..n |-> IF i = 0 THEN 0 ELSE at[i - 1] + Width(HeaderAt(data, at[i - 1]))]
  BY <1>9, <1>10, Zenon
<1>12. /\ at[0] = 0 /\ \A i \in 1..n : at[i] = at[i - 1] + Width(HeaderAt(data, at[i - 1]))
       /\ DOMAIN at = 0..n
  BY <1>11
<1>13. \A i \in 0..n : at[i] \in Nat
  <2>1. ASSUME NEW i \in 1..n, at[i - 1] \in Nat PROVE at[i] \in Nat
    <3>1. PICK o \in Nat : o = at[i - 1]
      BY <2>1, Zenon
    <3>2. at[i] = o + Width(HeaderAt(data, o))
      BY <1>12, <3>1, Zenon
    <3>q. QED
      BY <1>2, <3>2
  <2>2. at[0] \in Nat
    BY <1>12
  <2>q. QED
    BY <2>1, <2>2, LoopType, Zenon
<1>q. QED
  BY <1>10, <1>11, <1>12, <1>13, Zenon

(* The second pass visits the same offsets whatever its length.            *)
LEMMA ReadsPrefix ==
  ASSUME NEW data, IsBuffer(data), NEW m \in Nat, NEW n \in Nat, n <= m
  PROVE  \A i \in 0..n : Reads(data, m)[i] = Reads(data, n)[i]
<1>1. PICK f, g : f = Reads(data, m) /\ g = Reads(data, n)
  BY Zenon
<1>2. f[0] = 0 /\ \A i \in 1..m : f[i] = f[i - 1] + Width(HeaderAt(data, f[i - 1]))
  BY <1>1, ReadsAre, Zenon
<1>3. g[0] = 0 /\ \A i \in 1..n : g[i] = g[i - 1] + Width(HeaderAt(data, g[i - 1]))
  BY <1>1, ReadsAre, Zenon
<1>4. PICK P : P = {j \in Nat : f[j] = g[j]}
  BY Zenon
<1>5. ASSUME NEW i \in 1..n, i - 1 \in P PROVE i \in P
  <2>1. f[i - 1] = g[i - 1] /\ i \in 1..m
    BY <1>4, <1>5
  <2>q. QED
    BY <1>2, <1>3, <1>4, <2>1
<1>6. 0 \in P
  BY <1>2, <1>3, <1>4, Zenon
<1>7. \A i \in 0..n : i \in P
  BY <1>5, <1>6, UpTo, Zenon
<1>q. QED
  BY <1>1, <1>4, <1>7, Zenon

(* Fields found one behind the other end where they are read.              *)
LEMMA ReadsOffsets ==
  ASSUME NEW data, IsBuffer(data), NEW F \in Seq(FieldSet),
         \/ \A i \in 1..Len(F) : F[i] = HeaderAt(data, Reads(data, Len(F))[i - 1])
         \/ \A i \in 1..Len(F) : F[i] = HeaderAt(data, Offsets(F)[i - 1])
  PROVE  \A i \in 0..Len(F) : Reads(data, Len(F))[i] = Offsets(F)[i]
<1>0. PICK n \in Nat : n = Len(F)
  OBVIOUS
<1>1. PICK f, g : f = Reads(data, n) /\ g = Offsets(F)
  BY Zenon
<1>2. f[0] = 0 /\ \A i \in 1..n : f[i] = f[i - 1] + Width(HeaderAt(data, f[i - 1]))
  BY <1>1, ReadsAre, Zenon
<1>3. g[0] = 0 /\ \A i \in 1..n : g[i] = g[i - 1] + Width(F[i])
  BY <1>0, <1>1, OffsetsAre, Zenon
<1>4. PICK P : P = {j \in Nat : f[j] = g[j]}
  BY Zenon
<1>5. ASSUME NEW i \in 1..n, i - 1 \in P PROVE i \in P
  <2>1. f[i - 1] = g[i - 1]
    BY <1>4, <1>5, Zenon
  <2>2. F[i] = HeaderAt(data, f[i - 1])
    BY <1>0, <1>1, <2>1, Zenon
  <2>q. QED
    BY <1>2, <1>3, <1>4, <2>1, <2>2
<1>6. 0 \in P
  BY <1>2, <1>3, <1>4, Zenon
<1>7. \A i \in 0..n : i \in P
  BY <1>5, <1>6, UpTo, Zenon
<1>q. QED
  BY <1>0, <1>1, <1>4, <1>7, Zenon

InLimits(data, max) == data.len <= MaxSequenceSize /\ (max > 0 => data.len <= max)

(* The first pass: it counts fields that end with the buffer.              *)
LEMMA CountedFields ==
  ASSUME NEW data, IsBuffer(data), NEW max \in Int, Validate(data, max).kind = "OK"
  PROVE  LET n == Validate(data, max).n IN
         /\ n \in 0..MaxElements /\ InLimits(data, max)
         /\ Reads(data, n)[n] = data.len
<1>1. PICK m \in Nat : m = MaxElements
  BY SequenceSizeAssumption DEF MaxElements
<1>2. PICK r : r = Rounds(data)
  BY Zenon
<1>3. InLimits(data, max) /\ Validate(data, max) = r[m + 1]
  <2>1. \A kind : Failure(kind).kind = kind
    BY Zenon DEF Failure
  <2>2. ~(data.len > MaxSequenceSize) /\ ~(max > 0 /\ data.len > max)
    BY <2>1 DEF Validate
  <2>q. QED
    BY <1>1, <1>2, <2>2, SequenceSizeAssumption DEF Validate, InLimits, IsBuffer
<1>4. r \in [0..(m + 1) -> ScanSet] /\ r[0] = Scan("more", 0, 0)
      /\ \A i \in 1..(m + 1) : r[i] = Round(data, r[i - 1])
  BY <1>1, <1>2, RoundsAre, Zenon
<1>5. PICK at : at = Reads(data, m)
  BY Zenon
<1>6. at \in [0..m -> Nat] /\ at[0] = 0 /\ \A i \in 1..m : at[i] = at[i - 1] + Width(HeaderAt(data, at[i - 1]))
  BY <1>5, ReadsAre, Zenon
<1>7. PICK T : T = {s \in ScanSet : /\ s.n \in 0..m /\ s.offset = at[s.n] /\ s.offset <= data.len
                                    /\ s.kind = "OK" => s.offset = data.len}
  BY Zenon
<1>8. Scan("more", 0, 0) \in T
  BY <1>1, <1>6, <1>7 DEF Scan, ScanSet, TlvKinds, IsBuffer
<1>9. ASSUME NEW s \in T PROVE Round(data, s) \in T
  <2>1. s \in ScanSet /\ s.n \in 0..m /\ s.offset = at[s.n] /\ s.offset \in Nat /\ s.offset <= data.len
        /\ data.len \in Nat /\ (s.kind = "OK" => s.offset = data.len)
    BY <1>7, Zenon DEF ScanSet, IsBuffer
  <2>2. PICK w : w = Width(HeaderAt(data, s.offset))
    BY Zenon
  <2>3. PICK t : t = Round(data, s)
    BY Zenon
  <2>4. w \in Nat
    <3>1. HeaderAt(data, s.offset) \in FieldSet
      BY HeaderIs, Zenon
    <3>q. QED
      BY <2>2, <3>1, WidthIs, Zenon DEF FieldSet
  <2>5. /\ t \in ScanSet
        /\ s.kind # "more" => t = s
        /\ s.kind = "more" /\ s.offset >= data.len => t = Scan("OK", s.offset, s.n)
        /\ s.kind = "more" /\ s.offset < data.len /\ s.n # m /\ s.offset + w <= data.len =>
              t = Scan("more", s.offset + w, s.n + 1)
        /\ s.kind = "more" /\ s.offset < data.len /\ (s.n = m \/ s.offset + w > data.len) =>
              t.kind # "OK" /\ t.offset = s.offset /\ t.n = s.n
    BY <1>1, <2>1, <2>2, <2>3, RoundIs, Zenon
  <2>6. CASE s.kind # "more"
    BY <2>3, <2>5, <2>6, Zenon
  <2>7. CASE s.kind = "more" /\ s.offset >= data.len
    <3>1. s.offset = data.len /\ t.offset = s.offset /\ t.n = s.n
      BY <2>1, <2>5, <2>7 DEF Scan
    <3>q. QED
      BY <1>7, <2>1, <2>3, <2>5, <3>1, Zenon
  <2>8. CASE s.kind = "more" /\ s.offset < data.len /\ s.n # m /\ s.offset + w <= data.len
    <3>1. t.offset = s.offset + w /\ t.n = s.n + 1 /\ t.kind = "more"
      BY <2>5, <2>8 DEF Scan
    <3>2. s.n + 1 \in 1..m /\ (s.n + 1) - 1 = s.n
      BY <2>1, <2>8
    <3>3. at[s.n + 1] = s.offset + w
      BY <1>6, <2>1, <2>2, <3>2, Zenon
    <3>q. QED
      BY <1>7, <2>1, <2>3, <2>5, <2>8, <3>1, <3>2, <3>3
  <2>9. CASE s.kind = "more" /\ s.offset < data.len /\ (s.n = m \/ s.offset + w > data.len)
    BY <1>7, <2>1, <2>3, <2>5, <2>9, Zenon
  <2>q. QED
    BY <2>1, <2>4, <2>6, <2>7, <2>8, <2>9
<1>10. \A i \in 0..(m + 1) : r[i] \in T
  <2>1. r[0] \in T /\ \A i \in 1..(m + 1) : r[i - 1] \in T => r[i] \in T
    BY <1>4, <1>8, <1>9, Zenon
  <2>2. m + 1 \in Nat
    OBVIOUS
  <2>q. QED
    BY <2>1, <2>2, LoopType, Zenon
<1>11. PICK s \in T : s = Validate(data, max)
  BY <1>3, <1>10
<1>12. s.n \in 0..m /\ at[s.n] = data.len
  BY <1>7, <1>11, Zenon
<1>13. Reads(data, s.n)[s.n] = at[s.n]
  BY <1>5, <1>12, ReadsPrefix
<1>q. QED
  BY <1>1, <1>3, <1>11, <1>12, <1>13, Zenon

(* What a decode accepts are whole fields that fill the buffer.            *)
LEMMA Decoded ==
  ASSUME NEW data, IsBuffer(data), NEW max \in Int, DecodeTLVs(data, max).kind = "OK"
  PROVE  LET F == DecodeTLVs(data, max).fields IN
         /\ F \in Seq(FieldSet) /\ Len(F) <= MaxElements /\ InLimits(data, max)
         /\ Offsets(F)[Len(F)] = data.len
         /\ \A i \in 1..Len(F) : F[i] = HeaderAt(data, Offsets(F)[i - 1])
<1>1. Validate(data, max).kind = "OK"
  BY Zenon DEF DecodeTLVs
<1>2. PICK n : n = Validate(data, max).n
  BY Zenon
<1>3. n \in 0..MaxElements /\ n \in Nat /\ n <= MaxElements
  BY <1>1, <1>2, CountedFields, SequenceSizeAssumption DEF MaxElements
<1>4. InLimits(data, max) /\ Reads(data, n)[n] = data.len
  BY <1>1, <1>2, CountedFields, Zenon
<1>5. PICK F : F = [i \in 1..n |-> HeaderAt(data, Reads(data, n)[i - 1])]
  BY Zenon
<1>6. DecodeTLVs(data, max).fields = F
  BY <1>1, <1>2, <1>5, Zenon DEF DecodeTLVs, ReadAll
<1>7. \A i \in 1..n : F[i] = HeaderAt(data, Reads(data, n)[i - 1]) /\ F[i] \in FieldSet
  BY <1>5, HeaderIs, Zenon
<1>8. F \in Seq(FieldSet) /\ Len(F) = n
  BY <1>3, <1>5, <1>7
<1>9. \A i \in 0..n : Reads(data, n)[i] = Offsets(F)[i]
  BY <1>7, <1>8, ReadsOffsets, Zenon
<1>10. \A i \in 1..n : F[i] = HeaderAt(data, Offsets(F)[i - 1])
  BY <1>3, <1>7, <1>9
<1>q. QED
  BY <1>3, <1>4, <1>6, <1>8, <1>9, <1>10, SMTT(40)

(* Whole fields that fill a buffer within the limits are what is decoded.  *)
LEMMA Decodable ==
  ASSUME NEW data, IsBuffer(data), NEW max \in Int, NEW F \in Seq(FieldSet), InLimits(data, max),
         Offsets(F)[Len(F)] = data.len,
         \A i \in 1..Len(F) : F[i] = HeaderAt(data, Offsets(F)[i - 1])
  PROVE  DecodeTLVs(data, max) = [kind |-> "OK", fields |-> F]
<1>1. PICK m \in Nat : m = MaxElements
  BY SequenceSizeAssumption DEF MaxElements
<1>2. PICK r : r = Rounds(data)
  BY Zenon
<1>3. PICK c \in Nat : c = Len(F)
  OBVIOUS
<1>4. PICK at : at = Offsets(F)
  BY Zenon
<1>5. Validate(data, max) = r[m + 1]
  <2>1. ~(data.len > MaxSequenceSize) /\ ~(max > 0 /\ data.len > max)
    BY SequenceSizeAssumption DEF InLimits, IsBuffer
  <2>q. QED
    BY <1>1, <1>2, <2>1, Zenon DEF Validate
<1>6. r \in [0..(m + 1) -> ScanSet] /\ r[0] = Scan("more", 0, 0)
      /\ \A i \in 1..(m + 1) : r[i] = Round(data, r[i - 1])
  BY <1>1, <1>2, RoundsAre, Zenon
<1>7. at \in [0..c -> Nat] /\ at[0] = 0 /\ \A i \in 1..c : at[i] = at[i - 1] + Width(F[i])
  BY <1>3, <1>4, OffsetsAre, Zenon
<1>8. at[c] = data.len /\ data.len \in Nat
  BY <1>3, <1>4, Zenon DEF IsBuffer
<1>9. c <= m
  <2>0. c \in 0..Len(F)
    BY <1>3
  <2>1. 4 * c <= at[c]
    BY <1>4, <2>0, OffsetsGrow, Zenon
  <2>q. QED
    BY <1>1, <1>8, <2>1, SequenceSizeAssumption DEF MaxElements, InLimits
<1> DEFINE Behind(i) == /\ i <= c => r[i] = Scan("more", at[i], i)
                        /\ i > c => r[i] = Scan("OK", data.len, c)
<1> HIDE DEF Behind
<1>10. PICK P : P = {i \in 0..(m + 1) : Behind(i)}
  BY Zenon
<1>11. 0 \in P
  BY <1>6, <1>7, <1>10 DEF Behind
<1>12. ASSUME NEW i \in 1..(m + 1), i - 1 \in P PROVE i \in P
  <2>1. PICK s \in ScanSet : s = r[i - 1]
    BY <1>6
  <2>2. r[i] = Round(data, s)
    BY <1>6, <2>1, Zenon
  <2>0. /\ i - 1 <= c => s = Scan("more", at[i - 1], i - 1)
        /\ i - 1 > c => s = Scan("OK", data.len, c)
    <3>1. PICK j \in P : j = i - 1
      BY <1>12, Zenon
    <3>2. /\ j <= c => r[j] = Scan("more", at[j], j)
          /\ j > c => r[j] = Scan("OK", data.len, c)
      BY <1>10, Zenon DEF Behind
    <3>q. QED
      BY <2>1, <3>1, <3>2, Zenon
  <2>3. CASE i <= c
    <3>1. s = Scan("more", at[i - 1], i - 1)
      BY <2>0, <2>3
    <3>2. s.kind = "more" /\ s.offset = at[i - 1] /\ s.n = i - 1
      BY <3>1, Zenon DEF Scan
    <3>3. i \in 1..c /\ at[i - 1] \in Nat /\ at[i] \in Nat
      BY <1>7, <2>3
    <3>4. HeaderAt(data, s.offset) = F[i]
      BY <1>3, <1>4, <3>2, <3>3, Zenon
    <3>5. Width(F[i]) \in Nat /\ Width(F[i]) >= 4
      <4>1. F[i] \in FieldSet
        BY <1>3, <3>3
      <4>q. QED
        BY <4>1, WidthIs, Zenon DEF FieldSet
    <3>6. at[i] = at[i - 1] + Width(F[i])
      BY <1>7, <3>3, Zenon
    <3>7. at[i] <= data.len
      <4>1. at[i - 1] + Width(F[i]) <= at[c]
        <5>1. c \in 0..Len(F)
          BY <1>3
        <5>q. QED
          BY <1>4, <3>3, <5>1, OffsetsGrow, Zenon
      <4>q. QED
        BY <1>8, <3>6, <4>1, Zenon
    <3>8. s.offset < data.len /\ s.n # m /\ s.offset + Width(F[i]) <= data.len /\ s.n + 1 = i
      BY <1>8, <1>9, <2>3, <3>2, <3>3, <3>5, <3>6, <3>7
    <3>9. Round(data, s) = Scan("more", s.offset + Width(F[i]), s.n + 1)
      BY <1>1, <3>2, <3>4, <3>8, RoundIs, Zenon
    <3>10. r[i] = Scan("more", at[i], i)
      BY <2>2, <3>2, <3>6, <3>8, <3>9, Zenon
    <3>q. QED
      BY <1>10, <2>3, <3>10 DEF Behind
  <2>4. CASE i = c + 1
    <3>1. s = Scan("more", data.len, c)
      <4>1. i - 1 = c
        BY <2>4
      <4>q. QED
        BY <1>8, <2>0, <4>1
    <3>2. s.kind = "more" /\ s.offset = data.len /\ s.n = c /\ s.offset >= data.len
      BY <1>8, <3>1, SMTT(40) DEF Scan
    <3>3. Round(data, s) = Scan("OK", data.len, c)
      BY <3>2, RoundIs, Zenon
    <3>q. QED
      BY <1>10, <2>2, <2>4, <3>3 DEF Behind
  <2>5. CASE i > c + 1
    <3>1. s = Scan("OK", data.len, c)
      BY <2>0, <2>5
    <3>2. s.kind # "more"
      BY <3>1, Zenon DEF Scan
    <3>3. Round(data, s) = s
      BY <3>2, RoundIs, Zenon
    <3>q. QED
      BY <1>10, <2>2, <2>5, <3>1, <3>3 DEF Behind
  <2>q. QED
    BY <2>3, <2>4, <2>5
<1>13. \A i \in 0..(m + 1) : i \in P
  <2>1. m + 1 \in Nat
    OBVIOUS
  <2>q. QED
    BY <1>11, <1>12, <2>1, UpTo, Zenon
<1>14. Validate(data, max) = Scan("OK", data.len, c)
  BY <1>5, <1>9, <1>10, <1>13 DEF Behind
<1>15. \A i \in 0..c : Reads(data, c)[i] = at[i]
  BY <1>3, <1>4, ReadsOffsets, Zenon
<1>16. ReadAll(data, c) = F
  <2>1. ReadAll(data, c) = [i \in 1..c |-> HeaderAt(data, Reads(data, c)[i - 1])]
    BY Zenon DEF ReadAll
  <2>2. \A i \in 1..c : HeaderAt(data, Reads(data, c)[i - 1]) = F[i]
    BY <1>3, <1>4, <1>15
  <2>q. QED
    BY <1>3, <2>1, <2>2
<1>q. QED
  BY <1>14, <1>16 DEF DecodeTLVs, Scan

-----------------------------------------------------------------------------
(* The sizes of the protocol and how they follow from the largest frame.   *)
LEMMA Limits ==
  /\ MaxUint8 \in Nat /\ MaxSequenceSize \in Nat /\ MaxFrameSize = MaxSequenceSize
  /\ MaxEncryptedPayloadSize \in Nat /\ MaxEncryptedPayloadSize = MaxSequenceSize - 56
  /\ MaxEncryptedPayloadSize >= 36 + MaxUint8
  /\ MaxEncryptedPayloadSize >= 1 + 9 * MaxUint8
  /\ MaxReasonSize = MaxEncryptedPayloadSize - 6
  /\ MaxErrorContextSize = MaxEncryptedPayloadSize - 2
  /\ MaxHandshakePayloadSize = MaxSequenceSize - 40 /\ MaxSequenceSize >= 136
<1>1. MaxUint8 \in Nat /\ MaxSequenceSize \in Nat
  BY SequenceSizeAssumption, WireAssumption, Zenon
<1>2. MaxEncryptedPayloadSize = MaxSequenceSize - 56 /\ MaxFrameSize = MaxSequenceSize
  BY <1>1 DEF MaxEncryptedPayloadSize, MaxFrameSize, HeaderSize, AEADTagSize
<1>3. MaxEncryptedPayloadSize >= 36 + MaxUint8 /\ MaxEncryptedPayloadSize >= 1 + 8 * MaxUint8 + MaxUint8
  BY WireAssumption, Zenon
<1>4. MaxEncryptedPayloadSize \in Nat
  BY <1>1, <1>2, <1>3
<1>5. MaxHandshakePayloadSize >= 96 /\ MaxHandshakePayloadSize = MaxSequenceSize - 40
  BY WireAssumption, Zenon DEF MaxHandshakePayloadSize, MaxFrameSize, HeaderSize
<1>q. QED
  BY <1>1, <1>2, <1>3, <1>4, <1>5 DEF MaxReasonSize, MaxErrorContextSize, TLVHeaderSize

(* A text of size bytes fits into a payload exactly when it is no longer   *)
(* than MaxReasonSize: the limit is the largest one (messages.go:30).      *)
LEMMA ReasonFits ==
  ASSUME NEW size \in Nat
  PROVE  LET most == Align4(TLVHeaderSize + MaxReasonSize) IN
         /\ most = MaxEncryptedPayloadSize - 3
         /\ size <= MaxReasonSize <=> 2 + Align4(TLVHeaderSize + size) <= MaxEncryptedPayloadSize
         /\ Align4(TLVHeaderSize + size) <= most <=> size <= MaxReasonSize
<1>1. PICK e \in Nat : e = MaxEncryptedPayloadSize /\ e >= 36 /\ e % 4 = 3
  <2>1. MaxSequenceSize % 4 = 3
    BY WireAssumption, Zenon DEF MaxFrameSize
  <2>q. QED
    BY <2>1, Limits
<1>2. TLVHeaderSize + MaxReasonSize = e - 3 /\ TLVHeaderSize + size = 3 + size
      /\ MaxReasonSize = e - 6
  BY <1>1, Limits DEF TLVHeaderSize
<1>3. Align4(e - 3) = e - 3
  BY <1>1 DEF Align4
<1>4. PICK a \in Nat : a = Align4(3 + size) /\ a % 4 = 0 /\ 3 + size <= a /\ a <= size + 6
  <2>1. PICK u \in Nat : u = 3 + size
    OBVIOUS
  <2>2. PICK a : a = Align4(u)
    BY Zenon
  <2>3. a \in Nat /\ a % 4 = 0 /\ u <= a /\ a <= u + 3
    BY <2>2, AlignIs, Zenon
  <2>q. QED
    BY <2>1, <2>2, <2>3
<1>5. size <= e - 6 <=> 2 + a <= e
  BY <1>1, <1>4
<1>6. a <= e - 3 <=> size <= e - 6
  BY <1>1, <1>4
<1>q. QED
  BY <1>1, <1>2, <1>3, <1>4, <1>5, <1>6, Zenon

(* What is written reads as the same fields.                               *)
LEMMA WrittenBack ==
  ASSUME NEW F \in Seq(FieldSet), NEW n, n = Offsets(F)[Len(F)], NEW max \in Int,
         n <= MaxSequenceSize, max > 0 => n <= max
  PROVE  DecodeTLVs(Write(F, n), max) = [kind |-> "OK", fields |-> F]
<1>1. PICK w : w = Write(F, n)
  BY Zenon
<1>2. PICK at : at = Offsets(F)
  BY Zenon
<1>3. /\ DOMAIN w.at = {at[i - 1] : i \in 1..Len(F)} /\ w.len = n
      /\ \A i \in 1..Len(F) : w.at[at[i - 1]] = F[i]
  <2>1. Holds(F, w) /\ w.len = n
    BY <1>1, Written, Zenon
  <2>q. QED
    BY <1>2, <2>1, Zenon DEF Holds
<1>4. n \in Nat
  <2>1. at \in [0..Len(F) -> Nat] /\ Len(F) \in 0..Len(F)
    BY <1>2, OffsetsAre
  <2>q. QED
    BY <1>2, <2>1, Zenon
<1>5. \A i \in 1..Len(F) : F[i] \in FieldSet
  OBVIOUS
<1>6. IsBuffer(w)
  BY <1>3, <1>4, <1>5, Zenon DEF IsBuffer
<1>7. InLimits(w, max)
  BY <1>3, Zenon DEF InLimits
<1>8. \A i \in 1..Len(F) : F[i] = HeaderAt(w, at[i - 1])
  BY <1>3, Zenon DEF HeaderAt
<1>q. QED
  BY <1>1, <1>2, <1>3, <1>6, <1>7, <1>8, Decodable, Zenon

Total(m) == Offsets(m.fields)[Len(m.fields)]

(* EncryptedData.MarshalBinary in one case distinction, and EncodedLen     *)
(* with it (messages_tlv.go:29-80).                                        *)
LEMMA DataIs ==
  ASSUME NEW m \in DataMessage
  PROVE  /\ Total(m) \in Nat
         /\ EncryptedDataLen(m).kind = MarshalData(m).kind
         /\ MarshalData(m).kind = "OK" <=>
              ~rejectDuplicateTLVs(m.fields) /\ Total(m) <= MaxEncryptedPayloadSize - 4
         /\ MarshalData(m).kind = "OK" =>
              /\ MarshalData(m).payload = DataPayload(4 + Total(m), TRUE, Write(m.fields, Total(m)))
              /\ EncryptedDataLen(m) = Ok(4 + Total(m))
<1>1. PICK F, n, r : F = m.fields /\ n = Total(m) /\ r = encodedTLVsLen(F)
  BY Zenon
<1>2. F \in Seq(FieldSet)
  BY <1>1, Zenon DEF DataMessage
<1>3. n = Offsets(F)[Len(F)]
  BY <1>1, Zenon DEF Total
<1>4. n \in Nat
  <2>1. Offsets(F) \in [0..Len(F) -> Nat] /\ Len(F) \in 0..Len(F)
    BY <1>2, OffsetsAre
  <2>q. QED
    BY <1>3, <2>1, Zenon
<1>5. /\ n <= MaxSequenceSize => r = Ok(n)
      /\ n > MaxSequenceSize => r.kind # "OK"
  BY <1>1, <1>2, <1>3, LengthExact, Zenon
<1>6. PICK e \in Nat : e = MaxEncryptedPayloadSize - 4 /\ e <= MaxSequenceSize
  BY Limits
<1>7. \A k \in Nat : Ok(k).kind = "OK" /\ Ok(k).n = k
  BY Zenon DEF Ok
<1>8. n > MaxSequenceSize \/ (n <= MaxSequenceSize /\ r.kind = "OK" /\ r.n = n)
  BY <1>4, <1>5, <1>7, Limits
<1>9. \A k : Failure(k).kind = k /\ Bad(k).kind = k
  BY Zenon DEF Failure, Bad
<1>d. PICK d \in BOOLEAN : d = rejectDuplicateTLVs(F)
  BY Zenon DEF rejectDuplicateTLVs
<1>0. PICK A, B : A = EncryptedDataLen(m) /\ B = MarshalData(m)
  BY Zenon
<1>10. A = IF d THEN Failure("DuplicateMessageTLV")
         ELSE IF r.kind # "OK" THEN r
         ELSE IF r.n > e THEN Failure("MessageLength")
         ELSE Ok(4 + r.n)
  BY <1>0, <1>1, <1>6, <1>d, Zenon DEF EncryptedDataLen
<1>11. B = IF d THEN Bad("DuplicateMessageTLV")
         ELSE IF r.kind # "OK" THEN Bad(r.kind)
         ELSE IF r.n > e THEN Bad("MessageLength")
         ELSE Good(DataPayload(4 + r.n, TRUE, Write(F, r.n)))
  <2>1. PICK x : x = EncodeTLVs(F)
    BY Zenon
  <2>2. x.kind = r.kind /\ (r.kind = "OK" => x.data = Write(F, r.n))
    BY <1>1, <2>1, Zenon DEF EncodeTLVs
  <2>3. Write(F, r.n).len = r.n
    BY Zenon DEF Write, Buffer
  <2>q. QED
    BY <1>0, <1>1, <1>6, <1>d, <2>1, <2>2, <2>3, Zenon DEF MarshalData
<1>12. \A p : Good(p).kind = "OK" /\ Good(p).payload = p
  BY Zenon DEF Good
<1>16. /\ A.kind = B.kind
       /\ B.kind = "OK" <=> ~d /\ n <= e
       /\ B.kind = "OK" => B.payload = DataPayload(4 + n, TRUE, Write(F, n)) /\ A = Ok(4 + n)
  <2>1. CASE d
    <3>1. A.kind = "DuplicateMessageTLV" /\ B.kind = "DuplicateMessageTLV"
      BY <1>9, <1>10, <1>11, <2>1, Zenon
    <3>q. QED
      BY <2>1, <3>1, Zenon
  <2>2. CASE ~d /\ n > MaxSequenceSize
    <3>1. A = r /\ B = Bad(r.kind) /\ r.kind # "OK"
      BY <1>5, <1>10, <1>11, <2>2, Zenon
    <3>2. ~(n <= e)
      BY <1>4, <1>6, <2>2, Limits
    <3>q. QED
      BY <1>9, <3>1, <3>2, Zenon
  <2>3. CASE ~d /\ n <= MaxSequenceSize
    <3>1. r.kind = "OK" /\ r.n = n
      BY <1>4, <1>5, <1>7, <2>3, Zenon
    <3>2. CASE n > e
      <4>1. A.kind = "MessageLength" /\ B.kind = "MessageLength"
        BY <1>9, <1>10, <1>11, <2>3, <3>1, <3>2, Zenon
      <4>q. QED
        BY <1>4, <3>2, <4>1
    <3>3. CASE ~(n > e)
      <4>1. A = Ok(4 + n) /\ B = Good(DataPayload(4 + n, TRUE, Write(F, n)))
        BY <1>10, <1>11, <2>3, <3>1, <3>3, Zenon
      <4>2. A.kind = "OK" /\ n <= e
        BY <1>4, <1>6, <1>7, <3>3, <4>1
      <4>3. B.kind = "OK" /\ B.payload = DataPayload(4 + n, TRUE, Write(F, n))
        BY <1>12, <4>1, Zenon
      <4>q. QED
        BY <2>3, <4>1, <4>2, <4>3, Zenon
    <3>q. QED
      BY <3>2, <3>3, Zenon
  <2>4. n > MaxSequenceSize \/ n <= MaxSequenceSize
    BY <1>4, Limits
  <2>q. QED
    BY <2>1, <2>2, <2>3, <2>4, Zenon
<1>q. QED
  BY <1>0, <1>1, <1>4, <1>6, <1>16, <1>d, Zenon

-----------------------------------------------------------------------------
(* Every encoder and its decoder.                                          *)

(* The fields of results.                                                  *)
LEMMA Results ==
  /\ \A p : Good(p).kind = "OK" /\ Good(p).payload = p
  /\ \A k : Bad(k).kind = k /\ Failure(k).kind = k
  /\ \A n : Ok(n).kind = "OK" /\ Ok(n).n = n
BY Zenon DEF Good, Bad, Failure, Ok

(* UnmarshalBinary undoes MarshalBinary for EncryptedData                  *)
(* (messages_tlv.go:65-99).                                                *)
LEMMA DataBack ==
  ASSUME NEW m \in DataMessage, MarshalData(m).kind = "OK"
  PROVE  UnmarshalData(MarshalData(m).payload) = m
<1>1. PICK F, n : F = m.fields /\ n = Total(m)
  BY Zenon
<1>2. F \in Seq(FieldSet) /\ m = [kind |-> "data", fields |-> F]
  BY <1>1, Zenon DEF DataMessage
<1>3. /\ n \in Nat /\ ~rejectDuplicateTLVs(F) /\ n <= MaxEncryptedPayloadSize - 4
      /\ MarshalData(m).payload = DataPayload(4 + n, TRUE, Write(F, n))
  BY <1>1, DataIs, Zenon
<1>4. n = Offsets(F)[Len(F)]
  BY <1>1, Zenon DEF Total
<1>5. DecodeTLVs(Write(F, n), MaxEncryptedPayloadSize - 4) = [kind |-> "OK", fields |-> F]
  <2>1. MaxEncryptedPayloadSize - 4 \in Int /\ n <= MaxSequenceSize
    BY <1>3, Limits
  <2>q. QED
    BY <1>2, <1>3, <1>4, <2>1, WrittenBack, Zenon
<1>6. PICK p : p = MarshalData(m).payload
  BY Zenon
<1>7. p.len = 4 + n /\ p.zero /\ p.tlv = Write(F, n)
  BY <1>3, <1>6 DEF DataPayload
<1>8. ~(p.len < 4)
  BY <1>3, <1>7
<1>9. PICK t : t = DecodeTLVs(p.tlv, MaxEncryptedPayloadSize - 4)
  BY Zenon
<1>10. t.kind = "OK" /\ t.fields = F
  BY <1>5, <1>7, <1>9
<1>11. UnmarshalData(p) = [kind |-> "data", fields |-> F]
  BY <1>3, <1>7, <1>8, <1>9, <1>10, Zenon DEF UnmarshalData
<1>q. QED
  BY <1>2, <1>6, <1>11, Zenon

(* The offsets of a single field.                                          *)
LEMMA Single ==
  ASSUME NEW f \in FieldSet
  PROVE  /\ <<f>> \in Seq(FieldSet) /\ Len(<<f>>) = 1 /\ Offsets(<<f>>)[1] = Width(f)
         /\ ~rejectDuplicateTLVs(<<f>>)
<1>1. PICK F : F = <<f>>
  BY Zenon
<1>2. F \in Seq(FieldSet) /\ Len(F) = 1 /\ F[1] = f /\ DOMAIN F = {1}
  BY <1>1
<1>3. Offsets(F)[1] = Width(f)
  <2>1. 1 \in 1..Len(F) /\ 1 - 1 = 0
    BY <1>2
  <2>2. Offsets(F)[0] = 0 /\ Offsets(F)[1] = Offsets(F)[0] + Width(f)
    BY <1>2, <2>1, OffsetsAre, Zenon
  <2>3. Width(f) \in Nat
    BY WidthIs, Zenon DEF FieldSet
  <2>q. QED
    BY <2>2, <2>3
<1>4. ~rejectDuplicateTLVs(F)
  BY <1>2, Zenon DEF rejectDuplicateTLVs
<1>q. QED
  BY <1>1, <1>2, <1>3, <1>4, Zenon

(* What a SessionClose is encoded as.                                      *)
LEMMA CloseIs ==
  ASSUME NEW m \in CloseMessage
  PROVE  LET size == m.text.size
             n == Align4(TLVHeaderSize + size)
             fits == m.code <= 3 /\ m.text.utf8 /\ size <= MaxReasonSize
         IN /\ size \in Nat /\ n \in Nat
            /\ fits /\ size = 0 => MarshalClose(m) = Good(TextPayload(2, m.code, NoTLV, TRUE))
            /\ fits /\ size # 0 =>
                 MarshalClose(m) =
                   Good(TextPayload(2 + n, m.code, Write(<<Field(textTLVType, size)>>, n), TRUE))
            /\ ~fits => MarshalClose(m).kind # "OK"
<1>1. m.text.size \in Nat /\ m.text.utf8 \in BOOLEAN /\ m.code \in Nat
  BY Zenon DEF CloseMessage, TextSet
<1>2. PICK size, n, utf8, code : /\ size = m.text.size /\ n = Align4(TLVHeaderSize + size)
                               /\ utf8 = m.text.utf8 /\ code = m.code
  BY Zenon
<1>3. size \in Nat /\ n \in Nat /\ code \in Nat /\ utf8 \in BOOLEAN /\ MaxReasonSize \in Int
  <2>1. 3 + size \in Nat /\ size \in Nat
    BY <1>1, <1>2
  <2>2. n = Align4(3 + size)
    BY <1>2, Zenon DEF TLVHeaderSize
  <2>3. n \in Nat
    BY <2>1, <2>2, AlignIs, Zenon
  <2>4. code \in Nat /\ utf8 \in BOOLEAN
    BY <1>1, <1>2, Zenon
  <2>q. QED
    BY <2>1, <2>3, <2>4, Limits
<1>4. size <= MaxReasonSize => EncodedLen(size) = Ok(n)
  BY <1>2, <1>3, Limits DEF EncodedLen, MaxValueSize
<1>5. size <= MaxReasonSize => EncodedLen(size).kind = "OK" /\ EncodedLen(size).n = n
  BY <1>4, Results, Zenon
<1>6. MarshalClose(m) =
        IF code > 3 THEN Bad("InvalidCloseCode")
        ELSE IF ~utf8 THEN Bad("InvalidUTF8")
        ELSE IF size > MaxReasonSize THEN Bad("ReasonTooLong")
        ELSE IF size = 0 THEN Good(TextPayload(2, code, NoTLV, TRUE))
        ELSE IF EncodedLen(size).kind # "OK" THEN Bad(EncodedLen(size).kind)
        ELSE Good(TextPayload(2 + EncodedLen(size).n, code,
                              Write(<<Field(textTLVType, size)>>, EncodedLen(size).n), TRUE))
  BY <1>2, Zenon DEF MarshalClose
<1>7. ASSUME code <= 3, utf8, size <= MaxReasonSize
      PROVE  /\ size = 0 => MarshalClose(m) = Good(TextPayload(2, code, NoTLV, TRUE))
             /\ size # 0 =>
                 MarshalClose(m) =
                   Good(TextPayload(2 + n, code, Write(<<Field(textTLVType, size)>>, n), TRUE))
  <2>1. ~(code > 3) /\ ~(size > MaxReasonSize)
    BY <1>3, <1>7
  <2>q. QED
    BY <1>5, <1>6, <1>7, <2>1, Zenon
<1>8. ASSUME ~(code <= 3 /\ utf8 /\ size <= MaxReasonSize) PROVE MarshalClose(m).kind # "OK"
  <2>1. code > 3 \/ ~utf8 \/ size > MaxReasonSize
    BY <1>3, <1>8
  <2>2. \/ MarshalClose(m) = Bad("InvalidCloseCode") \/ MarshalClose(m) = Bad("InvalidUTF8")
        \/ MarshalClose(m) = Bad("ReasonTooLong")
    BY <1>6, <2>1, Zenon
  <2>q. QED
    BY <2>2, Results
<1>q. QED
  BY <1>2, <1>3, <1>7, <1>8, Zenon

(* UnmarshalBinary undoes MarshalBinary for SessionClose                   *)
(* (messages_tlv.go:120-186).                                              *)
LEMMA CloseBack ==
  ASSUME NEW m \in CloseMessage, MarshalClose(m).kind = "OK"
  PROVE  UnmarshalClose(MarshalClose(m).payload) = m
<1>1. PICK size, n, code : size = m.text.size /\ n = Align4(TLVHeaderSize + size) /\ code = m.code
  BY Zenon
<1>2. code \in Nat /\ code <= 3 /\ m.text.utf8 = TRUE /\ size \in Nat /\ size <= MaxReasonSize /\ n \in Nat
  <2>1. code \in Nat /\ m.text.utf8 \in BOOLEAN
    BY <1>1, Zenon DEF CloseMessage, TextSet
  <2>q. QED
    BY <1>1, <2>1, CloseIs, Zenon
<1>3. m = [kind |-> "close", code |-> code, text |-> Text(size, TRUE)]
  BY <1>1, <1>2, Zenon DEF CloseMessage, TextSet, Text
<1>4. ~(code > 3)
  BY <1>2
<1>5. PICK p : p = MarshalClose(m).payload
  BY Zenon
<1>6. CASE size = 0
  <2>1. p = TextPayload(2, code, NoTLV, TRUE)
    BY <1>1, <1>2, <1>5, <1>6, CloseIs, Results, Zenon
  <2>2. p.len = 2 /\ p.code = code
    BY <2>1, Zenon DEF TextPayload
  <2>3. ~(p.len < 2)
    BY <2>2
  <2>q. QED
    BY <1>3, <1>4, <1>5, <1>6, <2>2, <2>3, Zenon DEF UnmarshalClose
<1>7. CASE size # 0
  <2>1. PICK f : f = Field(textTLVType, size)
    BY Zenon
  <2>2. f \in FieldSet /\ f.type = textTLVType /\ f.size = size
    BY <1>2, <2>1, Zenon DEF Field, FieldSet, textTLVType
  <2>3. p = TextPayload(2 + n, code, Write(<<f>>, n), TRUE)
    BY <1>1, <1>2, <1>5, <1>7, <2>1, CloseIs, Results, Zenon
  <2>4. p.len = 2 + n /\ p.code = code /\ p.tlv = Write(<<f>>, n) /\ p.utf8
    BY <2>3, Zenon DEF TextPayload
  <2>5. Width(f) = n
    BY <1>1, <2>2, Zenon DEF Width
  <2>6. <<f>> \in Seq(FieldSet) /\ Len(<<f>>) = 1 /\ Offsets(<<f>>)[1] = n /\ ~rejectDuplicateTLVs(<<f>>)
    BY <2>2, <2>5, Single, Zenon
  <2>7. PICK most : most = Align4(TLVHeaderSize + MaxReasonSize)
    BY Zenon
  <2>8. most \in Int /\ n <= most /\ n <= MaxSequenceSize
    BY <1>1, <1>2, <2>7, ReasonFits, Limits
  <2>9. DecodeTLVs(Write(<<f>>, n), most) = [kind |-> "OK", fields |-> <<f>>]
    BY <2>6, <2>8, WrittenBack, Zenon
  <2>10. ~(p.len < 2) /\ p.len # 2
    <3>1. n >= 4
      BY <2>2, <2>5, <1>2, WidthIs, Zenon
    <3>q. QED
      BY <1>2, <2>4, <3>1
  <2>11. PICK t : t = DecodeTLVs(p.tlv, Align4(TLVHeaderSize + MaxReasonSize))
    BY Zenon
  <2>12. t.kind = "OK" /\ t.fields = <<f>> /\ t.fields[1] = f /\ Len(t.fields) = 1
    BY <2>4, <2>6, <2>7, <2>9, <2>11
  <2>13. t.fields[1].type = textTLVType /\ t.fields[1].size = size /\ ~rejectDuplicateTLVs(t.fields)
    BY <2>2, <2>6, <2>12, Zenon
  <2>14. UnmarshalClose(p) = [kind |-> "close", code |-> code, text |-> Text(size, TRUE)]
    BY <1>4, <2>4, <2>10, <2>11, <2>12, <2>13, Zenon DEF UnmarshalClose
  <2>q. QED
    BY <1>3, <1>5, <2>14, Zenon
<1>q. QED
  BY <1>6, <1>7, Zenon

(* ErrorMessage.MarshalBinary in one case distinction                      *)
(* (messages_error.go:25-36).                                              *)
LEMMA ErrorIs ==
  ASSUME NEW m \in ErrorMessage
  PROVE  LET size == m.text.size
             fits == m.text.utf8 /\ size <= MaxErrorContextSize
         IN /\ size \in Nat
            /\ fits => MarshalError(m) = Good(RawPayload(2 + size, TRUE))
            /\ ~fits => MarshalError(m).kind # "OK"
<1>1. m.text.size \in Nat /\ m.text.utf8 \in BOOLEAN /\ MaxErrorContextSize \in Int
  BY Limits DEF ErrorMessage, TextSet
<1>2. PICK size, utf8 : size = m.text.size /\ utf8 = m.text.utf8
  BY Zenon
<1>3. MarshalError(m) = IF ~utf8 THEN Bad("InvalidUTF8")
                        ELSE IF size > MaxErrorContextSize THEN Bad("ReasonTooLong")
                        ELSE Good(RawPayload(2 + size, TRUE))
  BY <1>2, Zenon DEF MarshalError
<1>4. size > MaxErrorContextSize <=> ~(size <= MaxErrorContextSize)
  BY <1>1, <1>2
<1>5. utf8 /\ size <= MaxErrorContextSize => MarshalError(m) = Good(RawPayload(2 + size, TRUE))
  BY <1>3, <1>4, Zenon
<1>6. ~(utf8 /\ size <= MaxErrorContextSize) => MarshalError(m).kind # "OK"
  <2>1. ~(utf8 /\ size <= MaxErrorContextSize) =>
          MarshalError(m) = Bad("InvalidUTF8") \/ MarshalError(m) = Bad("ReasonTooLong")
    BY <1>3, <1>4, Zenon
  <2>q. QED
    BY <2>1, Results
<1>q. QED
  BY <1>1, <1>2, <1>5, <1>6, Zenon

(* UnmarshalBinary undoes MarshalBinary for ErrorMessage                   *)
(* (messages_error.go:25-59).                                              *)
LEMMA ErrorBack ==
  ASSUME NEW m \in ErrorMessage, MarshalError(m).kind = "OK"
  PROVE  UnmarshalError(MarshalError(m).payload) = m
<1>1. PICK size : size = m.text.size
  BY Zenon
<1>2. size \in Nat /\ size <= MaxEncryptedPayloadSize - 2 /\ m.text.utf8 = TRUE
      /\ MarshalError(m).payload = RawPayload(2 + size, TRUE)
  <2>1. m.text.utf8 \in BOOLEAN
    BY Zenon DEF ErrorMessage, TextSet
  <2>q. QED
    BY <1>1, <2>1, ErrorIs, Results, Limits, Zenon
<1>3. m = [kind |-> "error", text |-> Text(size, TRUE)]
  BY <1>1, <1>2, Zenon DEF ErrorMessage, TextSet, Text
<1>4. PICK p : p = MarshalError(m).payload
  BY Zenon
<1>5. p.len = 2 + size /\ p.utf8 = TRUE
  BY <1>2, <1>4 DEF RawPayload
<1>6. ~(p.len < 2) /\ ~(p.len > MaxEncryptedPayloadSize) /\ p.len - 2 = size
  BY <1>2, <1>5, Limits, SMTT(40)
<1>q. QED
  BY <1>3, <1>4, <1>5, <1>6, Zenon DEF UnmarshalError

(* UnmarshalBinary undoes MarshalBinary for Ack (messages.go:129-155).     *)
LEMMA AckBack ==
  ASSUME NEW m \in AckMessage, MarshalAck(m).kind = "OK"
  PROVE  UnmarshalAck(MarshalAck(m).payload) = m
<1>1. PICK n : n = m.count
  BY Zenon
<1>2. n \in Nat /\ m = [kind |-> "ack", count |-> n]
  BY <1>1, Zenon DEF AckMessage
<1>3. ~(n < 1 \/ n > MaxUint8) /\ MarshalAck(m) = Good(AckPayload(AckSize(n), n))
  BY <1>1, Results DEF MarshalAck
<1>4. PICK p : p = MarshalAck(m).payload
  BY Zenon
<1>5. p.len = AckSize(n) /\ p.count = n
  BY <1>3, <1>4, Results DEF AckPayload
<1>6. ~(p.len < 1)
  BY <1>2, <1>5 DEF AckSize
<1>q. QED
  BY <1>2, <1>3, <1>4, <1>5, <1>6, Zenon DEF UnmarshalAck

(* UnmarshalBinary undoes MarshalBinary for PingPong                       *)
(* (messages.go:103-121).                                                  *)
LEMMA PingBack ==
  ASSUME NEW m \in PingMessage
  PROVE  /\ MarshalPing(m).kind = "OK" /\ MarshalPing(m).payload.len = 9
         /\ UnmarshalPing(MarshalPing(m).payload) = m
<1>1. PICK b \in BOOLEAN : b = m.response /\ m = [kind |-> "ping", response |-> b]
  BY Zenon DEF PingMessage
<1>2. PICK p : p = MarshalPing(m).payload
  BY Zenon
<1>3. MarshalPing(m) = Good(PingPayload(9, IF b THEN 1 ELSE 0))
  BY <1>1, Zenon DEF MarshalPing, PingPongSize
<1>4. MarshalPing(m).kind = "OK" /\ p = PingPayload(9, IF b THEN 1 ELSE 0)
  BY <1>2, <1>3, Results
<1>5. p.len = 9 /\ p.flag = IF b THEN 1 ELSE 0
  BY <1>4, Zenon DEF PingPayload
<1>6. ~(p.flag > 1) /\ (p.flag = 1) = b
  BY <1>1, <1>5
<1>7. UnmarshalPing(p) = [kind |-> "ping", response |-> p.flag = 1]
  BY <1>5, <1>6, Zenon DEF UnmarshalPing, PingPongSize
<1>8. [kind |-> "ping", response |-> p.flag = 1] = [kind |-> "ping", response |-> b]
  BY <1>6, Zenon
<1>q. QED
  BY <1>1, <1>2, <1>4, <1>5, <1>7, <1>8, Zenon

(* UnmarshalBinary undoes MarshalBinary for RekeyInit                      *)
(* (messages.go:167-188).                                                  *)
LEMMA RekeyBack ==
  ASSUME NEW m \in RekeyMessage
  PROVE  /\ MarshalRekey(m).kind = "OK" /\ MarshalRekey(m).payload.len = 36
         /\ UnmarshalRekey(MarshalRekey(m).payload) = m
<1>1. PICK e \in Nat \ {0} : m = [kind |-> "rekey", epoch |-> e]
  BY Zenon DEF RekeyMessage
<1>2. MarshalRekey(m) = Good(RekeyPayload(36, e))
  BY <1>1, Zenon DEF MarshalRekey, RekeyInitSize
<1>3. PICK p : p = MarshalRekey(m).payload
  BY Zenon
<1>4. MarshalRekey(m).kind = "OK" /\ p.len = 36 /\ p.epoch = e
  BY <1>2, <1>3, Results DEF RekeyPayload
<1>q. QED
  BY <1>1, <1>3, <1>4, Zenon DEF UnmarshalRekey, RekeyInitSize

(* UnmarshalBinary undoes MarshalBinary for the flights                    *)
(* (messages_handshake.go:28-128).                                         *)
LEMMA FlightBack ==
  ASSUME NEW m \in Flight, MarshalBinary(m).kind = "OK"
  PROVE  /\ MarshalBinary(m).payload.len \in {36, 64, 96}
         /\ UnmarshalBinary(m.kind, MarshalBinary(m).payload) = m
<1>1. PICK k, n, x : k = m.kind /\ n = m.noise /\ x = m.pattern
  BY Zenon
<1>2. /\ m = [kind |-> k, pattern |-> x, noise |-> n] /\ n \in Nat
      /\ k = "init" \/ (k \in {"response", "finish"} /\ x = "XX")
  BY <1>1, Zenon DEF Flight
<1>8. n \in Nat
  BY <1>2, Zenon
<1>3. PICK p : p = MarshalBinary(m).payload
  BY Zenon
<1>4. CASE k = "init"
  <2>1. MarshalBinary(m) = MarshalInit(m) /\ UnmarshalBinary(m.kind, p) = UnmarshalInit(p)
    BY <1>1, <1>4, Zenon DEF MarshalBinary, UnmarshalBinary
  <2>2. x = "XX" /\ n = 0 /\ MarshalInit(m) = Good(FlightPayload(36, "XX", TRUE))
    BY <1>1, <2>1, Results, ZenonT(40) DEF MarshalInit
  <2>3. p.len = 36 /\ p.pattern = "XX" /\ p.zero
    BY <1>3, <2>1, <2>2, Results DEF FlightPayload
  <2>4. ~(p.len < 36) /\ ~(p.len > MaxHandshakePayloadSize) /\ ~(p.len % 4 # 0)
    BY <2>3, Limits
  <2>5. UnmarshalInit(p) = [kind |-> "init", pattern |-> "XX", noise |-> 0]
    BY <2>3, <2>4, Zenon DEF UnmarshalInit
  <2>q. QED
    BY <1>2, <1>3, <1>4, <2>1, <2>2, <2>3, <2>5, Zenon
<1>5. CASE k = "response"
  <2>1. MarshalBinary(m) = MarshalResponse(m) /\ UnmarshalBinary(m.kind, p) = UnmarshalResponse(p)
    BY <1>1, <1>5, Zenon DEF MarshalBinary, UnmarshalBinary
  <2>2. n = 64 /\ MarshalResponse(m) = Good(FlightPayload(96, "XX", TRUE))
    <3>1. CASE 32 + n # 96
      <4>1. MarshalBinary(m) = Bad("MessageLength")
        BY <1>1, <2>1, <3>1, Zenon DEF MarshalResponse
      <4>q. QED
        BY <4>1, Results
    <3>2. CASE 32 + n = 96
      <4>1. n = 64
        BY <1>8, <3>2
      <4>2. MarshalResponse(m) = Good(FlightPayload(96, "XX", TRUE))
        BY <1>1, <3>2, Zenon DEF MarshalResponse
      <4>q. QED
        BY <4>1, <4>2, Zenon
    <3>q. QED
      BY <3>1, <3>2, Zenon
  <2>3. p.len = 96
    BY <1>3, <2>1, <2>2, Results DEF FlightPayload
  <2>q. QED
    BY <1>2, <1>3, <1>5, <2>1, <2>2, <2>3, Zenon DEF UnmarshalResponse
<1>6. CASE k = "finish"
  <2>1. MarshalBinary(m) = MarshalFinish(m) /\ UnmarshalBinary(m.kind, p) = UnmarshalFinish(p)
    BY <1>1, <1>6, Zenon DEF MarshalBinary, UnmarshalBinary
  <2>2. n = 64 /\ MarshalFinish(m) = Good(FlightPayload(64, "XX", TRUE))
    <3>1. CASE n # 64
      <4>1. MarshalBinary(m) = Bad("MessageLength")
        BY <1>1, <2>1, <3>1, Zenon DEF MarshalFinish
      <4>q. QED
        BY <4>1, Results
    <3>2. CASE n = 64
      BY <1>1, <3>2, Zenon DEF MarshalFinish
    <3>q. QED
      BY <3>1, <3>2, Zenon
  <2>3. p.len = 64
    BY <1>3, <2>1, <2>2, Results DEF FlightPayload
  <2>q. QED
    BY <1>2, <1>3, <1>6, <2>1, <2>2, <2>3, Zenon DEF UnmarshalFinish
<1>q. QED
  BY <1>2, <1>4, <1>5, <1>6, Zenon

(* The dispatch on the type of a message (session.go:155-220).             *)
LEMMA Kinds ==
  ASSUME NEW m, NEW p
  PROVE  /\ m.kind = "data" => MarshalBinary(m) = MarshalData(m)
         /\ m.kind = "close" => MarshalBinary(m) = MarshalClose(m)
         /\ m.kind = "error" => MarshalBinary(m) = MarshalError(m)
         /\ m.kind = "ack" => MarshalBinary(m) = MarshalAck(m)
         /\ m.kind = "ping" => MarshalBinary(m) = MarshalPing(m)
         /\ m.kind = "rekey" => MarshalBinary(m) = MarshalRekey(m)
         /\ UnmarshalBinary("data", p) = UnmarshalData(p)
         /\ UnmarshalBinary("close", p) = UnmarshalClose(p)
         /\ UnmarshalBinary("error", p) = UnmarshalError(p)
         /\ UnmarshalBinary("ack", p) = UnmarshalAck(p)
         /\ UnmarshalBinary("ping", p) = UnmarshalPing(p)
         /\ UnmarshalBinary("rekey", p) = UnmarshalRekey(p)
BY Zenon DEF MarshalBinary, UnmarshalBinary

AnyMessage == Sendable \cup RekeyMessage \cup Flight

(* What a decoder makes of an encoded message is that message.             *)
LEMMA MessageBack ==
  ASSUME NEW m \in AnyMessage, MarshalBinary(m).kind = "OK"
  PROVE  UnmarshalBinary(m.kind, MarshalBinary(m).payload) = m
<1>1. CASE m \in DataMessage
  <2>1. m.kind = "data"
    BY <1>1, Zenon DEF DataMessage
  <2>q. QED
    BY <1>1, <2>1, Kinds, DataBack, Zenon
<1>2. CASE m \in CloseMessage
  <2>1. m.kind = "close"
    BY <1>2, Zenon DEF CloseMessage
  <2>q. QED
    BY <1>2, <2>1, Kinds, CloseBack, Zenon
<1>3. CASE m \in ErrorMessage
  <2>1. m.kind = "error"
    BY <1>3, Zenon DEF ErrorMessage
  <2>q. QED
    BY <1>3, <2>1, Kinds, ErrorBack, Zenon
<1>4. CASE m \in AckMessage
  <2>1. m.kind = "ack"
    BY <1>4, Zenon DEF AckMessage
  <2>q. QED
    BY <1>4, <2>1, Kinds, AckBack, Zenon
<1>5. CASE m \in PingMessage
  <2>1. m.kind = "ping"
    BY <1>5, Zenon DEF PingMessage
  <2>q. QED
    BY <1>5, <2>1, Kinds, PingBack, Zenon
<1>6. CASE m \in RekeyMessage
  <2>1. m.kind = "rekey"
    BY <1>6, Zenon DEF RekeyMessage
  <2>q. QED
    BY <1>6, <2>1, Kinds, RekeyBack
<1>7. CASE m \in Flight
  BY <1>7, FlightBack, Zenon
<1>q. QED
  BY <1>1, <1>2, <1>3, <1>4, <1>5, <1>6, <1>7, Zenon DEF AnyMessage, Sendable

-----------------------------------------------------------------------------
(* Decoding a buffer that holds a piece of a sequence.                     *)

(* The headers of a buffer cut out of encoded fields.                      *)
LEMMA CutIs ==
  ASSUME NEW fields \in Seq(FieldSet), NEW n \in Nat
  PROVE  LET d == Cut(fields, n)
             at == Offsets(fields)
         IN /\ IsBuffer(d) /\ d.len = n
            /\ \A i \in 1..Len(fields) : at[i - 1] < n => HeaderAt(d, at[i - 1]) = fields[i]
            /\ \A o \in Nat : at[Len(fields)] <= o => HeaderAt(d, o) = Garbage
<1>1. PICK d, at, w : d = Cut(fields, n) /\ at = Offsets(fields) /\ w = Write(fields, n)
  BY Zenon
<1>2. PICK c \in Nat : c = Len(fields)
  OBVIOUS
<1>3. DOMAIN w.at = {at[i - 1] : i \in 1..c} /\ \A i \in 1..c : w.at[at[i - 1]] = fields[i]
  <2>0. Holds(fields, w)
    BY <1>1, Written, Zenon
  <2>1. /\ DOMAIN w.at = {at[i - 1] : i \in 1..Len(fields)}
        /\ \A i \in 1..Len(fields) : w.at[at[i - 1]] = fields[i]
    BY <1>1, <2>0, Zenon DEF Holds
  <2>q. QED
    BY <1>2, <2>1, Zenon
<1>4. d.len = n /\ d.at = [o \in {p \in DOMAIN w.at : p < n} |-> w.at[o]]
  BY <1>1, Zenon DEF Cut, Buffer
<1>5. \A i \in 1..c : fields[i] \in FieldSet
  BY <1>2
<1>6. IsBuffer(d)
  <2>1. ASSUME NEW o \in DOMAIN d.at PROVE d.at[o] \in FieldSet
    <3>1. PICK i \in 1..c : o = at[i - 1]
      BY <1>3, <1>4, Zenon
    <3>2. d.at[o] = fields[i]
      BY <1>3, <1>4, <3>1, Zenon
    <3>q. QED
      BY <1>5, <3>2, Zenon
  <2>q. QED
    BY <1>4, <2>1, Zenon DEF IsBuffer
<1>7. ASSUME NEW i \in 1..c, at[i - 1] < n PROVE HeaderAt(d, at[i - 1]) = fields[i]
  <2>1. PICK o : o = at[i - 1]
    BY Zenon
  <2>2. o \in DOMAIN d.at /\ d.at[o] = fields[i]
    BY <1>3, <1>4, <1>7, <2>1, Zenon
  <2>q. QED
    BY <2>1, <2>2, Zenon DEF HeaderAt
<1>8. ASSUME NEW o \in Nat, at[c] <= o PROVE HeaderAt(d, o) = Garbage
  <2>1. ASSUME o \in DOMAIN d.at PROVE FALSE
    <3>1. PICK i \in 1..c : o = at[i - 1]
      BY <1>3, <1>4, <2>1
    <3>2. at[i - 1] + Width(fields[i]) <= at[c]
      <4>1. c \in 0..Len(fields)
        BY <1>2
      <4>q. QED
        BY <1>1, <4>1, OffsetsGrow, Zenon
    <3>3. Width(fields[i]) \in Nat /\ Width(fields[i]) >= 4
      <4>1. fields[i].size \in Nat
        BY <1>5, Zenon DEF FieldSet
      <4>q. QED
        BY <4>1, WidthIs, Zenon
    <3>4. at[c] \in Nat
      BY <1>1, <1>2, OffsetsAre
    <3>q. QED
      BY <1>8, <3>1, <3>2, <3>3, <3>4, SMTT(40)
  <2>q. QED
    BY <2>1, Zenon DEF HeaderAt
<1>q. QED
  BY <1>1, <1>2, <1>4, <1>6, <1>7, <1>8, Zenon

(* The whole fields at the front of a buffer that they fill are accepted.  *)
LEMMA CutDecodable ==
  ASSUME NEW fields \in Seq(FieldSet), NEW n \in Nat, NEW max \in Int,
         n <= MaxSequenceSize, max > 0 => n <= max,
         NEW k \in 0..Len(fields), Offsets(fields)[k] = n
  PROVE  DecodeTLVs(Cut(fields, n), max).kind = "OK"
<1>1. PICK d, G : d = Cut(fields, n) /\ G = SubSeq(fields, 1, k)
  BY Zenon
<1>2. /\ G \in Seq(FieldSet) /\ Len(G) = k /\ k \in Nat
      /\ \A i \in 1..k : G[i] = fields[i] /\ i \in 1..Len(fields)
  BY <1>1
<1>3. \A i \in 0..k : Offsets(G)[i] = Offsets(fields)[i]
  BY <1>2, OffsetsPrefix
<1>4. IsBuffer(d) /\ d.len = n /\ \A i \in 1..Len(fields) :
        Offsets(fields)[i - 1] < n => HeaderAt(d, Offsets(fields)[i - 1]) = fields[i]
  BY <1>1, CutIs
<1>5. ASSUME NEW i \in 1..k PROVE G[i] = HeaderAt(d, Offsets(G)[i - 1])
  <2>1. i \in 1..Len(fields) /\ i - 1 \in 0..k /\ i - 1 \in 0..Len(fields)
    BY <1>2
  <2>2. Offsets(fields)[i - 1] + Width(fields[i]) <= n
    BY <1>2, OffsetsGrow, Zenon
  <2>3. fields[i].size \in Nat
    <3>1. fields[i] \in FieldSet
      BY <2>1
    <3>q. QED
      BY <3>1, Zenon DEF FieldSet
  <2>4. Width(fields[i]) \in Nat /\ Width(fields[i]) >= 4
    BY <2>3, WidthIs, Zenon
  <2>5. Offsets(fields)[i - 1] \in Nat
    BY <2>1, OffsetsAre, Zenon
  <2>6. Offsets(fields)[i - 1] < n
    BY <2>2, <2>4, <2>5
  <2>q. QED
    BY <1>2, <1>3, <1>4, <2>1, <2>6, Zenon
<1>6. Offsets(G)[Len(G)] = d.len /\ InLimits(d, max)
  BY <1>2, <1>3, <1>4 DEF InLimits
<1>7. DecodeTLVs(d, max) = [kind |-> "OK", fields |-> G]
  BY <1>2, <1>4, <1>5, <1>6, Decodable, Zenon
<1>q. QED
  BY <1>1, <1>7

(* Concatenation of sequences of fields.                                   *)
LEMMA Joined ==
  ASSUME NEW s \in Seq(FieldSet), NEW t \in Seq(FieldSet)
  PROVE  /\ s \o t \in Seq(FieldSet) /\ Len(s \o t) = Len(s) + Len(t)
         /\ \A i \in 1..Len(t) : (s \o t)[Len(s) + i] = t[i]
<1>1. s \o t \in Seq(FieldSet) /\ Len(s \o t) = Len(s) + Len(t)
  OBVIOUS
<1>2. ASSUME NEW i \in 1..Len(t) PROVE (s \o t)[Len(s) + i] = t[i]
  <2>1. PICK j \in Nat : j = Len(s) + i
    OBVIOUS
  <2>2. j \in 1..(Len(s) + Len(t)) /\ j > Len(s) /\ j - Len(s) = i
    BY <2>1
  <2>3. (s \o t)[j] = t[j - Len(s)]
    BY <2>2
  <2>q. QED
    BY <2>1, <2>2, <2>3, Zenon
<1>q. QED
  BY <1>1, <1>2, Zenon

(* Nothing but the fields that the bytes were meant to hold is accepted.   *)
LEMMA CutDecoded ==
  ASSUME NEW fields \in Seq(FieldSet), NEW n \in Nat, NEW max \in Int,
         DecodeTLVs(Cut(fields, n), max).kind = "OK",
         ~rejectDuplicateTLVs(DecodeTLVs(Cut(fields, n), max).fields)
  PROVE  LET F == DecodeTLVs(Cut(fields, n), max).fields
             meant == fields \o [i \in 1..2 |-> Garbage]
         IN /\ Len(F) \in 0..(Len(fields) + 2) /\ Len(F) <= Len(meant)
            /\ Offsets(meant)[Len(F)] = n /\ F = SubSeq(meant, 1, Len(F))
<1>1. PICK d, F, G : /\ d = Cut(fields, n) /\ F = DecodeTLVs(d, max).fields
                     /\ G = fields \o [i \in 1..2 |-> Garbage]
  BY Zenon
<1>2. PICK c, k \in Nat : c = Len(fields) /\ k = Len(F)
  <2>1. F \in Seq(FieldSet)
    BY <1>1, CutIs, Decoded, Zenon
  <2>q. QED
    BY <2>1
<1>3. IsBuffer(d) /\ d.len = n
  BY <1>1, CutIs, Zenon
<1>4. /\ F \in Seq(FieldSet) /\ Offsets(F)[k] = n /\ ~rejectDuplicateTLVs(F)
      /\ \A i \in 1..k : F[i] = HeaderAt(d, Offsets(F)[i - 1])
  BY <1>1, <1>2, <1>3, Decoded, Zenon
<1>5. Garbage \in FieldSet
  BY Zenon DEF Garbage, Field, FieldSet
<1>6. /\ G \in Seq(FieldSet) /\ Len(G) = c + 2 /\ \A i \in 1..c : G[i] = fields[i]
      /\ G[c + 1] = Garbage /\ G[c + 2] = Garbage
  <2>1. PICK z : z = [i \in 1..2 |-> Garbage]
    BY Zenon
  <2>2. z \in Seq(FieldSet) /\ Len(z) = 2 /\ z[1] = Garbage /\ z[2] = Garbage
    BY <1>5, <2>1
  <2>3. G = fields \o z
    BY <1>1, <2>1, Zenon
  <2>8. /\ fields \o z \in Seq(FieldSet) /\ Len(fields \o z) = Len(fields) + Len(z)
        /\ \A i \in 1..Len(z) : (fields \o z)[Len(fields) + i] = z[i]
    BY <2>2, Joined, Zenon
  <2>4. G \in Seq(FieldSet) /\ Len(G) = c + 2
    <3>1. G \in Seq(FieldSet) /\ Len(G) = Len(fields) + Len(z)
      BY <2>3, <2>8, Zenon
    <3>q. QED
      BY <1>2, <2>2, <3>1, Zenon
  <2>5. \A i \in 1..c : G[i] = fields[i]
    BY <1>2, <2>2, <2>3
  <2>6. \A i \in 1..Len(z) : G[c + i] = z[i]
    BY <1>2, <2>3, <2>8, Zenon
  <2>7. 1 \in 1..Len(z) /\ 2 \in 1..Len(z)
    BY <2>2
  <2>q. QED
    BY <2>2, <2>4, <2>5, <2>6, <2>7, Zenon
<1>7. \A i \in 0..c : Offsets(G)[i] = Offsets(fields)[i]
  <2>1. c <= Len(G) /\ c <= Len(fields) /\ \A i \in 1..c : G[i] = fields[i]
    BY <1>2, <1>6
  <2>q. QED
    BY <1>6, <2>1, OffsetsPrefix, Zenon
<1>8. PICK f, g : f = Offsets(F) /\ g = Offsets(G)
  BY Zenon
<1>9. f \in [0..k -> Nat] /\ f[0] = 0 /\ \A i \in 1..k : f[i] = f[i - 1] + Width(F[i])
  BY <1>2, <1>4, <1>8, OffsetsAre, Zenon
<1>10. g \in [0..(c + 2) -> Nat] /\ g[0] = 0 /\ \A i \in 1..(c + 2) : g[i] = g[i - 1] + Width(G[i])
  BY <1>6, <1>8, OffsetsAre, Zenon
<1>11. PICK q \in Nat : q <= k /\ q <= c + 2 /\ (q = k \/ q = c + 2)
  <2>1. CASE k <= c + 2
    <3>1. k <= k /\ k <= c + 2 /\ (k = k \/ k = c + 2)
      BY <2>1
    <3>q. QED
      BY <3>1, Zenon
  <2>2. CASE c + 2 <= k
    <3>1. PICK b \in Nat : b = c + 2
      OBVIOUS
    <3>2. b <= k /\ b <= c + 2 /\ (b = k \/ b = c + 2)
      BY <2>2, <3>1
    <3>q. QED
      BY <3>2, Zenon
  <2>q. QED
    BY <2>1, <2>2
<1>12. ASSUME NEW j \in 1..q, f[j - 1] = g[j - 1] PROVE F[j] = G[j] /\ f[j] = g[j]
  <2>1. j \in 1..k /\ j \in 1..(c + 2) /\ j - 1 \in 0..k /\ j - 1 \in 0..(c + 2)
    BY <1>11
  <2>2. PICK o \in Nat : o = f[j - 1] /\ o = g[j - 1]
    BY <1>9, <1>12, <2>1, Zenon
  <2>3. F[j] = HeaderAt(d, o)
    BY <1>4, <1>8, <2>1, <2>2, Zenon
  <2>4. CASE j <= c
    <3>1. j \in 1..c /\ j - 1 \in 0..c
      BY <2>1, <2>4
    <3>2. o = Offsets(fields)[j - 1]
      BY <1>7, <1>8, <2>2, <3>1, Zenon
    <3>3. o < n
      <4>1. k \in 0..Len(F)
        BY <1>2, SMTT(40)
      <4>2. f[j - 1] + Width(F[j]) <= n
        BY <1>4, <1>8, <2>1, <4>1, OffsetsGrow, Zenon
      <4>3. F[j].size \in Nat
        <5>1. F[j] \in FieldSet
          BY <1>2, <1>4, <2>1, SMTT(40)
        <5>q. QED
          BY <5>1, Zenon DEF FieldSet
      <4>4. Width(F[j]) \in Nat /\ Width(F[j]) >= 4
        BY <4>3, WidthIs, Zenon
      <4>q. QED
        BY <2>2, <4>2, <4>4
    <3>4. HeaderAt(d, o) = fields[j]
      BY <1>1, <1>2, <3>1, <3>2, <3>3, CutIs, SMTT(40)
    <3>q. QED
      BY <1>6, <1>9, <1>10, <1>12, <2>1, <2>3, <3>1, <3>4, Zenon
  <2>5. CASE j > c
    <3>1. Offsets(fields)[c] <= o
      <4>1. g[c] = Offsets(fields)[c] /\ g[c] \in Nat
        BY <1>7, <1>8, <1>10
      <4>2. CASE j = c + 1
        BY <2>2, <4>1, <4>2, SMTT(40)
      <4>3. CASE j = c + 2
        <5>1. g[c + 1] = g[c] + Width(Garbage)
          <6>1. c + 1 \in 1..(c + 2) /\ (c + 1) - 1 = c
            OBVIOUS
          <6>q. QED
            BY <1>6, <1>10, <6>1, Zenon
        <5>2. Width(Garbage) \in Nat
          BY <1>5, WidthIs, Zenon DEF FieldSet
        <5>3. j - 1 = c + 1
          BY <4>3, SMTT(40)
        <5>q. QED
          BY <2>2, <4>1, <5>1, <5>2, <5>3, SMTT(40)
      <4>q. QED
        BY <2>1, <2>5, <4>2, <4>3
    <3>2. HeaderAt(d, o) = Garbage
      BY <1>1, <1>2, <3>1, CutIs, SMTT(40)
    <3>3. G[j] = Garbage
      <4>1. j = c + 1 \/ j = c + 2
        BY <2>1, <2>5
      <4>q. QED
        BY <1>6, <4>1, Zenon
    <3>q. QED
      BY <1>9, <1>10, <1>12, <2>1, <2>3, <3>2, <3>3, Zenon
  <2>q. QED
    BY <2>1, <2>4, <2>5, SMTT(40)
<1>13. PICK P : P = {j \in Nat : f[j] = g[j]}
  BY Zenon
<1>14. \A i \in 0..q : i \in P
  <2>0. 0 \in P
    BY <1>9, <1>10, <1>13
  <2>1. ASSUME NEW i \in 1..q, i - 1 \in P
        PROVE  i \in P
    <3>1. f[i - 1] = g[i - 1]
      BY <1>13, <2>1, Zenon
    <3>2. i \in Nat
      BY <2>1
    <3>q. QED
      BY <1>12, <1>13, <2>1, <3>1, <3>2, Zenon
  <2>q. QED
    BY <2>0, <2>1, UpTo, Zenon
<1>15. \A i \in 0..q : f[i] = g[i]
  BY <1>13, <1>14, Zenon
<1>16. \A i \in 1..q : F[i] = G[i]
  BY <1>12, <1>15
<1>17. q = k
  <2>1. ASSUME q = c + 2, q # k PROVE FALSE
    <3>1. F[c + 1] = Garbage /\ F[c + 2] = Garbage /\ c + 1 \in 1..k /\ c + 2 \in 1..k
      BY <1>6, <1>11, <1>16, <2>1, SMTT(40)
    <3>2. c + 1 \in DOMAIN F /\ c + 2 \in DOMAIN F /\ c + 1 # c + 2 /\ F[c + 1].type = F[c + 2].type
      BY <1>2, <1>4, <3>1, SMTT(40)
    <3>q. QED
      BY <1>4, <3>2, Zenon DEF rejectDuplicateTLVs
  <2>q. QED
    BY <1>11, <2>1, Zenon
<1>18. F = SubSeq(G, 1, k)
  <2>1. PICK S : S = SubSeq(G, 1, k)
    BY ZenonT(40)
  <2>2. S \in Seq(FieldSet) /\ Len(S) = k /\ \A i \in 1..k : S[i] = G[i]
    BY <1>6, <1>11, <1>17, <2>1
  <2>q. QED
    BY <1>2, <1>4, <1>16, <1>17, <2>1, <2>2, SMTT(40)
<1>19. Offsets(G)[k] = n
  <2>1. k \in 0..q /\ f[k] = n
    BY <1>4, <1>8, <1>17, SMTT(40)
  <2>q. QED
    BY <1>8, <1>15, <2>1, Zenon
<1>20. k \in 0..(Len(fields) + 2) /\ k <= Len(G)
  BY <1>2, <1>6, <1>11, <1>17
<1>21. /\ Len(F) \in 0..(Len(fields) + 2) /\ Len(F) <= Len(G)
       /\ Offsets(G)[Len(F)] = n /\ F = SubSeq(G, 1, Len(F))
  BY <1>2, <1>18, <1>19, <1>20, Zenon
<1>q. QED
  BY <1>1, <1>21, Zenon
=============================================================================
