------------------------ MODULE ReplayKeepaliveProofs ------------------------
(***************************************************************************)
(* Theorems about the replay window (ReplayWindow), and about the settings *)
(* and the maintenance loop of a connection (Config, Keepalive).  The two  *)
(* parts share no state.                                                   *)
(*                                                                         *)
(* The window, for every word width, number of words and largest sequence. *)
(* First the arithmetic of the bitmap: the in-place loop of Advance        *)
(* computes what a loop into a fresh bitmap would, and so moves every mark *)
(* by exactly the shift.  Then the inductive invariant, which ties the     *)
(* bitmap to the set of the committed sequences and the generation to      *)
(* their number, and from it the properties of the window.                 *)
(*                                                                         *)
(* The loop, for settings of any size, any number of pings and any         *)
(* lateness of the goroutines.                                             *)
(***************************************************************************)
EXTENDS ReplayWindow, Keepalive, FiniteSetTheorems, WellFoundedInduction, TLAPS

(* Every non-empty set of natural numbers has a least element.             *)
LEMMA Least ==
  ASSUME NEW T \in SUBSET Nat, T # {}
  PROVE  \E m \in T : \A k \in T : m <= k
<1>1. PICK R : R = OpToRel(<, Nat)
  BY Zenon
<1>2. IsWellFoundedOn(R, Nat)
  BY <1>1, NatLessThanWellFounded, Zenon
<1>3. PICK m \in T : \A k \in T : <<k, m>> \notin R
  BY <1>2, WFMin, Zenon
<1>4. \A k, n \in Nat : <<k, n>> \in R <=> k < n
  BY <1>1, Zenon DEF OpToRel
<1>5. ASSUME NEW k \in T PROVE m <= k
  <2>1. k \in Nat /\ m \in Nat
    BY Zenon
  <2>2. ~(k < m)
    BY <1>3, <1>4, <2>1, Zenon
  <2>q. QED BY <2>1, <2>2
<1>q. QED
  BY <1>5, Zenon

-----------------------------------------------------------------------------
(* Division by the word width.                                             *)

(* The word and the bit of a distance are in range and determine it.       *)
LEMMA DivMod ==
  ASSUME NEW w \in Nat \ {0}, NEW d \in Int
  PROVE  /\ d \div w \in Int
         /\ d % w \in 0 .. w - 1
         /\ d = w * (d \div w) + (d % w)
<1>1. d \div w \in Int
  OBVIOUS
<1>2. d % w \in 0 .. w - 1
  OBVIOUS
<1>3. d = w * (d \div w) + (d % w)
  OBVIOUS
<1>q. QED
  BY <1>1, <1>2, <1>3, Zenon

(* And the distance determines them.                                       *)
LEMMA DivModUnique ==
  ASSUME NEW w \in Nat \ {0}, NEW q \in Int, NEW r \in 0 .. w - 1,
         NEW d \in Int, d = w * q + r
  PROVE  d \div w = q /\ d % w = r
<1>1. PICK p : p = d \div w
  BY Zenon
<1>2. PICK s : s = d % w
  BY Zenon
<1>3. p \in Int /\ s \in 0 .. w - 1 /\ d = w * p + s
  BY <1>1, <1>2, DivMod, Zenon
<1>4. w * (p - q) = r - s
  BY <1>3
<1>5. p = q
  <2>1. CASE p - q >= 1
    <3>1. w * (p - q) >= w
      BY <1>3, <2>1
    <3>q. QED BY <3>1, <1>3, <1>4
  <2>2. CASE p - q <= -1
    <3>1. w * (p - q) <= -w
      BY <1>3, <2>2
    <3>q. QED BY <3>1, <1>3, <1>4
  <2>q. QED BY <2>1, <2>2, <1>3
<1>q. QED
  BY <1>1, <1>2, <1>3, <1>5

(* A distance inside the window falls on a word of the bitmap.             *)
LEMMA InWindow ==
  ASSUME NEW d \in 0 .. WindowSize - 1
  PROVE  /\ d \div WordBits \in 0 .. WordCount - 1
         /\ d % WordBits \in 0 .. WordBits - 1
<1>1. PICK w, c, q, r : w = WordBits /\ c = WordCount /\ q = d \div w /\ r = d % w
  BY Zenon
<1>2. w \in Nat \ {0} /\ c \in Nat \ {0} /\ w * c \in Int
  BY <1>1, WindowAssumption
<1>3. d \in Int /\ 0 <= d /\ d < w * c
  BY <1>1, <1>2 DEF WindowSize
<1>4. q \in Int /\ r \in 0 .. w - 1 /\ d = w * q + r
  BY <1>1, <1>2, <1>3, DivMod, Zenon
<1>5. q >= 0
  <2>1. SUFFICES ASSUME q <= -1 PROVE FALSE
    BY <1>4
  <2>2. w * q <= -w
    BY <2>1, <1>2, <1>4
  <2>q. QED BY <2>2, <1>2, <1>3, <1>4
<1>6. q < c
  <2>1. SUFFICES ASSUME q >= c PROVE FALSE
    BY <1>2, <1>4
  <2>2. w * q >= w * c
    BY <2>1, <1>2, <1>4
  <2>q. QED BY <2>2, <1>2, <1>3, <1>4
<1>q. QED
  BY <1>1, <1>2, <1>4, <1>5, <1>6

-----------------------------------------------------------------------------
(* The loop of Advance.                                                    *)

Bitmaps == [0 .. WordCount - 1 -> Words]

(* The bitmap after one more round of the loop than f has.                 *)
ShiftRound(bm, shift, f, n) ==
  IF n = 0 THEN bm
  ELSE [f[n - 1] EXCEPT ![WordCount - n] = ShiftedWord(f[n - 1], WordCount - n, shift)]

(* What n rounds would leave if each word were read from the bitmap the    *)
(* loop started with.                                                      *)
Fresh(bm, shift, n) ==
  [d \in 0 .. WordCount - 1 |->
     IF d >= WordCount - n THEN ShiftedWord(bm, d, shift) ELSE bm[d]]

(* A round reads no word above the one it writes.                          *)
LEMMA ReadsBelow ==
  ASSUME NEW f, NEW g, NEW dst \in 0 .. WordCount - 1, NEW shift \in Nat,
         \A d \in 0 .. dst : f[d] = g[d]
  PROVE  ShiftedWord(f, dst, shift) = ShiftedWord(g, dst, shift)
<1>1. PICK w, src : w = WordBits /\ src = dst - shift \div w
  BY Zenon
<1>2. w \in Nat \ {0} /\ shift \div w \in Int
  BY <1>1, WindowAssumption, DivMod
<1>3. shift \div w >= 0
  <2>1. PICK q, r : q = shift \div w /\ r = shift % w
    BY Zenon
  <2>2. q \in Int /\ r \in 0 .. w - 1 /\ shift = w * q + r
    BY <1>2, <2>1, DivMod
  <2>3. SUFFICES ASSUME q <= -1 PROVE FALSE
    BY <2>1, <2>2
  <2>4. w * q <= -w
    BY <2>2, <2>3, <1>2
  <2>q. QED BY <2>2, <2>4, <1>2
<1>4. src \in Int /\ src <= dst
  BY <1>1, <1>2, <1>3
<1>5. CASE src < 0
  BY <1>1, <1>4, <1>5 DEF ShiftedWord
<1>6. CASE src >= 0
  <2>1. f[src] = g[src]
    BY <1>4, <1>6
  <2>2. src > 0 => f[src - 1] = g[src - 1]
    BY <1>4, <1>6
  <2>q. QED BY <1>1, <1>4, <1>6, <2>1, <2>2, Zenon DEF ShiftedWord
<1>q. QED
  BY <1>4, <1>5, <1>6

(* So reading in place, from the last word down, is reading the old bitmap.*)
LEMMA FreshRound ==
  ASSUME NEW bm \in Bitmaps, NEW shift \in Nat, NEW n \in 1 .. WordCount
  PROVE  Fresh(bm, shift, n) =
           [Fresh(bm, shift, n - 1) EXCEPT
              ![WordCount - n] = ShiftedWord(Fresh(bm, shift, n - 1), WordCount - n, shift)]
<1>1. PICK f : f = Fresh(bm, shift, n - 1)
  BY Zenon
<1>2. PICK dst : dst = WordCount - n
  BY Zenon
<1>3. dst \in 0 .. WordCount - 1 /\ WordCount \in Nat /\ n \in Int
  BY <1>2, WindowAssumption
<1>4. \A d \in 0 .. dst : f[d] = bm[d]
  BY <1>1, <1>2, <1>3 DEF Fresh
<1>5. ShiftedWord(f, dst, shift) = ShiftedWord(bm, dst, shift)
  BY <1>3, <1>4, ReadsBelow, Zenon
<1>6. \A d \in 0 .. WordCount - 1 :
         Fresh(bm, shift, n)[d] = [f EXCEPT ![dst] = ShiftedWord(bm, dst, shift)][d]
  <2>1. TAKE d \in 0 .. WordCount - 1
  <2>2. d \in Int
    OBVIOUS
  <2>3. CASE d = dst
    BY <1>1, <1>2, <1>3, <2>3 DEF Fresh
  <2>4. CASE d # dst
    <3>1. (d >= WordCount - n) <=> (d >= WordCount - (n - 1))
      BY <1>2, <1>3, <2>2, <2>4
    <3>q. QED BY <1>1, <2>4, <3>1, Zenon DEF Fresh
  <2>q. QED BY <2>3, <2>4, Zenon
<1>7. Fresh(bm, shift, n) = [f EXCEPT ![dst] = ShiftedWord(bm, dst, shift)]
  BY <1>1, <1>6, Zenon DEF Fresh
<1>q. QED
  BY <1>1, <1>2, <1>5, <1>7, Zenon

(* What the loop of Advance computes.                                      *)
LEMMA AdvancedIs ==
  ASSUME NEW bm \in Bitmaps, NEW shift \in Nat
  PROVE  \A n \in 0 .. WordCount : Advanced(bm, shift)[n] = Fresh(bm, shift, n)
<1>1. WordCount \in Nat
  BY WindowAssumption, Zenon
<1>2. PICK g : g = [n \in 0 .. WordCount |-> Fresh(bm, shift, n)]
  BY Zenon
<1>3. Fresh(bm, shift, 0) = bm
  BY <1>1 DEF Fresh, Bitmaps
<1>4. \A n \in 0 .. WordCount : Fresh(bm, shift, n) = ShiftRound(bm, shift, g, n)
  <2>1. TAKE n \in 0 .. WordCount
  <2>2. CASE n = 0
    BY <1>3, <2>2, Zenon DEF ShiftRound
  <2>3. CASE n # 0
    <3>1. n \in 1 .. WordCount /\ n - 1 \in 0 .. WordCount
      BY <1>1, <2>3
    <3>2. g[n - 1] = Fresh(bm, shift, n - 1)
      BY <1>2, <3>1, Zenon
    <3>q. QED BY <2>3, <3>1, <3>2, FreshRound, Zenon DEF ShiftRound
  <2>q. QED BY <2>2, <2>3, Zenon
<1>5. g = [n \in 0 .. WordCount |-> ShiftRound(bm, shift, g, n)]
  BY <1>2, <1>4, Zenon
<1>6. PICK h : h = Advanced(bm, shift)
  BY Zenon
<1>7. h = CHOOSE f : f = [n \in 0 .. WordCount |-> ShiftRound(bm, shift, f, n)]
  BY <1>6, Zenon DEF Advanced, ShiftRound
<1>8. h = [n \in 0 .. WordCount |-> ShiftRound(bm, shift, h, n)]
  BY <1>5, <1>7, Zenon
<1>9. SUFFICES ASSUME NEW k \in 0 .. WordCount, h[k] # Fresh(bm, shift, k)
               PROVE  FALSE
  BY <1>6, Zenon
<1>10. PICK T : T = {n \in 0 .. WordCount : h[n] # Fresh(bm, shift, n)}
  BY Zenon
<1>11. T \in SUBSET Nat /\ T # {}
  BY <1>1, <1>9, <1>10
<1>12. PICK m \in T : \A n \in T : m <= n
  BY <1>11, Least, Zenon
<1>13. m \in 0 .. WordCount /\ h[m] # Fresh(bm, shift, m)
  BY <1>10, Zenon
<1>14. m # 0
  BY <1>3, <1>8, <1>13, Zenon DEF ShiftRound
<1>15. m - 1 \in 0 .. WordCount /\ ~(m <= m - 1)
  BY <1>1, <1>13, <1>14
<1>16. m - 1 \notin T
  BY <1>12, <1>15, Zenon
<1>17. h[m - 1] = Fresh(bm, shift, m - 1)
  BY <1>10, <1>15, <1>16, Zenon
<1>18. g[m - 1] = Fresh(bm, shift, m - 1)
  BY <1>2, <1>15, Zenon
<1>19. ShiftRound(bm, shift, h, m) = ShiftRound(bm, shift, g, m)
  BY <1>17, <1>18, Zenon DEF ShiftRound
<1>q. QED
  BY <1>4, <1>8, <1>13, <1>19, Zenon

(* One word: its bits move up by the shift, the rest of them comes from    *)
(* the word below.                                                         *)
LEMMA ShiftedBit ==
  ASSUME NEW bm \in Bitmaps, NEW dst \in 0 .. WordCount - 1, NEW shift \in Nat,
         NEW r \in 0 .. WordBits - 1,
         NEW src \in Int, src = dst - shift \div WordBits,
         NEW b \in 0 .. WordBits - 1, b = shift % WordBits, src <= dst
  PROVE  r \in ShiftedWord(bm, dst, shift) <=>
           \/ r >= b /\ src >= 0 /\ r - b \in bm[src]
           \/ r < b /\ src >= 1 /\ r + WordBits - b \in bm[src - 1]
<1>1. WordBits \in Nat \ {0} /\ WordCount \in Nat \ {0}
  BY WindowAssumption, Zenon
<1>2. CASE src < 0
  <2>1. ShiftedWord(bm, dst, shift) = {}
    BY <1>2 DEF ShiftedWord
  <2>q. QED BY <1>2, <2>1
<1>3. CASE src >= 0
  <2>1. src \in 0 .. WordCount - 1 /\ (src >= 1 => src - 1 \in 0 .. WordCount - 1)
    BY <1>1, <1>3
  <2>2. bm[src] \subseteq 0 .. WordBits - 1
    BY <2>1, Zenon DEF Bitmaps, Words
  <2>3. src >= 1 => bm[src - 1] \subseteq 0 .. WordBits - 1
    BY <2>1, Zenon DEF Bitmaps, Words
  <2>4. r \in ShiftLeft(bm[src], b) <=> r >= b /\ r - b \in bm[src]
    BY <1>1, <2>2 DEF ShiftLeft
  <2>5. ASSUME src >= 1, b # 0
        PROVE  r \in ShiftRight(bm[src - 1], WordBits - b) <=>
                 r < b /\ r + WordBits - b \in bm[src - 1]
    BY <1>1, <2>3, <2>5 DEF ShiftRight
  <2>6. ShiftedWord(bm, dst, shift) =
          ShiftLeft(bm[src], b) \cup
          (IF b # 0 /\ src > 0 THEN ShiftRight(bm[src - 1], WordBits - b) ELSE {})
    BY <1>3, Zenon DEF ShiftedWord
  <2>7. CASE b # 0 /\ src >= 1
    <3>1. ShiftedWord(bm, dst, shift) =
            ShiftLeft(bm[src], b) \cup ShiftRight(bm[src - 1], WordBits - b)
      BY <2>6, <2>7
    <3>q. QED BY <3>1, <2>4, <2>5, <2>7, <1>3, Zenon
  <2>8. CASE ~(b # 0 /\ src >= 1)
    <3>1. ShiftedWord(bm, dst, shift) = ShiftLeft(bm[src], b)
      BY <2>6, <2>8
    <3>2. ~(r < b /\ src >= 1)
      BY <2>8
    <3>q. QED BY <3>1, <3>2, <2>4, <1>3, Zenon
  <2>q. QED BY <2>7, <2>8, Zenon
<1>q. QED
  BY <1>2, <1>3

(* The bitmap stays one.                                                   *)
LEMMA AdvanceType ==
  ASSUME NEW bm \in Bitmaps, NEW shift \in Nat
  PROVE  Advance(bm, shift) \in Bitmaps
<1>1. ClearBitmap \in Bitmaps
  BY Zenon DEF ClearBitmap, Bitmaps, Words
<1>2. WordCount \in 0 .. WordCount
  BY WindowAssumption
<1>3. Advanced(bm, shift)[WordCount] = Fresh(bm, shift, WordCount)
  BY <1>2, AdvancedIs, Zenon
<1>4. ASSUME NEW d \in 0 .. WordCount - 1
      PROVE  ShiftedWord(bm, d, shift) \in Words
  BY Zenon DEF ShiftedWord, ShiftLeft, ShiftRight, Words
<1>5. Fresh(bm, shift, WordCount) \in Bitmaps
  BY <1>4, Zenon DEF Fresh, Bitmaps
<1>q. QED
  BY <1>1, <1>3, <1>5, Zenon DEF Advance

(* Advance moves every mark of the window up by the shift and drops those  *)
(* that leave it: no carry between words loses, invents or moves a mark.   *)
LEMMA AdvanceMarks ==
  ASSUME NEW bm \in Bitmaps, NEW shift \in Nat, NEW d \in 0 .. WindowSize - 1
  PROVE  Marked(Advance(bm, shift), d) <=> d >= shift /\ Marked(bm, d - shift)
<1>1. PICK w, c, q, r, a, b :
         /\ w = WordBits
         /\ c = WordCount
         /\ q = d \div w
         /\ r = d % w
         /\ a = shift \div w
         /\ b = shift % w
  BY Zenon
<1>2. w \in Nat \ {0} /\ c \in Nat \ {0} /\ WindowSize \in Nat /\ WindowSize = w * c
  BY <1>1, WindowAssumption DEF WindowSize
<1>3. d \in Nat /\ d < WindowSize
  BY <1>2
<1>4. q \in 0 .. c - 1 /\ r \in 0 .. w - 1
  BY <1>1, InWindow, Zenon
<1>5. d = w * q + r
  BY <1>1, <1>2, <1>3, DivMod
<1>6. a \in Int /\ b \in 0 .. w - 1 /\ shift = w * a + b
  BY <1>1, <1>2, DivMod
<1>7. a >= 0
  <2>1. SUFFICES ASSUME a <= -1 PROVE FALSE
    BY <1>6
  <2>2. w * a <= -w
    BY <2>1, <1>2, <1>6
  <2>q. QED BY <2>2, <1>2, <1>6
<1>8. CASE shift >= WindowSize
  <2>1. Advance(bm, shift) = ClearBitmap
    BY <1>8, Zenon DEF Advance
  <2>2. ~Marked(ClearBitmap, d)
    BY <1>1, <1>4, Zenon DEF Marked, ClearBitmap
  <2>q. QED BY <2>1, <2>2, <1>2, <1>3, <1>8
<1>9. CASE shift < WindowSize
  <2>1. PICK src : src = q - a
    BY Zenon
  <2>2. src \in Int /\ src <= q
    BY <1>4, <1>6, <1>7, <2>1
  <2>3. Advance(bm, shift) = Fresh(bm, shift, WordCount)
    <3>1. WordCount \in 0 .. WordCount
      BY WindowAssumption
    <3>q. QED BY <3>1, <1>2, <1>9, AdvancedIs DEF Advance
  <2>4. Fresh(bm, shift, WordCount)[q] = ShiftedWord(bm, q, shift)
    BY <1>1, <1>2, <1>4 DEF Fresh
  <2>5. Marked(Advance(bm, shift), d) <=> r \in ShiftedWord(bm, q, shift)
    BY <1>1, <2>3, <2>4, Zenon DEF Marked
  <2>6. Marked(Advance(bm, shift), d) <=>
          \/ r >= b /\ src >= 0 /\ r - b \in bm[src]
          \/ r < b /\ src >= 1 /\ r + w - b \in bm[src - 1]
    <3>1. /\ q \in 0 .. WordCount - 1
          /\ r \in 0 .. WordBits - 1
          /\ src = q - shift \div WordBits
          /\ b \in 0 .. WordBits - 1
          /\ b = shift % WordBits
      BY <1>1, <1>4, <1>6, <2>1, Zenon
    <3>2. r \in ShiftedWord(bm, q, shift) <=>
            \/ r >= b /\ src >= 0 /\ r - b \in bm[src]
            \/ r < b /\ src >= 1 /\ r + WordBits - b \in bm[src - 1]
      BY <2>2, <3>1, ShiftedBit
    <3>q. QED BY <1>1, <2>5, <3>2, Zenon
  <2>7. d - shift = w * src + (r - b)
    BY <1>2, <1>4, <1>5, <1>6, <2>1
  <2>8. CASE r >= b
    <3>1. r - b \in 0 .. w - 1 /\ d - shift \in Int
      BY <1>2, <1>3, <1>4, <1>6, <2>8, SMTT(40)
    <3>2. (d - shift) \div w = src /\ (d - shift) % w = r - b
      <4>1. PICK e, s : e = d - shift /\ s = r - b
        BY Zenon
      <4>2. e \in Int /\ s \in 0 .. w - 1 /\ e = w * src + s
        BY <4>1, <2>7, <3>1, Zenon
      <4>3. e \div w = src /\ e % w = s
        BY <4>2, <1>2, <2>2, DivModUnique
      <4>q. QED BY <4>1, <4>3, Zenon
    <3>3. Marked(bm, d - shift) <=> r - b \in bm[src]
      BY <1>1, <3>2, Zenon DEF Marked
    <3>4. d >= shift <=> src >= 0
      <4>1. src >= 0 => w * src >= 0
        BY <1>2, <2>2
      <4>2. src <= -1 => w * src <= -w
        BY <1>2, <2>2
      <4>q. QED BY <4>1, <4>2, <1>2, <1>3, <2>2, <2>7, <3>1
    <3>5. ~(r < b)
      BY <2>8, <1>4, <1>6
    <3>q. QED BY <2>6, <2>8, <3>3, <3>4, <3>5, Zenon
  <2>9. CASE r < b
    <3>1. r + w - b \in 0 .. w - 1 /\ d - shift \in Int /\ src - 1 \in Int
      BY <1>2, <1>3, <1>4, <1>6, <2>2, <2>9
    <3>2. d - shift = w * (src - 1) + (r + w - b)
      BY <1>2, <1>4, <1>6, <2>2, <2>7
    <3>3. (d - shift) \div w = src - 1 /\ (d - shift) % w = r + w - b
      <4>1. PICK e, s, p : e = d - shift /\ s = r + w - b /\ p = src - 1
        BY Zenon
      <4>2. e \in Int /\ s \in 0 .. w - 1 /\ p \in Int /\ e = w * p + s
        BY <4>1, <3>1, <3>2, Zenon
      <4>3. e \div w = p /\ e % w = s
        BY <4>2, <1>2, DivModUnique
      <4>q. QED BY <4>1, <4>3, Zenon
    <3>4. Marked(bm, d - shift) <=> r + w - b \in bm[src - 1]
      BY <1>1, <3>3, Zenon DEF Marked
    <3>5. d >= shift <=> src >= 1
      <4>1. src - 1 >= 0 => w * (src - 1) >= 0
        BY <1>2, <2>2
      <4>2. src - 1 <= -1 => w * (src - 1) <= -w
        BY <1>2, <2>2
      <4>q. QED BY <4>1, <4>2, <1>2, <1>3, <2>2, <3>1, <3>2
    <3>6. ~(r >= b)
      BY <2>9, <1>4, <1>6
    <3>q. QED BY <2>6, <2>9, <3>4, <3>5, <3>6, Zenon
  <2>q. QED BY <2>8, <2>9, <1>4, <1>6
<1>q. QED
  BY <1>2, <1>8, <1>9

(* Set adds one mark.                                                      *)
LEMMA SetMarks ==
  ASSUME NEW bm \in Bitmaps, NEW e \in 0 .. WindowSize - 1
  PROVE  /\ Set(bm, e) \in Bitmaps
         /\ \A d \in 0 .. WindowSize - 1 :
              Marked(Set(bm, e), d) <=> d = e \/ Marked(bm, d)
<1>1. e \div WordBits \in 0 .. WordCount - 1 /\ e % WordBits \in 0 .. WordBits - 1
  BY InWindow, Zenon
<1>2. Set(bm, e) \in Bitmaps
  BY <1>1, Zenon DEF Set, Bitmaps, Words
<1>3. ASSUME NEW d \in 0 .. WindowSize - 1
      PROVE  Marked(Set(bm, e), d) <=> d = e \/ Marked(bm, d)
  <2>1. d \div WordBits \in 0 .. WordCount - 1
    BY InWindow, Zenon
  <2>2. Marked(Set(bm, e), d) <=>
          \/ d \div WordBits = e \div WordBits /\ d % WordBits = e % WordBits
          \/ Marked(bm, d)
    BY <1>1, <2>1, Zenon DEF Set, Marked, Bitmaps
  <2>3. WordBits \in Nat \ {0} /\ d \in Int /\ e \in Int
    BY WindowAssumption DEF WindowSize
  <2>4. (d \div WordBits = e \div WordBits /\ d % WordBits = e % WordBits) => d = e
    BY <2>3, DivMod, Zenon
  <2>q. QED BY <2>2, <2>4, Zenon
<1>q. QED
  BY <1>2, <1>3, Zenon

-----------------------------------------------------------------------------
(* The inductive invariant.                                                *)

(* The types, with what keeps the generation from wrapping: it counts the  *)
(* committed sequences, of which there are at most MaxSequence.            *)
Counted ==
  /\ highest \in 0 .. MaxSequence
  /\ bitmap \in Bitmaps
  /\ accepted \in SUBSET (1 .. highest)
  /\ generation = Cardinality(accepted)
  /\ tokens \in SUBSET [sequence : 1 .. MaxSequence, generation : 0 .. generation]

(* The bitmap is the part of the committed set that the window tells apart.*)
MarksExact ==
  \A d \in 0 .. WindowSize - 1 : Marked(bitmap, d) <=> highest - d \in accepted

(* The inductive invariant of ReplayWindow.                                *)
WindowInv == Counted /\ MarksExact

(* A set of sequences is finite and no larger than the largest of them.    *)
LEMMA CountBound ==
  ASSUME NEW n \in Nat, NEW S \in SUBSET (1 .. n)
  PROVE  IsFiniteSet(S) /\ Cardinality(S) \in 0 .. n
<1>1. IsFiniteSet(1 .. n) /\ Cardinality(1 .. n) = n
  BY FS_Interval
<1>2. IsFiniteSet(S) /\ Cardinality(S) <= n
  BY <1>1, FS_Subset, Zenon
<1>3. Cardinality(S) \in Nat
  BY <1>2, FS_CardinalityType, Zenon
<1>q. QED
  BY <1>2, <1>3

(* What Check compares, read off the committed set.                        *)
LEMMA MarkedIsAccepted ==
  ASSUME WindowInv, NEW sequence \in Nat, highest - sequence < WindowSize
  PROVE  MarkedInWindow(sequence) <=> sequence \in accepted
<1>1. MaxSequence \in Nat /\ WindowSize \in Nat /\ highest \in Nat
  BY WindowAssumption DEF WindowSize, WindowInv, Counted
<1>2. CASE sequence <= highest
  <2>1. PICK d : d = highest - sequence
    BY Zenon
  <2>2. d \in 0 .. WindowSize - 1 /\ highest - d = sequence
    BY <1>1, <1>2, <2>1
  <2>3. Marked(bitmap, d) <=> sequence \in accepted
    BY <2>2, Zenon DEF WindowInv, MarksExact
  <2>q. QED BY <2>1, <2>2, <2>3, Zenon DEF MarkedInWindow
<1>3. CASE sequence > highest
  <2>1. sequence \notin accepted
    BY <1>1, <1>3 DEF WindowInv, Counted
  <2>2. ~(highest - sequence \in 0 .. WindowSize - 1)
    BY <1>1, <1>3
  <2>q. QED BY <2>1, <2>2, Zenon DEF MarkedInWindow
<1>q. QED
  BY <1>1, <1>2, <1>3

(* The invariant makes Check exact.                                        *)
LEMMA InvExact ==
  ASSUME WindowInv
  PROVE  CheckExact
<1>1. SUFFICES ASSUME NEW sequence \in Sequences64
               PROVE  CheckResult(sequence) = "nil" <=>
                        /\ sequence # 0
                        /\ sequence \notin accepted
                        /\ highest - sequence < WindowSize
  BY Zenon DEF CheckExact
<1>2. sequence \in Nat /\ WindowSize \in Nat /\ highest \in Nat
  BY WindowAssumption DEF WindowSize, WindowInv, Counted, Sequences64
<1>3. CASE sequence = 0
  BY <1>3, Zenon DEF CheckResult
<1>4. CASE sequence # 0 /\ highest - sequence >= WindowSize
  BY <1>2, <1>4 DEF CheckResult
<1>5. CASE sequence # 0 /\ highest - sequence < WindowSize
  <2>1. MarkedInWindow(sequence) <=> sequence \in accepted
    BY <1>2, <1>5, MarkedIsAccepted, Zenon
  <2>2. ~(highest - sequence >= WindowSize)
    BY <1>2, <1>5
  <2>q. QED BY <1>5, <2>1, <2>2, Zenon DEF CheckResult
<1>q. QED
  BY <1>2, <1>3, <1>4, <1>5

(* The zero window satisfies the invariant.                                *)
LEMMA WindowInitInv ==
  ASSUME WindowInit
  PROVE  WindowInv
<1>1. Cardinality({}) = 0
  BY FS_EmptySet, Zenon
<1>2. ClearBitmap \in Bitmaps
  BY Zenon DEF ClearBitmap, Bitmaps, Words
<1>3. Counted
  BY <1>1, <1>2, WindowAssumption DEF WindowInit, Counted
<1>4. ASSUME NEW d \in 0 .. WindowSize - 1
      PROVE  ~Marked(ClearBitmap, d)
  BY InWindow, Zenon DEF Marked, ClearBitmap
<1>5. MarksExact
  BY <1>4, Zenon DEF WindowInit, MarksExact
<1>q. QED
  BY <1>3, <1>5, Zenon DEF WindowInv

(* A call that leaves the window alone only adds a token of this           *)
(* generation or removes one.                                              *)
LEMMA WindowKept ==
  ASSUME WindowInv, UNCHANGED <<highest, bitmap, generation, accepted>>,
         tokens' \in SUBSET [sequence : 1 .. MaxSequence, generation : 0 .. generation]
  PROVE  WindowInv'
BY Zenon DEF WindowInv, Counted, MarksExact, Marked

(* A token of Check is of the present generation.                          *)
LEMMA CheckInv ==
  ASSUME WindowInv, NEW sequence \in Sequences64, Check(sequence)
  PROVE  WindowInv'
<1>1. sequence \in 1 .. MaxSequence
  BY InvExact, WindowAssumption DEF Check, CheckExact, Sequences64
<1>2. generation \in 0 .. generation
  BY CountBound DEF WindowInv, Counted
<1>3. [sequence |-> sequence, generation |-> generation] \in
         [sequence : 1 .. MaxSequence, generation : 0 .. generation]
  BY <1>1, <1>2, Zenon
<1>q. QED
  BY <1>3, WindowKept, Zenon DEF Check, WindowInv, Counted

(* Recording a sequence inside the window, or above it.                    *)
LEMMA RecordMarks ==
  ASSUME WindowInv, NEW sequence \in 1 .. MaxSequence,
         highest - sequence < WindowSize, Record(sequence)
  PROVE  /\ bitmap' \in Bitmaps
         /\ highest' \in 0 .. MaxSequence
         /\ accepted' \in SUBSET (1 .. highest')
         /\ MarksExact'
<1>1. /\ MaxSequence \in Nat
      /\ WindowSize \in Nat \ {0}
      /\ highest \in 0 .. MaxSequence
      /\ highest \in Nat
      /\ sequence \in Nat
      /\ bitmap \in Bitmaps
      /\ accepted \in SUBSET (1 .. highest)
  BY WindowAssumption DEF WindowSize, WindowInv, Counted
<1>2. accepted' = accepted \cup {sequence}
  BY Zenon DEF Record
<1>3. CASE sequence <= highest
  <2>1. PICK e : e = highest - sequence
    BY Zenon
  <2>2. e \in 0 .. WindowSize - 1
    BY <1>1, <1>3, <2>1
  <2>3. bitmap' = Set(bitmap, e) /\ highest' = highest
    BY <1>3, <2>1, Zenon DEF Record
  <2>4. bitmap' \in Bitmaps
    BY <1>1, <2>2, <2>3, SetMarks, Zenon
  <2>5. ASSUME NEW d \in 0 .. WindowSize - 1
        PROVE  Marked(bitmap', d) <=> highest' - d \in accepted'
    <3>1. Marked(bitmap', d) <=> d = e \/ Marked(bitmap, d)
      BY <1>1, <2>2, <2>3, SetMarks, Zenon
    <3>2. Marked(bitmap, d) <=> highest - d \in accepted
      BY Zenon DEF WindowInv, MarksExact
    <3>3. d = e <=> highest - d = sequence
      BY <1>1, <2>1, <2>2
    <3>q. QED BY <1>2, <2>3, <3>1, <3>2, <3>3, Zenon
  <2>6. MarksExact'
    BY <2>5, Zenon DEF MarksExact, Marked, WindowSize
  <2>q. QED BY <1>1, <1>2, <1>3, <2>3, <2>4, <2>6
<1>4. CASE sequence > highest
  <2>1. PICK shift : shift = sequence - highest
    BY Zenon
  <2>2. shift \in Nat /\ shift >= 1
    BY <1>1, <1>4, <2>1
  <2>3. PICK bm : bm = Advance(bitmap, shift)
    BY Zenon
  <2>4. bm \in Bitmaps
    BY <1>1, <2>2, <2>3, AdvanceType, Zenon
  <2>5. ~(sequence <= highest)
    BY <1>1, <1>4
  <2>6. bitmap' = Set(bm, 0) /\ highest' = sequence
    BY <2>1, <2>3, <2>5, Zenon DEF Record
  <2>7. 0 \in 0 .. WindowSize - 1
    BY <1>1
  <2>8. bitmap' \in Bitmaps
    BY <2>4, <2>6, <2>7, SetMarks, Zenon
  <2>9. ASSUME NEW d \in 0 .. WindowSize - 1
        PROVE  Marked(bitmap', d) <=> highest' - d \in accepted'
    <3>1. d \in Nat
      BY <1>1
    <3>2. Marked(bitmap', d) <=> d = 0 \/ Marked(bm, d)
      BY <2>4, <2>6, <2>7, SetMarks, Zenon
    <3>3. Marked(bm, d) <=> d >= shift /\ Marked(bitmap, d - shift)
      BY <1>1, <2>2, <2>3, AdvanceMarks, Zenon
    <3>4. CASE d >= shift
      <4>1. d - shift \in 0 .. WindowSize - 1
        BY <1>1, <2>2, <3>1, <3>4
      <4>2. Marked(bitmap, d - shift) <=> highest - (d - shift) \in accepted
        BY <4>1, Zenon DEF WindowInv, MarksExact
      <4>3. highest - (d - shift) = sequence - d /\ d # 0 /\ sequence - d # sequence
        BY <1>1, <2>1, <2>2, <3>1, <3>4
      <4>q. QED BY <1>2, <2>6, <3>2, <3>3, <3>4, <4>2, <4>3, Zenon
    <3>5. CASE d < shift
      <4>1. sequence - d > highest /\ sequence - d \in Int /\ ~(d >= shift)
        BY <1>1, <2>1, <2>2, <3>1, <3>5
      <4>2. sequence - d \notin accepted
        BY <1>1, <4>1
      <4>3. d = 0 <=> sequence - d = sequence
        BY <1>1, <3>1
      <4>q. QED BY <1>2, <2>6, <3>2, <3>3, <4>1, <4>2, <4>3, Zenon
    <3>q. QED BY <2>2, <3>1, <3>4, <3>5
  <2>10. MarksExact'
    BY <2>9, Zenon DEF MarksExact, Marked, WindowSize
  <2>q. QED BY <1>1, <1>2, <1>4, <2>6, <2>8, <2>10
<1>q. QED
  BY <1>1, <1>3, <1>4

(* A Commit that succeeds adds a new sequence, and takes the generation    *)
(* past that of every token still held.                                    *)
LEMMA CommitInv ==
  ASSUME WindowInv, NEW token \in tokens, Commit(token)
  PROVE  /\ WindowInv'
         /\ token.sequence \in 1 .. MaxSequence
         /\ token.sequence \notin accepted
         /\ highest - token.sequence < WindowSize
         /\ \A other \in tokens' : other.generation # generation'
<1>1. PICK sequence : sequence = token.sequence
  BY Zenon
<1>2. sequence \in 1 .. MaxSequence /\ MaxSequence \in Nat /\ WindowSize \in Nat
  BY <1>1, WindowAssumption DEF WindowInv, Counted, WindowSize
<1>3. sequence \in Nat /\ highest \in Nat /\ highest - sequence < WindowSize
  BY <1>1, <1>2 DEF WindowInv, Counted, Commit, Stale
<1>4. sequence \notin accepted
  BY <1>1, <1>3, MarkedIsAccepted, Zenon DEF Commit, Stale
<1>5. Record(sequence) /\ tokens' = tokens \ {token}
  BY <1>1, Zenon DEF Commit
<1>6. /\ bitmap' \in Bitmaps
      /\ highest' \in 0 .. MaxSequence
      /\ accepted' \in SUBSET (1 .. highest')
      /\ MarksExact'
  BY <1>2, <1>3, <1>5, RecordMarks, Zenon
<1>7. accepted' = accepted \cup {sequence}
  BY <1>5, Zenon DEF Record
<1>8. IsFiniteSet(accepted) /\ generation = Cardinality(accepted)
  BY <1>3, CountBound, Zenon DEF WindowInv, Counted
<1>9. Cardinality(accepted') = generation + 1
  BY <1>4, <1>7, <1>8, FS_AddElement, Zenon
<1>10. generation \in Nat /\ generation + 1 <= MaxSequence
  <2>1. accepted' \in SUBSET (1 .. MaxSequence)
    BY <1>2, <1>6
  <2>2. Cardinality(accepted') \in 0 .. MaxSequence
    BY <1>2, <2>1, CountBound, Zenon
  <2>3. generation \in Nat
    BY <1>8, FS_CardinalityType, Zenon
  <2>q. QED BY <1>2, <1>9, <2>2, <2>3
<1>11. generation' = generation + 1
  <2>1. PICK g, w : g = generation + 1 /\ w = MaxSequence + 1
    BY Zenon
  <2>2. w \in Nat \ {0} /\ g \in 0 .. w - 1 /\ g \in Int /\ g = w * 0 + g /\ 0 \in Int
    BY <1>2, <1>10, <2>1
  <2>3. g % w = g
    BY <2>2, DivModUnique
  <2>q. QED BY <1>5, <2>1, <2>3, Zenon DEF Record
<1>12. \A other \in tokens' : other.generation \in 0 .. generation
  BY <1>5, Zenon DEF WindowInv, Counted
<1>13. \A other \in tokens' : other.generation # generation'
  BY <1>10, <1>11, <1>12
<1>14. tokens' \in SUBSET [sequence : 1 .. MaxSequence, generation : 0 .. generation']
  <2>1. 0 .. generation \subseteq 0 .. generation'
    BY <1>10, <1>11
  <2>q. QED BY <1>5, <2>1, Zenon DEF WindowInv, Counted
<1>15. WindowInv'
  BY <1>6, <1>9, <1>11, <1>14, Zenon DEF WindowInv, Counted
<1>q. QED
  BY <1>1, <1>2, <1>3, <1>4, <1>13, <1>15, Zenon

(* Every call keeps the invariant.                                         *)
LEMMA WindowNextInv ==
  ASSUME WindowInv, [WindowNext]_windowVars
  PROVE  WindowInv'
<1>1. ASSUME NEW sequence \in Sequences64, Check(sequence)
      PROVE  WindowInv'
  BY <1>1, CheckInv, Zenon
<1>2. ASSUME UNCHANGED windowVars
      PROVE  WindowInv'
  BY <1>2, WindowKept, Zenon DEF windowVars, WindowInv, Counted
<1>3. ASSUME NEW token \in tokens, Commit(token)
      PROVE  WindowInv'
  BY <1>3, CommitInv, Zenon
<1>4. ASSUME NEW token \in tokens, CommitStale(token)
      PROVE  WindowInv'
  BY <1>4, WindowKept, Zenon DEF CommitStale, WindowInv, Counted
<1>q. QED
  BY <1>1, <1>2, <1>3, <1>4, Zenon DEF WindowNext, CheckFails
-----------------------------------------------------------------------------
(* The bitmap always is the committed set as far as the window reaches,    *)
(* and the generation the number of its members (window.go and replay.go). *)
THEOREM WindowInductive == WindowSpec => []WindowInv
<1>1. WindowInit => WindowInv
  BY WindowInitInv, Zenon
<1>2. WindowInv /\ [WindowNext]_windowVars => WindowInv'
  BY WindowNextInv, Zenon
<1>q. QED
  BY <1>1, <1>2, PTL DEF WindowSpec

(* Check refuses exactly zero, the committed and the too old, for every    *)
(* word width and number of words (window.go Check, Marked and Advance).   *)
THEOREM CheckIsExact == WindowSpec => []CheckExact
<1>1. WindowInv => CheckExact
  BY InvExact, Zenon
<1>q. QED
  BY <1>1, WindowInductive, PTL

(* No sequence is committed twice, and a commit makes every other          *)
(* outstanding token stale (replay.go Commit): the generation cannot come  *)
(* round to that of a token that is still held.                            *)
THEOREM CommitsOnce == WindowSpec => CommitOnce
<1>1. ASSUME WindowInv, [WindowNext]_windowVars
      PROVE  [\A token \in tokens :
                Commit(token) => /\ token.sequence \notin accepted
                                 /\ \A other \in tokens' : Stale(other)']_windowVars
  <2>1. ASSUME NEW token \in tokens, Commit(token)
        PROVE  token.sequence \notin accepted /\ \A other \in tokens' : Stale(other)'
    BY <1>1, <2>1, CommitInv, Zenon DEF Stale
  <2>q. QED BY <2>1, Zenon
<1>q. QED
  BY <1>1, WindowInductive, PTL DEF WindowSpec, CommitOnce

(* The bitmap window implements the plain set of accepted sequences        *)
(* (replay.go Check and Commit against ReplaySpec).                        *)
THEOREM WindowImplementsPromise == WindowSpec => ImplementsPromise
<1>1. WindowInit => Promise!Init
  BY Zenon DEF WindowInit, Promise!Init, Promise!EmptyWindow
<1>2. ASSUME WindowInv, [WindowNext]_windowVars
      PROVE  [Promise!Next]_[highest |-> highest, seen |-> accepted]
  <2>1. ASSUME NEW token \in tokens, Commit(token)
        PROVE  Promise!Next
    <3>1. PICK sequence : sequence = token.sequence
      BY Zenon
    <3>2. /\ sequence \in 1 .. MaxSequence
          /\ sequence \notin accepted
          /\ highest - sequence < WindowSize
      BY <1>2, <2>1, <3>1, CommitInv, Zenon
    <3>3. Promise!Acceptable([highest |-> highest, seen |-> accepted], sequence)
      BY <3>2 DEF Promise!Acceptable
    <3>4. sequence \in Int /\ highest \in Int
      BY <1>2, <3>2, WindowAssumption DEF WindowInv, Counted
    <3>5. accepted' = accepted \cup {sequence}
          /\ highest' = IF sequence > highest THEN sequence ELSE highest
      BY <2>1, <3>1, <3>4 DEF Commit, Record
    <3>6. [highest |-> highest', seen |-> accepted'] =
            Promise!Committed([highest |-> highest, seen |-> accepted], sequence)
      BY <3>5, Zenon DEF Promise!Committed
    <3>7. Promise!Accept(sequence)
      BY <3>3, <3>6, Zenon DEF Promise!Accept
    <3>q. QED BY <3>2, <3>7, Zenon DEF Promise!Next
  <2>2. CASE UNCHANGED <<highest, accepted>>
    BY <2>2, Zenon
  <2>q. QED
    BY <1>2, <2>1, <2>2, Zenon DEF WindowNext, Check, CheckFails, CommitStale, windowVars
<1>q. QED
  BY <1>1, <1>2, WindowInductive, PTL DEF WindowSpec, ImplementsPromise, Promise!Spec

-----------------------------------------------------------------------------
(* What a client or a server runs with: twice an interval and the window of an
   interval and a timeout were computed without overflow, a keepalive has a
   timeout, a handshake has one, and a ReadTimeout leaves the idle and keepalive
   timers their time ("Zero disables it so IdleTimeout and keepalive liveness
   remain the authoritative deadlines", server_config.go:29-30). *)
Sound(c) ==
  /\ c.handshake > 0 /\ c.idle >= 0 /\ c.interval >= 0 /\ c.timeout >= 0
  /\ c.interval > 0 => c.timeout > 0
  /\ c.interval + c.timeout <= MaxDuration
  /\ c.read = 0 \/ (c.read >= c.idle /\ c.read >= c.interval + c.timeout)

LEMMA DefaultTimeout ==
  ASSUME NEW n \in Durations, n > 0
  PROVE  /\ defaultKeepaliveTimeout(n) \in Durations
         /\ defaultKeepaliveTimeout(n) > 0
         /\ representable(n) => defaultKeepaliveTimeout(n) = 2 * n
BY DurationAssumption DEF defaultKeepaliveTimeout, representable, Wrapped, Durations

LEMMA FieldsOfSettings ==
  ASSUME NEW c \in Settings
  PROVE  /\ {c.handshake, c.read, c.idle, c.interval, c.timeout, c.outbound, c.handler}
              \subseteq Durations
         /\ WithHandshakeTimeout(c) \in Settings
         /\ WithKeepaliveTimeout(c) \in Settings
<1>1. {c.handshake, c.read, c.idle, c.interval, c.timeout, c.outbound, c.handler}
        \subseteq Durations
  BY Zenon DEF Settings
<1>2. DefaultHandshakeTimeout \in Durations
  BY DurationAssumption DEF Durations
<1>3. WithHandshakeTimeout(c) \in Settings
  BY <1>2, Zenon DEF WithHandshakeTimeout, Settings
<1>4. c.interval > 0 => defaultKeepaliveTimeout(c.interval) \in Durations
  BY <1>1, DefaultTimeout, Zenon
<1>5. WithKeepaliveTimeout(c) \in Settings
  BY <1>4, Zenon DEF WithKeepaliveTimeout, Settings
<1>q. QED
  BY <1>1, <1>3, <1>5, Zenon

(* The normal form of accepted settings, field by field. *)
LEMMA Normal ==
  ASSUME NEW c \in Settings, ~ Negative(c), ~ Unrepresentable(c)
  PROVE  LET h == IF c.handshake = 0 THEN DefaultHandshakeTimeout ELSE c.handshake
             t == IF c.interval > 0 /\ c.timeout = 0 THEN 2 * c.interval ELSE c.timeout
             n == WithKeepaliveTimeout(WithHandshakeTimeout(c))
             s == WithHandshakeTimeout(WithKeepaliveTimeout(c))
             k == WithKeepaliveTimeout(c)
         IN /\ n = s
            /\ n.handshake = h /\ n.read = c.read /\ n.idle = c.idle
            /\ n.interval = c.interval /\ n.timeout = t
            /\ k.read = c.read /\ k.idle = c.idle /\ k.interval = c.interval /\ k.timeout = t
<1>1. c.interval > 0 /\ c.timeout = 0 => defaultKeepaliveTimeout(c.interval) = 2 * c.interval
  BY DefaultTimeout, FieldsOfSettings, Zenon DEF Unrepresentable
<1>q. QED
  BY <1>1, Zenon DEF WithKeepaliveTimeout, WithHandshakeTimeout, Settings

LEMMA NotNegative ==
  ASSUME NEW c \in Settings, ~ Negative(c)
  PROVE  /\ {c.handshake, c.read, c.idle, c.interval, c.timeout} \subseteq 0 .. MaxDuration
BY FieldsOfSettings DEF Negative, Durations

(* Arithmetic of the two checks: once neither overflows, Window is what its
   name says. *)
LEMMA WindowIs ==
  ASSUME NEW c, {c.idle, c.interval, c.timeout} \subseteq Nat, c.interval <= MaxDuration
  PROVE  /\ Wrapped(MaxDuration - c.interval) = MaxDuration - c.interval
         /\ c.timeout <= MaxDuration - c.interval =>
              Window(c) = Longer(c.idle, c.interval + c.timeout)
BY DurationAssumption DEF Wrapped, Window

LEMMA ClientNormal ==
  ASSUME NEW c \in Settings, normalizeClientConfig(c).ok
  PROVE  LET n == WithKeepaliveTimeout(WithHandshakeTimeout(c)) IN
         /\ normalizeClientConfig(c).config = n
         /\ c.valid /\ ~ Negative(c) /\ ~ Unrepresentable(c)
         /\ ~ (n.timeout > Wrapped(MaxDuration - n.interval))
         /\ ~ (n.read > 0 /\ n.read < Window(n))
BY Zenon DEF normalizeClientConfig, Accepted, Rejected

LEMMA ServerNormal ==
  ASSUME NEW c \in Settings, NewServer(c).ok
  PROVE  LET k == WithKeepaliveTimeout(c) IN
         /\ NewServer(c).config =
              [WithHandshakeTimeout(k) EXCEPT !.outbound = Queue(@), !.handler = Queue(@)]
         /\ c.valid /\ ~ Negative(c) /\ ~ Unrepresentable(c)
         /\ ~ (k.interval > 0 /\ k.timeout > Wrapped(MaxDuration - k.interval))
         /\ ~ (k.read > 0 /\ Window(k) > 0 /\ k.read < Window(k))
BY Zenon DEF NewServer, Accepted, Rejected

(* Settings that a client accepts are sound once normalised. *)
THEOREM ClientSound ==
  ASSUME NEW c \in Settings, normalizeClientConfig(c).ok
  PROVE  Sound(normalizeClientConfig(c).config)
<1> DEFINE n == WithKeepaliveTimeout(WithHandshakeTimeout(c))
<1>1. /\ normalizeClientConfig(c).config = n /\ ~ Negative(c) /\ ~ Unrepresentable(c)
      /\ ~ (n.timeout > Wrapped(MaxDuration - n.interval))
      /\ ~ (n.read > 0 /\ n.read < Window(n))
  BY ClientNormal, Zenon
<1>2. {c.handshake, c.read, c.idle, c.interval, c.timeout} \subseteq 0 .. MaxDuration
  BY <1>1, NotNegative, Zenon
<1>3. /\ n.handshake = (IF c.handshake = 0 THEN DefaultHandshakeTimeout ELSE c.handshake)
      /\ n.read = c.read /\ n.idle = c.idle /\ n.interval = c.interval
      /\ n.timeout = (IF c.interval > 0 /\ c.timeout = 0 THEN 2 * c.interval ELSE c.timeout)
  BY <1>1, Normal, Zenon
<1> HIDE DEF n
<1>4. /\ Wrapped(MaxDuration - n.interval) = MaxDuration - n.interval
      /\ n.timeout <= MaxDuration - n.interval =>
           Window(n) = Longer(n.idle, n.interval + n.timeout)
  <2>1. {n.idle, n.interval, n.timeout} \subseteq Nat /\ n.interval <= MaxDuration
    BY <1>2, <1>3, DurationAssumption
  <2>q. QED BY <2>1, WindowIs, Zenon
<1>5. Sound(n)
  BY <1>1, <1>2, <1>3, <1>4, DurationAssumption DEF Sound, Longer
<1>q. QED
  BY <1>1, <1>5, Zenon

(* Settings that NewServer accepts are sound once normalised. *)
THEOREM ServerSound ==
  ASSUME NEW c \in Settings, NewServer(c).ok
  PROVE  Sound(NewServer(c).config)
<1> DEFINE k == WithKeepaliveTimeout(c)
           n == WithHandshakeTimeout(k)
           s == NewServer(c).config
<1>1. /\ s = [n EXCEPT !.outbound = Queue(@), !.handler = Queue(@)]
      /\ ~ Negative(c) /\ ~ Unrepresentable(c)
      /\ ~ (k.interval > 0 /\ k.timeout > Wrapped(MaxDuration - k.interval))
      /\ ~ (k.read > 0 /\ Window(k) > 0 /\ k.read < Window(k))
  BY ServerNormal, Zenon
<1>2. {c.handshake, c.read, c.idle, c.interval, c.timeout} \subseteq 0 .. MaxDuration
  BY <1>1, NotNegative, Zenon
<1>3. /\ n.handshake = (IF c.handshake = 0 THEN DefaultHandshakeTimeout ELSE c.handshake)
      /\ n.read = c.read /\ n.idle = c.idle /\ n.interval = c.interval
      /\ n.timeout = (IF c.interval > 0 /\ c.timeout = 0 THEN 2 * c.interval ELSE c.timeout)
      /\ k.read = n.read /\ k.idle = n.idle /\ k.interval = n.interval /\ k.timeout = n.timeout
  BY <1>1, Normal
<1>4. n \in Settings
  <2>1. k \in Settings
    BY FieldsOfSettings, Zenon
  <2> HIDE DEF k
  <2>q. QED BY <2>1, FieldsOfSettings, Zenon
<1> HIDE DEF n, k
<1>5. /\ s.handshake = n.handshake /\ s.read = n.read /\ s.idle = n.idle
      /\ s.interval = n.interval /\ s.timeout = n.timeout
  BY <1>1, <1>4 DEF Settings
<1> HIDE DEF s
<1>6. /\ Wrapped(MaxDuration - k.interval) = MaxDuration - k.interval
      /\ k.timeout <= MaxDuration - k.interval =>
           Window(k) = Longer(k.idle, k.interval + k.timeout)
  <2>1. {k.idle, k.interval, k.timeout} \subseteq Nat /\ k.interval <= MaxDuration
    BY <1>2, <1>3, DurationAssumption
  <2>q. QED BY <2>1, WindowIs, Zenon
<1>7. Sound(s)
  <2>1. k.timeout <= MaxDuration - k.interval
    BY <1>1, <1>2, <1>3, <1>6, DurationAssumption
  <2>2. k.read = 0 \/ (k.read >= k.idle /\ k.read >= k.interval + k.timeout)
    BY <1>1, <1>2, <1>3, <1>6, <2>1, DurationAssumption DEF Longer
  <2>3. /\ k.idle >= 0 /\ k.interval >= 0 /\ k.timeout >= 0 /\ n.handshake > 0
        /\ k.interval > 0 => k.timeout > 0
        /\ k.interval + k.timeout <= MaxDuration
    BY <1>2, <1>3, <2>1, DurationAssumption
  <2>q. QED
    BY <1>3, <1>5, <2>2, <2>3, Zenon DEF Sound
<1>q. QED
  BY <1>7, Zenon DEF s

(* A client and a server accept the same settings, and run them with the same
   timers: two functions that validate the same options in two files agree. *)
THEOREM SameVerdict ==
  ASSUME NEW c \in Settings
  PROVE  /\ normalizeClientConfig(c).ok = NewServer(c).ok
         /\ NewServer(c).ok => Timers(NewServer(c).config) = Timers(normalizeClientConfig(c).config)
<1> DEFINE n == WithKeepaliveTimeout(WithHandshakeTimeout(c))
           k == WithKeepaliveTimeout(c)
           bad == ~ c.valid \/ Negative(c) \/ Unrepresentable(c)
           badClient == \/ n.timeout > Wrapped(MaxDuration - n.interval)
                        \/ (n.read > 0 /\ n.read < Window(n))
           badServer == \/ (k.interval > 0 /\ k.timeout > Wrapped(MaxDuration - k.interval))
                        \/ (k.read > 0 /\ Window(k) > 0 /\ k.read < Window(k))
<1>1. /\ normalizeClientConfig(c).ok = ~ (bad \/ badClient)
      /\ NewServer(c).ok = ~ (bad \/ badServer)
  BY Zenon DEF normalizeClientConfig, NewServer, Accepted, Rejected
<1>2. CASE bad
  BY <1>1, <1>2, Zenon
<1>3. CASE ~ bad
  <2>1. {c.handshake, c.read, c.idle, c.interval, c.timeout} \subseteq 0 .. MaxDuration
    BY <1>3, NotNegative, Zenon
  <2>2. /\ n = WithHandshakeTimeout(k)
        /\ n.read = c.read /\ n.idle = c.idle /\ n.interval = c.interval
        /\ n.timeout = (IF c.interval > 0 /\ c.timeout = 0 THEN 2 * c.interval ELSE c.timeout)
        /\ k.read = n.read /\ k.idle = n.idle /\ k.interval = n.interval /\ k.timeout = n.timeout
    BY <1>3, Normal, Zenon
  <2>3. k \in Settings /\ n \in Settings
    <3>1. k \in Settings
      BY FieldsOfSettings, Zenon
    <3>2. n \in Settings
      <4> HIDE DEF k
      <4>q. QED BY <2>2, <3>1, FieldsOfSettings, Zenon
    <3>q. QED BY <3>1, <3>2, Zenon
  <2> HIDE DEF n, k
  <2>4. Window(k) = Window(n)
    BY <2>2, Zenon DEF Window
  <2>5. /\ {n.idle, n.interval, n.timeout} \subseteq Nat /\ n.interval <= MaxDuration
        /\ n.interval = 0 => n.timeout <= MaxDuration
    BY <2>1, <2>2, DurationAssumption
  <2>6. /\ Wrapped(MaxDuration - n.interval) = MaxDuration - n.interval
        /\ n.timeout <= MaxDuration - n.interval =>
             Window(n) = Longer(n.idle, n.interval + n.timeout)
    BY <2>5, WindowIs, Zenon
  <2>7. badClient = badServer
    BY <2>1, <2>2, <2>4, <2>5, <2>6, DurationAssumption DEF Longer
  <2>8. NewServer(c).ok => Timers(NewServer(c).config) = Timers(normalizeClientConfig(c).config)
    <3> SUFFICES ASSUME NewServer(c).ok PROVE Timers(NewServer(c).config) = Timers(n)
      BY <1>1, <2>7, ClientNormal, Zenon DEF n
    <3>1. NewServer(c).config = [n EXCEPT !.outbound = Queue(@), !.handler = Queue(@)]
      BY <2>2, ServerNormal, Zenon DEF k
    <3>q. QED
      BY <3>1, <2>3, Zenon DEF Timers, Settings
  <2>q. QED
    BY <1>1, <2>7, <2>8, Zenon
<1>q. QED
  BY <1>2, <1>3, Zenon

-----------------------------------------------------------------------------
(* The timers of a runtime, wherever its settings come from. *)
TimerConfigs ==
  { c \in [idle : Int, interval : Int, timeout : Int] : c.interval > 0 => c.timeout > 0 }

Loose ==
  [ valid : BOOLEAN, handshake : Int, read : Int, idle : Int,
    interval : Int, timeout : Int, outbound : Int, handler : Int ]

LEMMA NewConnectionTimers ==
  ASSUME NEW c \in Loose, c.interval \in Durations
  PROVE  Timers(NewConnection(c)) \in TimerConfigs
<1> DEFINE t == IF c.interval > 0 /\ c.timeout <= 0
                THEN defaultKeepaliveTimeout(c.interval) ELSE c.timeout
<1>1. t \in Int /\ (c.interval > 0 => t > 0)
  <2>1. c.interval > 0 => defaultKeepaliveTimeout(c.interval) \in Durations
                          /\ defaultKeepaliveTimeout(c.interval) > 0
    BY DefaultTimeout, Zenon
  <2>2. c.timeout \in Int /\ c.interval \in Int
    BY Zenon DEF Loose
  <2>q. QED
    BY <2>1, <2>2, DurationAssumption DEF Durations
<1>2. Timers(NewConnection(c)) = [idle |-> c.idle, interval |-> c.interval, timeout |-> t]
  BY Zenon DEF Timers, NewConnection, Loose
<1> HIDE DEF t
<1>q. QED
  BY <1>1, <1>2 DEF TimerConfigs, Loose

LEMMA ConfigsOk == ConnectionConfigs \subseteq TimerConfigs
<1>1. ASSUME NEW c \in Givens PROVE Timers(NewConnection(c)) \in TimerConfigs
  <2>1. c \in Settings
    BY KeepaliveAssumption, Zenon
  <2>2. c \in Loose /\ c.interval \in Durations
    BY <2>1, DurationAssumption DEF Settings, Loose, Durations
  <2>q. QED BY <2>2, NewConnectionTimers, Zenon
<1>2. ASSUME NEW c \in Givens, normalizeClientConfig(c).ok
      PROVE  Timers(NewConnection(normalizeClientConfig(c).config)) \in TimerConfigs
  <2> DEFINE h == WithHandshakeTimeout(c)
             n == WithKeepaliveTimeout(h)
  <2>1. c \in Settings
    BY KeepaliveAssumption, Zenon
  <2>2. h \in Settings
    BY <2>1, FieldsOfSettings, Zenon
  <2>3. normalizeClientConfig(c).config = n
    BY <1>2, <2>1, ClientNormal, Zenon
  <2>4. n \in Settings
    <3> HIDE DEF h
    <3>q. QED BY <2>2, FieldsOfSettings, Zenon
  <2> HIDE DEF n
  <2>5. n \in Loose /\ n.interval \in Durations
    BY <2>4, DurationAssumption DEF Settings, Loose, Durations
  <2>q. QED BY <2>3, <2>5, NewConnectionTimers, Zenon
<1>3. ASSUME NEW c \in Givens, NewServer(c).ok
      PROVE  Timers(NewConnection(NewServer(c).config)) \in TimerConfigs
  <2> DEFINE k == WithKeepaliveTimeout(c)
             n == WithHandshakeTimeout(k)
             s == [n EXCEPT !.outbound = Queue(@), !.handler = Queue(@)]
  <2>1. c \in Settings
    BY KeepaliveAssumption, Zenon
  <2>2. k \in Settings
    BY <2>1, FieldsOfSettings, Zenon
  <2>3. NewServer(c).config = s
    BY <1>3, <2>1, ServerNormal, Zenon
  <2>4. n \in Settings
    <3> HIDE DEF k
    <3>q. QED BY <2>2, FieldsOfSettings, Zenon
  <2> HIDE DEF n
  <2>5. n \in Loose /\ n.interval \in Durations
    BY <2>4, DurationAssumption DEF Settings, Loose, Durations
  <2>6. s \in Loose /\ s.interval = n.interval
    <3>1. Queue(n.outbound) \in Int /\ Queue(n.handler) \in Int
      BY <2>5 DEF Loose, Queue
    <3>q. QED BY <2>5, <3>1, Zenon DEF Loose
  <2> HIDE DEF s
  <2>q. QED BY <2>3, <2>5, <2>6, NewConnectionTimers, Zenon
<1>q. QED
  BY <1>1, <1>2, <1>3, Zenon DEF ConnectionConfigs, Normalized

-----------------------------------------------------------------------------
(* The inductive invariant.  A running loop has a pong timer exactly for an
   outstanding ping it has enqueued, a ping only when there is an interval, and
   the acknowledgement of the history is the one under pingMu.               *)
TimerType == [{"idle", "keepalive", "pong"} -> Int]
LoopType == [ at : {"select", "enqueue", "enqueued", "ended"}, outstanding : 0 .. MaxNonce,
              cause : {"nil", "keepalive timeout", "idle timeout", "context"},
              config : TimerConfigs ]
PingType == [nonce : 0 .. MaxNonce, expected : 0 .. MaxNonce, acknowledged : BOOLEAN]
WakeType == [activity : BOOLEAN, pong : BOOLEAN]
PeerType == [pings : SUBSET (1 .. MaxNonce), last : 0 .. MaxNonce, alive : BOOLEAN]
HistoryType == [acknowledged : 0 .. MaxNonce, sincePing : Nat, sinceActivity : Nat]

Types ==
  /\ timer \in TimerType /\ loop \in LoopType /\ ping \in PingType
  /\ wake \in WakeType /\ peer \in PeerType /\ history \in HistoryType

Timing ==
  /\ timer["keepalive"] >= Off /\ timer["pong"] >= Off
  /\ timer["keepalive"] # Off => KeepaliveInterval > 0
  /\ loop.outstanding # 0 => KeepaliveInterval > 0
  /\ loop.at \in {"enqueue", "enqueued"} => loop.outstanding # 0 /\ timer["pong"] = Off
  /\ loop.at = "select" => (loop.outstanding # 0 <=> timer["pong"] # Off)
  /\ timer["pong"] # Off => history.sincePing >= KeepaliveTimeout - timer["pong"]

Acknowledging ==
  /\ ping.expected # 0 => ping.expected = loop.outstanding
  /\ ping.acknowledged => /\ loop.outstanding # 0 /\ ping.expected = 0
                          /\ history.acknowledged = loop.outstanding
  /\ Running /\ loop.outstanding # 0 /\ history.acknowledged = loop.outstanding =>
       ping.acknowledged

IInv ==
  /\ Types /\ Timing /\ Acknowledging /\ TimeoutJustified
  /\ Running => loop.cause = "nil"

LEMMA ZeroNonce == 0 \in 0 .. MaxNonce
BY KeepaliveAssumption

LEMMA InitInv == Init => IInv
<1> SUFFICES ASSUME Init PROVE IInv
  BY Zenon
<1>1. PICK c \in ConnectionConfigs :
        /\ loop = [at |-> "select", outstanding |-> 0, cause |-> "nil", config |-> c]
        /\ timer = [idle |-> Armed(c.idle), keepalive |-> Armed(c.interval), pong |-> Off]
  BY Zenon DEF Init
<1>2. c \in TimerConfigs /\ c.idle \in Int /\ c.interval \in Int
  BY ConfigsOk, Zenon DEF TimerConfigs
<1>3. /\ Armed(c.idle) \in Int /\ Armed(c.interval) \in Int /\ Armed(c.interval) >= Off
      /\ Armed(c.interval) # Off => c.interval > 0
  BY <1>2, SMTT(40) DEF Armed, Off
<1>4. Types
  <2>1. timer \in TimerType
    BY <1>1, <1>3 DEF TimerType, Off
  <2>2. loop \in LoopType
    BY <1>1, <1>2, KeepaliveAssumption, SMTT(40) DEF LoopType
  <2>q. QED
    BY <2>1, <2>2, KeepaliveAssumption, SMTT(40)
    DEF Types, Init, PingType, WakeType, PeerType, HistoryType
<1>5. Timing
  BY <1>1, <1>3, SMTT(40) DEF Timing, KeepaliveInterval, Off
<1>6. Acknowledging /\ TimeoutJustified /\ (Running => loop.cause = "nil")
  BY <1>1, Zenon DEF Init, Acknowledging, TimeoutJustified
<1>q. QED
  BY <1>4, <1>5, <1>6, Zenon DEF IInv

LEMMA TickInv == IInv /\ Tick => IInv'
<1> SUFFICES ASSUME IInv, Tick PROVE IInv'
  BY Zenon
<1> USE DEF KeepaliveInterval, KeepaliveTimeout, IdleTimeout, Running
<1>1. /\ timer \in TimerType /\ loop \in LoopType /\ history \in HistoryType
      /\ loop.config.timeout \in Int /\ loop.config.idle \in Int
  BY Zenon DEF IInv, Types, LoopType, TimerConfigs
<1>2. /\ history'.sincePing = Capped(history.sincePing, KeepaliveTimeout)
      /\ history'.sinceActivity = Capped(history.sinceActivity, IdleTimeout)
      /\ history'.acknowledged = history.acknowledged
      /\ history' \in HistoryType
  <2>1. history.sincePing \in Nat /\ history.sinceActivity \in Nat
    BY <1>1, Zenon DEF HistoryType
  <2>2. /\ Capped(history.sincePing, KeepaliveTimeout) \in Nat
        /\ Capped(history.sinceActivity, IdleTimeout) \in Nat
    BY <1>1, <2>1 DEF Capped
  <2>q. QED
    BY <1>1, <2>2, Zenon DEF Tick, HistoryType
<1>3. timer' = [t \in {"idle", "keepalive", "pong"} |->
                  IF timer[t] > 0 THEN timer[t] - 1 ELSE timer[t]]
  BY <1>1, Zenon DEF Tick, TimerType
<1>4. Types'
  <2>1. timer' \in TimerType
    BY <1>1, <1>3 DEF TimerType
  <2>q. QED
    BY <1>2, <2>1, Zenon DEF Tick, IInv, Types
<1>5. Timing'
  <2>1. /\ timer["keepalive"] \in Int /\ timer["pong"] \in Int /\ history.sincePing \in Nat
        /\ loop' = loop
    BY <1>1, Zenon DEF TimerType, HistoryType, Tick
  <2>2. /\ timer'["pong"] = (IF timer["pong"] > 0 THEN timer["pong"] - 1 ELSE timer["pong"])
        /\ timer'["keepalive"] =
             (IF timer["keepalive"] > 0 THEN timer["keepalive"] - 1 ELSE timer["keepalive"])
    BY <1>3, Zenon
  <2>3. timer'["pong"] # Off => history'.sincePing >= KeepaliveTimeout - timer'["pong"]
    BY <1>1, <1>2, <2>1, <2>2 DEF IInv, Timing, Capped, Off
  <2>q. QED
    BY <2>1, <2>2, <2>3 DEF IInv, Timing, Off
<1>6. Acknowledging' /\ TimeoutJustified' /\ (Running => loop.cause = "nil")'
  BY <1>2, Zenon DEF Tick, IInv, Acknowledging, TimeoutJustified
<1>q. QED
  BY <1>4, <1>5, <1>6, Zenon DEF IInv

(* The loop's steps.  Settled and End are shared by several of them. *)
LEMMA SettledInv ==
  ASSUME IInv, loop.at = "select", ping.acknowledged, Settled,
         wake' \in WakeType, UNCHANGED <<peer, refusals, history>>
  PROVE  IInv'
<1> USE DEF KeepaliveInterval, KeepaliveTimeout, Running
<1>1. /\ timer \in TimerType /\ loop \in LoopType /\ ping \in PingType
      /\ KeepaliveInterval \in Int /\ KeepaliveInterval > 0
  BY Zenon DEF IInv, Types, LoopType, Timing, Acknowledging, TimerConfigs
<1>2. timer' \in TimerType /\ timer'["pong"] = Off /\ timer'["keepalive"] = KeepaliveInterval
  <2>1. timer' = [timer EXCEPT !["pong"] = Off, !["keepalive"] = KeepaliveInterval]
    BY Zenon DEF Settled
  <2>2. Off \in Int
    BY DEF Off
  <2> HIDE DEF KeepaliveInterval
  <2>q. QED BY <1>1, <2>1, <2>2, Zenon DEF TimerType
<1>3. /\ loop' \in LoopType /\ loop'.outstanding = 0 /\ loop'.at = "select"
      /\ loop'.config = loop.config /\ loop'.cause = loop.cause
  BY <1>1, ZeroNonce, Zenon DEF Settled, LoopType
<1>4. ping' \in PingType /\ ping'.acknowledged = FALSE /\ ping'.expected = 0
  <2>1. ping.expected = 0
    BY Zenon DEF IInv, Acknowledging
  <2>q. QED BY <1>1, <2>1, Zenon DEF Settled, PingType
<1>5. Types'
  BY <1>2, <1>3, <1>4, Zenon DEF IInv, Types
<1>6. Timing'
  BY <1>1, <1>2, <1>3 DEF Timing, Off
<1>7. Acknowledging' /\ TimeoutJustified' /\ (Running => loop.cause = "nil")'
  BY <1>3, <1>4, Zenon DEF IInv, Acknowledging, TimeoutJustified
<1>q. QED
  BY <1>5, <1>6, <1>7, Zenon DEF IInv

LEMMA EndInv ==
  ASSUME IInv, loop.at = "select",
         NEW cause \in {"keepalive timeout", "idle timeout", "context"}, End(cause),
         cause = "keepalive timeout" =>
           /\ history.acknowledged # loop.outstanding
           /\ history.sincePing >= KeepaliveTimeout /\ KeepaliveTimeout > 0,
         UNCHANGED <<wake, peer, refusals, history>>
  PROVE  IInv'
<1> USE DEF KeepaliveInterval, KeepaliveTimeout, Running
<1>1. loop \in LoopType /\ ping \in PingType /\ timer' = timer
  BY Zenon DEF IInv, Types, End
<1>2. /\ loop' \in LoopType /\ loop'.outstanding = loop.outstanding /\ loop'.at = "ended"
      /\ loop'.config = loop.config /\ loop'.cause = cause
  BY <1>1, Zenon DEF End, LoopType
<1>3. ping' \in PingType /\ ping'.acknowledged = FALSE /\ ping'.expected = 0
  BY <1>1, ZeroNonce, Zenon DEF End, PingType
<1>4. Types'
  BY <1>1, <1>2, <1>3, Zenon DEF IInv, Types
<1>5. Timing'
  BY <1>1, <1>2, Zenon DEF IInv, Timing
<1>6. Acknowledging' /\ TimeoutJustified' /\ (Running => loop.cause = "nil")'
  BY <1>2, <1>3, Zenon DEF Acknowledging, TimeoutJustified
<1>q. QED
  BY <1>4, <1>5, <1>6, Zenon DEF IInv

LEMMA NextNonceOk ==
  ASSUME ping \in PingType
  PROVE  NextNonce \in 0 .. MaxNonce /\ NextNonce # 0
<1>1. ping.nonce \in 0 .. MaxNonce
  BY Zenon DEF PingType
<1>q. QED
  BY <1>1, KeepaliveAssumption DEF NextNonce

LEMMA BeginPingInv == IInv /\ BeginPing => IInv'
<1> SUFFICES ASSUME IInv, BeginPing PROVE IInv'
  BY Zenon
<1> USE DEF KeepaliveInterval, KeepaliveTimeout, Running
<1>1. /\ timer \in TimerType /\ loop \in LoopType /\ history \in HistoryType
      /\ loop.at = "select" /\ loop.outstanding = 0 /\ timer["keepalive"] = 0
      /\ timer["pong"] = Off /\ KeepaliveInterval > 0 /\ loop.cause = "nil"
  <2>1. Off # 0
    BY DEF Off
  <2>q. QED BY <2>1, Zenon DEF BeginPing, IInv, Types, Timing
<1>2. NextNonce \in 0 .. MaxNonce /\ NextNonce # 0
  BY NextNonceOk, Zenon DEF IInv, Types
<1>3. timer' \in TimerType /\ timer'["keepalive"] = Off /\ timer'["pong"] = Off
  <2>1. Off \in Int
    BY DEF Off
  <2>q. QED BY <1>1, <2>1, Zenon DEF BeginPing, resetTimer, TimerType
<1> HIDE DEF NextNonce
<1>4. /\ loop' \in LoopType /\ loop'.at = "enqueue" /\ loop'.outstanding = NextNonce
      /\ loop'.config = loop.config /\ loop'.cause = "nil"
  BY <1>1, <1>2, Zenon DEF BeginPing, LoopType
<1>5. ping' \in PingType /\ ping'.expected = NextNonce /\ ping'.acknowledged = FALSE
  BY <1>2, Zenon DEF BeginPing, PingType
<1>6. /\ history' \in HistoryType /\ history'.acknowledged = 0
  BY <1>1, ZeroNonce, Zenon DEF BeginPing, HistoryType
<1>7. Types'
  BY <1>3, <1>4, <1>5, <1>6, Zenon DEF BeginPing, IInv, Types
<1>8. Timing'
  BY <1>1, <1>2, <1>3, <1>4 DEF Timing, Off
<1>9. Acknowledging' /\ TimeoutJustified' /\ (Running => loop.cause = "nil")'
  BY <1>2, <1>4, <1>5, <1>6, Zenon DEF Acknowledging, TimeoutJustified
<1>q. QED
  BY <1>7, <1>8, <1>9, Zenon DEF IInv

LEMMA EnqueuePingInv == IInv /\ EnqueuePing => IInv'
<1> SUFFICES ASSUME IInv, EnqueuePing PROVE IInv'
  BY Zenon
<1> USE DEF KeepaliveInterval, KeepaliveTimeout, Running
<1>1. /\ loop \in LoopType /\ peer \in PeerType /\ loop.at = "enqueue"
      /\ loop.outstanding \in 1 .. MaxNonce /\ timer["pong"] = Off /\ loop.cause = "nil"
  <2>1. /\ loop \in LoopType /\ peer \in PeerType /\ loop.at = "enqueue"
        /\ loop.outstanding # 0 /\ timer["pong"] = Off /\ loop.cause = "nil"
    BY Zenon DEF EnqueuePing, IInv, Types, Timing
  <2>2. loop.outstanding \in 0 .. MaxNonce
    BY <2>1, Zenon DEF LoopType
  <2>3. loop.outstanding \in 1 .. MaxNonce
    BY <2>1, <2>2, KeepaliveAssumption
  <2>q. QED BY <2>1, <2>3, Zenon
<1>2. /\ loop' \in LoopType /\ loop'.at = "enqueued" /\ loop'.outstanding = loop.outstanding
      /\ loop'.config = loop.config /\ loop'.cause = loop.cause
  BY <1>1, Zenon DEF EnqueuePing, LoopType
<1>3. peer' \in PeerType
  <2>1. /\ (peer.pings \cap {peer.last}) \cup {loop.outstanding} \in SUBSET (1 .. MaxNonce)
        /\ loop.outstanding \in 0 .. MaxNonce
    BY <1>1 DEF PeerType
  <2>q. QED BY <1>1, <2>1, Zenon DEF EnqueuePing, PeerType
<1>4. Types'
  BY <1>2, <1>3, Zenon DEF EnqueuePing, IInv, Types
<1>5. Timing'
  BY <1>1, <1>2, Zenon DEF EnqueuePing, IInv, Timing
<1>6. Acknowledging' /\ TimeoutJustified' /\ (Running => loop.cause = "nil")'
  BY <1>1, <1>2, Zenon DEF EnqueuePing, IInv, Acknowledging, TimeoutJustified
<1>q. QED
  BY <1>4, <1>5, <1>6, Zenon DEF IInv

LEMMA PingEnqueuedInv == IInv /\ PingEnqueued => IInv'
<1> SUFFICES ASSUME IInv, PingEnqueued PROVE IInv'
  BY Zenon
<1>1. /\ timer \in TimerType /\ loop \in LoopType /\ history \in HistoryType
      /\ loop.at = "enqueued" /\ loop.outstanding # 0 /\ KeepaliveInterval > 0
      /\ loop.cause = "nil" /\ loop.config \in TimerConfigs
  BY Zenon DEF PingEnqueued, IInv, Types, Timing, LoopType, Running
<1>2. KeepaliveTimeout \in Int /\ KeepaliveTimeout > 0
  BY <1>1, Zenon DEF TimerConfigs, KeepaliveTimeout, KeepaliveInterval
<1>3. /\ timer' \in TimerType /\ timer'["pong"] = KeepaliveTimeout
      /\ timer'["keepalive"] = timer["keepalive"]
  BY <1>1, <1>2, Zenon DEF PingEnqueued, resetTimer, TimerType
<1>4. /\ loop' \in LoopType /\ loop'.at = "select" /\ loop'.outstanding = loop.outstanding
      /\ loop'.config = loop.config /\ loop'.cause = loop.cause
  BY <1>1, Zenon DEF PingEnqueued, LoopType
<1>5. /\ history' \in HistoryType /\ history'.sincePing = 0
      /\ history'.acknowledged = history.acknowledged
  BY <1>1, Zenon DEF PingEnqueued, HistoryType
<1>6. Types'
  BY <1>3, <1>4, <1>5, Zenon DEF PingEnqueued, IInv, Types
<1>7. Timing'
  BY <1>1, <1>2, <1>3, <1>4, <1>5
  DEF IInv, Timing, Off, KeepaliveTimeout, KeepaliveInterval
<1>8. Acknowledging' /\ TimeoutJustified' /\ (Running => loop.cause = "nil")'
  BY <1>1, <1>4, <1>5, Zenon DEF PingEnqueued, IInv, Acknowledging, TimeoutJustified, Running
<1>q. QED
  BY <1>6, <1>7, <1>8, Zenon DEF IInv

LEMMA PingRefusedInv == IInv /\ PingRefused => IInv'
<1> SUFFICES ASSUME IInv, PingRefused PROVE IInv'
  BY Zenon
<1>1. /\ timer \in TimerType /\ loop \in LoopType /\ ping \in PingType
      /\ loop.at = "enqueue" /\ timer["pong"] = Off /\ KeepaliveInterval > 0
      /\ loop.cause = "nil" /\ loop.config \in TimerConfigs
  BY Zenon DEF PingRefused, IInv, Types, Timing, LoopType, Running
<1>2. KeepaliveInterval \in Int
  BY <1>1, Zenon DEF TimerConfigs, KeepaliveInterval
<1>3. /\ timer' \in TimerType /\ timer'["pong"] = Off
      /\ timer'["keepalive"] = KeepaliveInterval
  BY <1>1, <1>2, Zenon DEF PingRefused, resetTimer, TimerType
<1>4. /\ loop' \in LoopType /\ loop'.at = "select" /\ loop'.outstanding = 0
      /\ loop'.config = loop.config /\ loop'.cause = loop.cause
  BY <1>1, ZeroNonce, Zenon DEF PingRefused, LoopType
<1>5. ping' \in PingType /\ ping'.expected = 0 /\ ping'.acknowledged = FALSE
  BY <1>1, ZeroNonce, Zenon DEF PingRefused, PingType
<1>6. Types'
  BY <1>3, <1>4, <1>5, Zenon DEF PingRefused, IInv, Types
<1>7. Timing'
  BY <1>1, <1>2, <1>3, <1>4 DEF IInv, Timing, Off, KeepaliveTimeout, KeepaliveInterval
<1>8. Acknowledging' /\ TimeoutJustified' /\ (Running => loop.cause = "nil")'
  BY <1>1, <1>4, <1>5, Zenon DEF Acknowledging, TimeoutJustified
<1>q. QED
  BY <1>6, <1>7, <1>8, Zenon DEF IInv

(* The deadline of a ping: the whole timeout has passed, since the pong timer
   was started for this ping, and what the reader has recorded is seen.      *)
LEMMA PongDeadlineInv == IInv /\ PongDeadline => IInv'
<1> SUFFICES ASSUME IInv, PongDeadline PROVE IInv'
  BY Zenon
<1>1. CASE ping.acknowledged
  <2>1. /\ loop.at = "select" /\ Settled /\ UNCHANGED <<peer, refusals, history>>
        /\ wake' \in WakeType
    BY <1>1, Zenon DEF PongDeadline, IInv, Types
  <2>q. QED BY <1>1, <2>1, SettledInv, Zenon
<1>2. CASE ~ping.acknowledged
  <2>1. /\ loop.at = "select" /\ timer["pong"] = 0 /\ End("keepalive timeout")
        /\ UNCHANGED <<wake, peer, refusals, history>>
    BY <1>2, Zenon DEF PongDeadline
  <2> DEFINE started == timer["pong"] # Off
  <2>a. started
    <3>1. Off # 0
      BY DEF Off
    <3>q. QED BY <2>1, <3>1, Zenon
  <2>b. /\ started => loop.outstanding # 0
        /\ loop.outstanding # 0 => KeepaliveInterval > 0
        /\ started => history.sincePing >= KeepaliveTimeout - timer["pong"]
    BY <2>1, Zenon DEF IInv, Timing
  <2> HIDE DEF started
  <2>2. loop.outstanding # 0 /\ KeepaliveInterval > 0
    BY <2>a, <2>b, Zenon
  <2>3. KeepaliveTimeout \in Int /\ KeepaliveTimeout > 0
    <3>1. loop.config \in TimerConfigs
      BY Zenon DEF IInv, Types, LoopType
    <3>q. QED BY <2>2, <3>1, Zenon DEF TimerConfigs, KeepaliveTimeout, KeepaliveInterval
  <2>4. history.sincePing >= KeepaliveTimeout
    <3>1. history.sincePing >= KeepaliveTimeout - 0
      BY <2>1, <2>a, <2>b, Zenon
    <3>q. QED BY <2>3, <3>1
  <2>5. history.acknowledged # loop.outstanding
    BY <1>2, <2>1, <2>2, Zenon DEF IInv, Acknowledging, Running
  <2>q. QED
    BY <2>1, <2>3, <2>4, <2>5, EndInv, Zenon
<1>q. QED
  BY <1>1, <1>2, Zenon

LEMMA OtherEndsInv == IInv /\ (IdleDeadline \/ Cancel) => IInv'
<1> SUFFICES ASSUME IInv, IdleDeadline \/ Cancel PROVE IInv'
  BY Zenon
<1>1. PICK cause \in {"idle timeout", "context"} :
        loop.at = "select" /\ End(cause) /\ UNCHANGED <<wake, peer, refusals, history>>
  BY Zenon DEF IdleDeadline, Cancel
<1>q. QED
  BY <1>1, EndInv, Zenon

LEMMA WakeupsInv == IInv /\ (Activity \/ PongWakeup) => IInv'
<1> SUFFICES ASSUME IInv, Activity \/ PongWakeup PROVE IInv'
  BY Zenon
<1>1. CASE Activity
  <2>1. /\ timer \in TimerType /\ wake \in WakeType /\ loop.config.idle \in Int
    BY Zenon DEF IInv, Types, LoopType, TimerConfigs
  <2>2. Armed(IdleTimeout) \in Int
    BY <2>1 DEF Armed, Off, IdleTimeout
  <2>3. /\ timer' \in TimerType /\ timer'["pong"] = timer["pong"]
        /\ timer'["keepalive"] = timer["keepalive"]
    BY <1>1, <2>1, <2>2, Zenon DEF Activity, resetTimer, TimerType
  <2>4. wake' \in WakeType
    BY <1>1, <2>1, Zenon DEF Activity, WakeType
  <2>5. UNCHANGED <<loop, ping, peer, refusals, history>>
    BY <1>1, Zenon DEF Activity
  <2>q. QED
    BY <2>3, <2>4, <2>5, Zenon
    DEF IInv, Types, Timing, Acknowledging, TimeoutJustified, Running,
        KeepaliveInterval, KeepaliveTimeout
<1>2. CASE PongWakeup
  <2>1. /\ loop.at = "select" /\ wake' \in WakeType /\ UNCHANGED <<peer, refusals, history>>
    BY <1>2, ZenonT(40) DEF PongWakeup, IInv, Types, WakeType
  <2>2. CASE loop.outstanding # 0 /\ ping.acknowledged
    <3>1. Settled
      BY <1>2, <2>2, Zenon DEF PongWakeup
    <3>q. QED BY <2>1, <2>2, <3>1, SettledInv, Zenon
  <2>3. CASE ~(loop.outstanding # 0 /\ ping.acknowledged)
    <3>1. UNCHANGED <<ping, loop, timer>>
      BY <1>2, <2>3, Zenon DEF PongWakeup
    <3>q. QED
      BY <2>1, <3>1, Zenon
      DEF IInv, Types, Timing, Acknowledging, TimeoutJustified, Running,
          KeepaliveInterval, KeepaliveTimeout
  <2>q. QED BY <2>2, <2>3, Zenon
<1>q. QED
  BY <1>1, <1>2, Zenon

(* The reader: a response counts only for the ping that is expected. *)
LEMMA ReaderInv ==
  ASSUME IInv, ReceiveMessage \/ (\E nonce \in peer.pings : ReceivePong(nonce))
  PROVE  IInv'
<1>1. /\ ping \in PingType /\ wake \in WakeType /\ peer \in PeerType
      /\ history \in HistoryType /\ UNCHANGED <<timer, loop, peer, refusals>>
  BY Zenon DEF IInv, Types, ReceiveMessage, ReceivePong
<1>2. SinceActivity \in Nat
  BY <1>1, Zenon DEF SinceActivity, HistoryType
<1>3. CASE NoteActivity /\ UNCHANGED ping
  <2>1. /\ wake' \in WakeType /\ history' \in HistoryType
        /\ history'.sincePing = history.sincePing
        /\ history'.acknowledged = history.acknowledged
    BY <1>1, <1>2, <1>3, Zenon DEF NoteActivity, WakeType, HistoryType
  <2>q. QED
    BY <1>1, <1>3, <2>1, Zenon
    DEF IInv, Types, Timing, Acknowledging, TimeoutJustified, Running,
        KeepaliveInterval, KeepaliveTimeout
<1>4. CASE \E nonce \in peer.pings :
             /\ Running /\ ping.expected # 0 /\ nonce = ping.expected
             /\ ping' = [ping EXCEPT !.expected = 0, !.acknowledged = TRUE]
             /\ wake' = [activity |-> TRUE, pong |-> TRUE]
             /\ history' = [history EXCEPT !.acknowledged = nonce,
                                           !.sinceActivity = SinceActivity]
  <2>1. /\ ping' = [ping EXCEPT !.expected = 0, !.acknowledged = TRUE]
        /\ wake' = [activity |-> TRUE, pong |-> TRUE]
        /\ history' = [history EXCEPT !.acknowledged = ping.expected,
                                      !.sinceActivity = SinceActivity]
        /\ ping.expected # 0 /\ ping.expected = loop.outstanding /\ Running
    BY <1>4, Zenon DEF IInv, Acknowledging
  <2>2. ping' \in PingType /\ ping'.expected = 0 /\ ping'.acknowledged = TRUE
    BY <1>1, <2>1, ZeroNonce, Zenon DEF PingType
  <2>3. /\ history' \in HistoryType /\ history'.sincePing = history.sincePing
        /\ history'.acknowledged = loop.outstanding
    BY <1>1, <1>2, <2>1, Zenon DEF PingType, HistoryType
  <2>4. wake' \in WakeType
    BY <2>1, Zenon DEF WakeType
  <2>5. Types'
    BY <1>1, <2>2, <2>3, <2>4, Zenon DEF IInv, Types
  <2>6. Timing'
    BY <1>1, <2>3, Zenon DEF IInv, Timing, KeepaliveInterval, KeepaliveTimeout
  <2>7. Acknowledging' /\ TimeoutJustified' /\ (Running => loop.cause = "nil")'
    BY <1>1, <2>1, <2>2, <2>3, Zenon DEF IInv, Acknowledging, TimeoutJustified, Running
  <2>q. QED BY <2>5, <2>6, <2>7, Zenon DEF IInv
<1>q. QED
  BY <1>3, <1>4, ZenonT(40) DEF ReceiveMessage, ReceivePong

LEMMA QuietInv == IInv /\ (PeerDies \/ UNCHANGED vars) => IInv'
<1> SUFFICES ASSUME IInv, PeerDies \/ UNCHANGED vars PROVE IInv'
  BY Zenon
<1>1. UNCHANGED <<timer, loop, ping, wake, refusals, history>>
  BY Zenon DEF PeerDies, vars
<1>2. peer' \in PeerType
  BY Zenon DEF PeerDies, vars, IInv, Types, PeerType
<1>q. QED
  BY <1>1, <1>2, Zenon
  DEF IInv, Types, Timing, Acknowledging, TimeoutJustified, Running,
      KeepaliveInterval, KeepaliveTimeout

-----------------------------------------------------------------------------
(* Every step of maintenanceLoop and of the reader keeps the invariant, for
   any settings, any nonce bound and any delay of a goroutine. *)
THEOREM Inductive == Spec => []IInv
<1>1. IInv /\ [Next]_vars => IInv'
  BY TickInv, WakeupsInv, BeginPingInv, EnqueuePingInv, PingEnqueuedInv, PingRefusedInv,
     PongDeadlineInv, OtherEndsInv, ReaderInv, QuietInv, Zenon
  DEF Next, MaintenanceLoop, Ended
<1>q. QED
  BY InitInv, <1>1, PTL DEF Spec

(* No settings, accepted by DialContext or NewServer or given to NewConnection
   directly, make maintenanceLoop end a connection for a ping that the peer had
   answered or before the ping has had its whole, positive KeepaliveTimeout. *)
THEOREM TimeoutsJustified == Spec => []TimeoutJustified
<1>1. IInv => TimeoutJustified
  BY Zenon DEF IInv
<1>q. QED
  BY Inductive, <1>1, PTL

(* acknowledgePing only accepts the response to the outstanding ping, and an
   outstanding ping always has its deadline, also when nextPingNonce wraps. *)
THEOREM AcknowledgementsMatch == Spec => []AcknowledgementMatches
<1>1. IInv => AcknowledgementMatches
  <2> SUFFICES ASSUME IInv PROVE AcknowledgementMatches
    BY Zenon
  <2>1. peer.pings \subseteq 1 .. MaxNonce
    BY Zenon DEF IInv, Types, PeerType
  <2>2. timer.pong = timer["pong"]
    BY Zenon
  <2>q. QED
    BY <2>1, <2>2, Zenon DEF IInv, Timing, Acknowledging, AcknowledgementMatches
<1>q. QED
  BY Inductive, <1>1, PTL
=============================================================================
