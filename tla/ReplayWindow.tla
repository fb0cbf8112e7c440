---------------------------- MODULE ReplayWindow ----------------------------
(***************************************************************************)
(* The receive replay window of dgproto-go: internal/replay/window.go and  *)
(* its exported wrapper replay.go.  The window is a bitmap of WordCount    *)
(* words of WordBits bits (32 words of 64 bits in the code); bit d of the  *)
(* bitmap records that sequence highest - d was committed.                 *)
(*                                                                         *)
(* A word is the set of the positions of its one bits, so `|' is union and *)
(* the two shifts translate positions and drop those that leave the word.  *)
(* Callers hold any number of tokens between Check and Commit.             *)
(***************************************************************************)
EXTENDS Integers, FiniteSets

CONSTANTS
  WordBits,    \* bits of a word: 64
  WordCount,   \* words of the bitmap: 32
  MaxSequence, \* the largest sequence number: math.MaxUint64
  MaxTokens    \* bound: tokens outstanding at one time

ASSUME WindowAssumption ==
  /\ WordBits \in Nat \ {0}
  /\ WordCount \in Nat \ {0}
  /\ MaxSequence \in Nat
  /\ MaxTokens \in Nat

VARIABLES
  highest,     \* ReplayWindow.highest
  bitmap,      \* ReplayWindow.bitmap
  generation,  \* ReplayWindow.generation, of the width of a sequence
  tokens,      \* ReplayTokens returned by Check and not yet given to Commit
  accepted     \* history: every sequence Commit has recorded

windowVars == <<highest, bitmap, generation, tokens, accepted>>

WindowSize == WordBits * WordCount

Words == SUBSET (0 .. WordBits - 1)

Sequences64 == 0 .. MaxSequence

ClearBitmap == [i \in 0 .. WordCount - 1 |-> {}]

ShiftLeft(word, k) == {b + k : b \in word} \cap (0 .. WordBits - 1)

ShiftRight(word, k) == {b - k : b \in word} \cap (0 .. WordBits - 1)

Marked(bm, distance) == distance % WordBits \in bm[distance \div WordBits]

Set(bm, distance) ==
  [bm EXCEPT ![distance \div WordBits] = @ \cup {distance % WordBits}]

(* The word the loop of Advance stores at dst, read from the bitmap as the *)
(* loop has left it so far.                                                *)
ShiftedWord(bm, dst, shift) ==
  LET src == dst - shift \div WordBits
      bitShift == shift % WordBits
      carry == IF bitShift # 0 /\ src > 0
               THEN ShiftRight(bm[src - 1], WordBits - bitShift)
               ELSE {}
  IN  IF src >= 0 THEN ShiftLeft(bm[src], bitShift) \cup carry ELSE {}

(* Mutant: in place from the first word, which overwrites what is read.    *)
AdvancedUpward(bm, shift) ==
  LET loop[n \in 0 .. WordCount] ==
        IF n = 0 THEN bm
        ELSE [loop[n - 1] EXCEPT ![n - 1] = ShiftedWord(loop[n - 1], n - 1, shift)]
  IN  loop

(* The loop of Advance, in place from the last word down to the first: the *)
(* bitmap after each number of rounds.                                     *)
Advanced(bm, shift) ==
  LET loop[n \in 0 .. WordCount] ==
        IF n = 0 THEN bm
        ELSE [loop[n - 1] EXCEPT
                ![WordCount - n] = ShiftedWord(loop[n - 1], WordCount - n, shift)]
  IN  loop

Advance(bm, shift) ==
  IF shift >= WindowSize THEN ClearBitmap ELSE Advanced(bm, shift)[WordCount]

MarkedInWindow(sequence) ==
  IF highest - sequence \in 0 .. WindowSize - 1
  THEN Marked(bitmap, highest - sequence)
  ELSE FALSE

CheckResult(sequence) ==
  CASE sequence = 0 -> "ErrZero"
    [] sequence # 0 /\ highest - sequence >= WindowSize -> "ErrTooOld"
    [] sequence # 0 /\ MarkedInWindow(sequence) -> "ErrDuplicate"
    [] OTHER -> "nil"

(* Mutant: the generation is not compared.                                 *)
StaleWithoutGeneration(token) ==
  \/ token.sequence = 0
  \/ highest - token.sequence >= WindowSize
  \/ MarkedInWindow(token.sequence)

(* Commit returns ErrStale, and leaves the window alone, unless the token  *)
(* is of this generation and its sequence is still acceptable.             *)
Stale(token) ==
  \/ token.sequence = 0
  \/ token.generation # generation
  \/ highest - token.sequence >= WindowSize
  \/ MarkedInWindow(token.sequence)
-----------------------------------------------------------------------------
WindowInit ==
  /\ highest = 0
  /\ bitmap = ClearBitmap
  /\ generation = 0
  /\ tokens = {}
  /\ accepted = {}

(* A caller checks a sequence and keeps the token; the window is unchanged.*)
Check(sequence) ==
  /\ CheckResult(sequence) = "nil"
  /\ Cardinality(tokens) < MaxTokens
  /\ tokens' = tokens \cup {[sequence |-> sequence, generation |-> generation]}
  /\ UNCHANGED <<highest, bitmap, generation, accepted>>

(* Check fails: no token, and the window is unchanged.                     *)
CheckFails(sequence) ==
  /\ CheckResult(sequence) # "nil"
  /\ UNCHANGED windowVars

(* Mutant: the last committed sequence becomes the highest.                *)
RecordLast(sequence) ==
  /\ bitmap' = IF sequence <= highest THEN Set(bitmap, highest - sequence)
               ELSE Set(Advance(bitmap, sequence - highest), 0)
  /\ highest' = sequence
  /\ generation' = (generation + 1) % (MaxSequence + 1)
  /\ accepted' = accepted \cup {sequence}

Record(sequence) ==
  /\ IF sequence <= highest
     THEN /\ bitmap' = Set(bitmap, highest - sequence)
          /\ highest' = highest
     ELSE /\ bitmap' = Set(Advance(bitmap, sequence - highest), 0)
          /\ highest' = sequence
  /\ generation' = (generation + 1) % (MaxSequence + 1)
  /\ accepted' = accepted \cup {sequence}

Commit(token) ==
  /\ ~Stale(token)
  /\ Record(token.sequence)
  /\ tokens' = tokens \ {token}

CommitStale(token) ==
  /\ Stale(token)
  /\ tokens' = tokens \ {token}
  /\ UNCHANGED <<highest, bitmap, generation, accepted>>

WindowNext ==
  \/ \E sequence \in Sequences64 : Check(sequence) \/ CheckFails(sequence)
  \/ \E token \in tokens : Commit(token) \/ CommitStale(token)

WindowSpec == WindowInit /\ [][WindowNext]_windowVars
-----------------------------------------------------------------------------
(* Check refuses a sequence exactly when it is zero, was committed before, *)
(* or lies a whole window or more below the highest committed one: across  *)
(* the word shifts and carries of Advance no mark is lost, invented or     *)
(* moved (window.go Check, Set, Marked and Advance against the plain set). *)
CheckExact ==
  \A sequence \in Sequences64 :
    CheckResult(sequence) = "nil" <=>
      /\ sequence # 0
      /\ sequence \notin accepted
      /\ highest - sequence < WindowSize

(* Every Commit that succeeds adds a sequence that was not there, and a    *)
(* commit makes every other outstanding token stale (replay.go Commit:     *)
(* "A token becomes stale after any successful Commit").                   *)
CommitOnce ==
  [][\A token \in tokens :
       Commit(token) => /\ token.sequence \notin accepted
                        /\ \A other \in tokens' : Stale(other)']_windowVars

Promise == INSTANCE ReplaySpec
             WITH window <- [highest |-> highest, seen |-> accepted]

(* The bitmap window implements the set of accepted sequences: a Commit    *)
(* that succeeds is one Accept of ReplaySpec, every other call changes     *)
(* nothing a caller can see (replay.go Check and Commit).                  *)
ImplementsPromise == Promise!Spec
=============================================================================
