------------------------------ MODULE ReplaySet ------------------------------
(***************************************************************************)
(* A replay window without its bitmap: the set of the sequences it has     *)
(* accepted and the highest of them.  ReplaySpec makes a specification of  *)
(* these operators, which ReplayWindow is shown to implement; Session uses *)
(* them for the windows of its current and its previous receive key.       *)
(***************************************************************************)
EXTENDS Integers

CONSTANT WindowSize \* sequences a window tells apart: replay.WindowSize, 2048

ASSUME WindowSizeAssumption == WindowSize \in Nat \ {0}

(* The zero ReplayWindow.                                                  *)
EmptyWindow == [highest |-> 0, seen |-> {}]

(* ReplayWindow.Check returns a token.                                     *)
Acceptable(w, sequence) ==
  /\ sequence # 0
  /\ sequence \notin w.seen
  /\ w.highest - sequence < WindowSize

(* The window after ReplayWindow.Commit of a token that is not stale.      *)
Committed(w, sequence) ==
  [highest |-> IF sequence > w.highest THEN sequence ELSE w.highest,
   seen    |-> w.seen \cup {sequence}]
=============================================================================
