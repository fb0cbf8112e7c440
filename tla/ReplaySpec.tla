----------------------------- MODULE ReplaySpec -----------------------------
(***************************************************************************)
(* What a replay window promises its caller: it accepts a sequence at most *)
(* once, and refuses a new one only when it is a whole window old.         *)
(***************************************************************************)
EXTENDS ReplaySet

CONSTANT MaxSequence

VARIABLE window

Init == window = EmptyWindow

Accept(sequence) ==
  /\ Acceptable(window, sequence)
  /\ window' = Committed(window, sequence)

Next == \E sequence \in 1 .. MaxSequence : Accept(sequence)

Spec == Init /\ [][Next]_window
=============================================================================
