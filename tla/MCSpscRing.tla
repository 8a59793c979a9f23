----------------------------- MODULE MCSpscRing -----------------------------
(***************************************************************************)
(* Small instances of SpscRing for TLC.  MaxPosition, the largest cursor   *)
(* value, is chosen so that the write cursor goes round the slots more     *)
(* than once and also reaches the end of its position space.               *)
(***************************************************************************)
EXTENDS SpscRing, TLC

\* Events that fit a slot are interchangeable in the safety runs.
Symmetry == Permutations(Event \ TooLarge)
=============================================================================
