------------------------------ MODULE MCSegment ------------------------------
(***************************************************************************)
(* A small instance of Segment for TLC.                                    *)
(***************************************************************************)
EXTENDS Segment, TLC

\* Processes, and the places within each, are interchangeable.
Symmetry ==
  Permutations(Process) \cup Permutations(Slot) \cup Permutations(Descriptor)
    \cup Permutations(Address)
=============================================================================
