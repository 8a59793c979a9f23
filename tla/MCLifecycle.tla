---------------------------- MODULE MCLifecycle ----------------------------
(***************************************************************************)
(* Lifecycle for TLC: three storages, two sockets, one name and port that  *)
(* the engines compete for.                                                *)
(***************************************************************************)
EXTENDS Lifecycle, TLC

\* Storages and sockets are interchangeable.
Symmetry == Permutations(Slot) \cup Permutations(Socket)
=============================================================================
