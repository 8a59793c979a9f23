------------------------------ MODULE MCEngine ------------------------------
(***************************************************************************)
(* A small instance of Engine for TLC: the only destination is the         *)
(* receiver under study.                                                   *)
(***************************************************************************)
EXTENDS Engine, TLC

CONSTANT here

HereFirst == <<here>>

\* Sessions and events are only compared with one another.
Symmetry == Permutations(Session) \cup Permutations(Event)
=============================================================================
