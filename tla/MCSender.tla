------------------------------ MODULE MCSender ------------------------------
(***************************************************************************)
(* Small instances of Sender for TLC.                                      *)
(***************************************************************************)
EXTENDS Sender, TLC

CONSTANTS r1, r2

TwoDestinations == <<r1, r2>>

\* Sessions, and events that can be sent, are only compared with one another.
Symmetry == Permutations(Session) \cup Permutations(Event \ Unencodable)
=============================================================================
