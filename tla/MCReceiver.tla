----------------------------- MODULE MCReceiver -----------------------------
(***************************************************************************)
(* Small instances of Receiver for TLC.  The network may deliver any       *)
(* packet of any session at any time.                                      *)
(***************************************************************************)
EXTENDS Receiver, TLC

\* Sessions are only compared, and only with one another.
Symmetry == Permutations(Session)
=============================================================================
