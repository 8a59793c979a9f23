---------------------------- MODULE MCRingSetup ----------------------------
(***************************************************************************)
(* RingSetup for TLC with the layout of the code (header 192, metadata 32, *)
(* cache line 64) and small integer widths, so that one configuration more *)
(* overflows in each way.                                                  *)
(***************************************************************************)
EXTENDS RingSetup
=============================================================================
