----------------------------- MODULE Alignment -----------------------------
(***************************************************************************)
(* detail::align_up() (include/lle/detail/alignment.hpp), for an alignment *)
(* that is a nonzero power of two and a result that fits std::size_t.      *)
(***************************************************************************)
EXTENDS Integers

AlignUp(value, alignment) ==
  LET remainder == value % alignment
  IN  IF remainder = 0 THEN value ELSE value + alignment - remainder
=============================================================================
