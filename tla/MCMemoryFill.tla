---------------------------- MODULE MCMemoryFill ----------------------------
(***************************************************************************)
(* Vectors of 2 and of 4 bytes, destinations of every alignment, and all   *)
(* lengths up to 40, for which the loops of four vectors and of one are    *)
(* taken no, one and several times by either kernel.                       *)
(***************************************************************************)
EXTENDS MemoryFill
=============================================================================
