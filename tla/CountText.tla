----------------------------- MODULE CountText ------------------------------
(***************************************************************************)
(* What the functions of bc_core_count.c have in common: a text, taken     *)
(* from its start by pieces whose size depends on the function and on the  *)
(* vectors it uses, and a count.  Modules CountByte, CountLines and        *)
(* CountWords add what each of them keeps besides, module Count puts them  *)
(* side by side.                                                           *)
(***************************************************************************)
EXTENDS Naturals, Sequences

CONSTANTS
  W,      \* the bytes of a 256 bit vector: 32
  Bytes   \* the bytes of texts

ASSUME TextAssumption == W \in Nat /\ W >= 2

VARIABLES
  function,  \* which one is called: "byte", "lines" or "words"
  text,      \* the bytes there are to count in
  pc,        \* where the function is
  offset,    \* ptr or offset: the bytes taken
  count      \* what was found in them
=============================================================================
