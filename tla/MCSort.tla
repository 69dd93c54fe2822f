------------------------------- MODULE MCSort -------------------------------
(***************************************************************************)
(* Arrays of up to 6 elements, a threshold of 2.  With one partition per   *)
(* binary digit honest keys of three values take the partition to its      *)
(* limit and the rest through the heap, with none the whole array goes     *)
(* through the heap, and with two, as in the code, the stack has room to   *)
(* grow too deep.  Arbitrary answers stand for a comparison that is no     *)
(* order.                                                                  *)
(***************************************************************************)
EXTENDS Sort
=============================================================================
