-------------------------- MODULE MCSha256Stream --------------------------
(***************************************************************************)
(* Blocks of 4 cells of which 2 hold the length: a remainder of 0 or 1     *)
(* leaves room for the length, one of 2 or 3 needs a block more.  Updates  *)
(* of up to 9 bytes fill a block, pass two blocks by, and leave a rest.    *)
(* Messages of up to 11 bytes have 88 bits, which the length field holds. *)
(***************************************************************************)
EXTENDS Sha256Stream
=============================================================================
