------------------------------ MODULE MCWriter ------------------------------
(***************************************************************************)
(* Small writers for TLC.  A buffer of 1, 2 or 3 bytes and fields of up to *)
(* 4 make every branch of write_bytes happen: into the buffer, after a     *)
(* flush, and past the buffer, when what is left to issue allows it.       *)
(***************************************************************************)
EXTENDS Writer
=============================================================================
