------------------------------ MODULE MCReader ------------------------------
(***************************************************************************)
(* Small readers for TLC.                                                  *)
(***************************************************************************)
EXTENDS Reader

(* Every way to cut streams of up to 5 bytes into lines.                   *)
ShortStreams == UNION {[length : {n}, newlines : SUBSET (1..n)] : n \in {0, 2, 5}}

(* An empty line, then one of 40 bytes.                                    *)
EmptyThenLong == {[length |-> 42, newlines |-> {1, 42}]}
=============================================================================
