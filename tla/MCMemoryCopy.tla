---------------------------- MODULE MCMemoryCopy ----------------------------
(***************************************************************************)
(* Vectors of 2 and of 4 bytes instead of 32 and 64.  Lengths up to 21     *)
(* take the wide kernel through its loops of four vectors, of one, and     *)
(* through none; the destinations have every alignment and the sources     *)
(* lie below, at, and above them, from overlapping in all but one byte to  *)
(* not at all.                                                             *)
(***************************************************************************)
EXTENDS MemoryCopy

Call(op, policy) ==
  {r \in [op : {op}, policy : {policy}, dst : 5..8, src : 0..12 \cup {30},
          len : {0, 1, 2, 3, 4, 5, 7, 8, 9, 12, 13, 15, 16, 17, 19, 21}] :
     r.src \in {0, 30} \/ r.src \in r.dst - 5 .. r.dst + 4}

MCRequests ==
  Call("copy", "default") \cup Call("move", "default")
    \cup {r \in UNION {Call("policy", p) : p \in Policies} : r.src = 30}
=============================================================================
