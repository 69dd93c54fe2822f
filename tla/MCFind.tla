------------------------------- MODULE MCFind -------------------------------
(***************************************************************************)
(* Vectors of 2 or 4 bytes, two of them a step, bytes of two nibbles of    *)
(* two values.  Patterns of up to 3 bytes are looked for in texts of two   *)
(* letters that take the narrow kernel and the wide one through a step, a  *)
(* vector and bytes left over; sets of bytes in texts of all four bytes.   *)
(***************************************************************************)
EXTENDS Find

Texts(n, bytes) == [1..n -> bytes]

Call(o, texts, patterns, sets) ==
  [op : {o}, text : texts, pattern : patterns, targets : sets]

Patterns == UNION {[1..n -> {0, 3}] : n \in 0..3}

MCRequests ==
  Call("pattern", UNION {Texts(n, {0, 3}) : n \in {0, 2, 6, 9}}, Patterns, {{}})
    \cup UNION {Call(o, UNION {Texts(n, {0, 3}) : n \in {0, 6, 9}}, {<<3>>}, {{}}) :
                  o \in {"byte", "last"}}
    \cup UNION {Call(o, UNION {Texts(n, Byte) : n \in {0, 1, 3}}, {<<>>}, SUBSET Byte) :
                  o \in {"any", "in", "notin"}}
=============================================================================
