-------------------------------- MODULE Find --------------------------------
(***************************************************************************)
(* bc_core_find_byte, _find_last_byte, _find_any_byte, _find_pattern,      *)
(* _find_byte_in_mask and _find_byte_not_in_mask: the first or the last    *)
(* place of a text where something is found.  The kernels look at several  *)
(* vectors at once, then at one, then at the bytes left over; the last     *)
(* byte is looked for in the opposite order.                               *)
(*                                                                         *)
(* A byte is a pair of nibbles, which the masks of sets of bytes look up   *)
(* in tables of bits; a table entry is modelled as the set of its bits.    *)
(***************************************************************************)
EXTENDS Integers, Sequences

CONSTANTS
  W,         \* the bytes of a 256 bit vector: 32
  Vectors,   \* the vectors looked at in one step: 4
  Half,      \* half of the values of a nibble: 8
  Requests   \* the calls made

Nibble == 2 * Half
Byte   == 0..(Nibble * Nibble - 1)

Ops == {"byte", "pattern", "last", "any", "in", "notin"}

(* What is looked for: a pattern, which is one byte for byte and last, or  *)
(* a set of bytes.                                                         *)
Request == [op : Ops, text : Seq(Byte), pattern : Seq(Byte), targets : SUBSET Byte]

ASSUME FindAssumption ==
  /\ W \in Nat \ {0}
  /\ Vectors \in Nat \ {0}
  /\ Half \in Nat \ {0}
  /\ Requests \subseteq Request
  /\ \A r \in Requests : r.op \in {"byte", "last"} => Len(r.pattern) = 1

VARIABLES
  kernel,   \* the width of the vectors the constructor has chosen: W or 2 * W
  request,  \* the call
  pc,       \* "start", "steps", "vectors", "bytes" or "done"
  offset,   \* how far the search is: all below, or for last all above, is seen
  found,    \* the result
  out       \* *out_offset

vars == <<kernel, request, pc, offset, found, out>>

op      == request.op
text    == request.text
pattern == request.pattern
targets == request.targets

At(p) == text[p + 1]

Init ==
  /\ kernel \in {W, 2 * W}
  /\ request \in Requests
  /\ pc = "start"
  /\ offset = 0
  /\ found = FALSE
  /\ out = 0

(* Only find_byte and find_pattern have an AVX-512 kernel, and find_any    *)
(* and the masks look at one vector at a time.                             *)
Width     == IF op \in {"byte", "pattern"} THEN kernel ELSE W
StepBytes == Vectors * Width
Forward   == op # "last"

(* The positions at which something may be found: simd_end for a pattern.  *)
Limit == IF op = "pattern" THEN Len(text) - (Len(pattern) - 1) ELSE Len(text)

-----------------------------------------------------------------------------
(* bc_core_byte_mask_prepare: the tables, one for each half of the values  *)
(* of the high nibble.                                                     *)
LowTable(half, low) ==
  {bit \in 0..(Half - 1) : (half * Half + bit) * Nibble + low \in targets}

HighTable(half, high) ==
  {bit \in 0..(Half - 1) : high = half * Half + bit}

InMask(b) ==
  \E half \in {0, 1} : LowTable(half, b % Nibble) \cap HighTable(half, b \div Nibble) # {}

(* The bytes left over are looked up in one of the tables.                 *)
TailInMask(b) ==
  LET high == b \div Nibble
  IN IF high < Half
     THEN high \in LowTable(0, b % Nibble)
     ELSE high - Half \in LowTable(1, b % Nibble)

(* A fault: the bytes between the first and the last one are not compared. *)
VerifiedHastily(p) == TRUE

(* verify_pattern_candidate, where the first and the last byte match.      *)
Verified(p) == \A k \in 2..(Len(pattern) - 1) : text[p + k] = pattern[k]

PatternAt(p) ==
  /\ At(p) = pattern[1]
  /\ text[p + Len(pattern)] = pattern[Len(pattern)]
  /\ Verified(p)

(* What the vectors find at a position, and what the loop over the bytes   *)
(* left over finds.                                                        *)
VectorHit(p) ==
  \/ op \in {"byte", "last"} /\ At(p) = pattern[1]
  \/ op = "pattern" /\ PatternAt(p)
  \/ op \in {"any", "in"} /\ InMask(At(p))
  \/ op = "notin" /\ ~InMask(At(p))

ByteHit(p) ==
  \/ op \in {"byte", "last"} /\ At(p) = pattern[1]
  \/ op = "pattern" /\ PatternAt(p)
  \/ op = "any" /\ At(p) \in targets
  \/ op = "in" /\ TailInMask(At(p))
  \/ op = "notin" /\ ~TailInMask(At(p))

-----------------------------------------------------------------------------
(* The call, and what it does before it looks at the text.                 *)
NothingToFind ==
  \/ text = <<>>
  \/ op = "pattern" /\ (pattern = <<>> \/ Len(pattern) > Len(text))
  \/ op = "any" /\ targets = {}

Goto(where) == pc' = where /\ UNCHANGED <<kernel, request>>

Refuse ==
  /\ pc = "start"
  /\ NothingToFind
  /\ Goto("done")
  /\ UNCHANGED <<offset, found, out>>

Begin ==
  /\ pc = "start"
  /\ ~NothingToFind
  /\ offset' = IF Forward THEN 0 ELSE Len(text)
  /\ Goto(IF op \in {"byte", "pattern"} THEN "steps"
          ELSE IF op = "last" THEN "bytes" ELSE "vectors")
  /\ UNCHANGED <<found, out>>

(* There are n bytes to look at.                                           *)
HasRoom(n) == IF Forward THEN offset + n <= Limit ELSE offset >= n

(* The next n positions, and those of them where Hit holds.                *)
Ahead(n) == IF Forward THEN offset..(offset + n - 1) ELSE (offset - n)..(offset - 1)

(* Nothing is found among the next n positions.                            *)
Pass(n) == offset' = (IF Forward THEN offset + n ELSE offset - n) /\ UNCHANGED <<found, out>>

(* The first bit of the first mask that is not 0, or the last of the last. *)
FoundIn(hits) ==
  /\ found' = TRUE
  /\ out' \in hits
  /\ \A p \in hits : IF Forward THEN out' <= p ELSE p <= out'
  /\ Goto("done")
  /\ UNCHANGED offset

Look(n, hits) == IF hits = {} THEN Pass(n) /\ Goto(pc) ELSE FoundIn(hits)

LookAtStep ==
  /\ pc = "steps"
  /\ HasRoom(StepBytes)
  /\ Look(StepBytes, {p \in Ahead(StepBytes) : VectorHit(p)})

EndSteps ==
  /\ pc = "steps"
  /\ ~HasRoom(StepBytes)
  /\ Goto("vectors")
  /\ UNCHANGED <<offset, found, out>>

LookAtVector ==
  /\ pc = "vectors"
  /\ HasRoom(Width)
  /\ Look(Width, {p \in Ahead(Width) : VectorHit(p)})

(* The search for the last byte has begun with the bytes left over.        *)
EndVectors ==
  /\ pc = "vectors"
  /\ ~HasRoom(Width)
  /\ Goto(IF Forward THEN "bytes" ELSE "done")
  /\ UNCHANGED <<offset, found, out>>

(* For last, the bytes that do not fill a vector.                          *)
BytesLeft == IF Forward THEN offset < Limit ELSE offset % W # 0

LookAtByte ==
  /\ pc = "bytes"
  /\ BytesLeft
  /\ Look(1, {p \in Ahead(1) : ByteHit(p)})

EndBytes ==
  /\ pc = "bytes"
  /\ ~BytesLeft
  /\ Goto(IF Forward THEN "done" ELSE "steps")
  /\ UNCHANGED <<offset, found, out>>

Next ==
  \/ Refuse \/ Begin
  \/ LookAtStep \/ EndSteps \/ LookAtVector \/ EndVectors \/ LookAtByte \/ EndBytes

Spec == Init /\ [][Next]_vars

-----------------------------------------------------------------------------
(* The types of the variables.                                             *)
TypeOK ==
  /\ kernel \in {W, 2 * W}
  /\ request \in Requests
  /\ pc \in {"start", "steps", "vectors", "bytes", "done"}
  /\ offset \in Int
  /\ found \in BOOLEAN
  /\ out \in Int

(* What the caller looks for is at a position.                             *)
Occurs(p) ==
  /\ p \in 0..(Len(text) - 1)
  /\ \/ op \in {"byte", "last"} /\ At(p) = pattern[1]
     \/ /\ op = "pattern"
        /\ pattern # <<>>
        /\ p + Len(pattern) <= Len(text)
        /\ \A k \in 1..Len(pattern) : text[p + k] = pattern[k]
     \/ op \in {"any", "in"} /\ At(p) \in targets
     \/ op = "notin" /\ At(p) \notin targets

(* The call returns the first occurrence, or the last one, and false if    *)
(* and only if there is none.  The vectors, the steps and the bytes left   *)
(* over neither leave a gap nor reach past the end.                        *)
FirstFound ==
  pc = "done" =>
    /\ found => Occurs(out)
    /\ \A p \in 0..(Len(text) - 1) :
         Occurs(p) => found /\ (IF Forward THEN out <= p ELSE p <= out)

-----------------------------------------------------------------------------
(* The parts of the inductive invariant.                                   *)

(* The search has not left the text, and it is not over while positions    *)
(* are left.                                                               *)
InvOffset ==
  /\ pc # "done" => ~found
  /\ pc \in {"steps", "vectors", "bytes"} =>
       ~NothingToFind /\ offset >= 0 /\ offset <= Limit
  /\ pc \in {"steps", "vectors"} /\ ~Forward => \E k \in Int : offset = k * W

(* Nothing occurs where the search has been.                               *)
InvSeen ==
  pc \in {"steps", "vectors", "bytes"} =>
    \A p \in 0..(Len(text) - 1) :
      Occurs(p) => (IF Forward THEN offset <= p ELSE p < offset)

IInv == TypeOK /\ InvOffset /\ InvSeen /\ FirstFound
=============================================================================
