------------------------------- MODULE Scans --------------------------------
(***************************************************************************)
(* Comparing two regions, the length of a string, and the two loops that   *)
(* change bytes in place: bc_core_compare, _equal, _equal_case_insensitive *)
(* _ascii, _starts_with, _ends_with, _cstring_equal, _cstring_compare,     *)
(* _length, _swap and _ascii_lowercase.  All of them take their input by   *)
(* several vectors, by one, and by the bytes left over.                    *)
(***************************************************************************)
EXTENDS Call, FiniteSetsExt

CONSTANTS
  VectorBytes,   \* of a 256 bit vector: 32
  PageBytes      \* memory is mapped by pages, which hold whole steps

ASSUME ScansAssumption ==
  /\ VectorBytes \in Nat \ {0} /\ VectorBytes % 2 = 0
  /\ PageBytes \in Nat \ {0} /\ PageBytes % (8 * VectorBytes) = 0

Comparisons == {"compare", "equal", "equal_ci", "starts_with", "ends_with",
                "cstring_equal", "cstring_compare"}
Lengths     == {"length"}
InPlace     == {"swap", "lowercase"}
Scans       == Comparisons \cup Lengths \cup InPlace

(* What the signatures say of a call: bytes, one length for two regions of *)
(* the same length, and a string that ends somewhere.                      *)
ScanCall(c) ==
  /\ c.op \in Scans => c.wide \in BOOLEAN
  /\ c.op \in Comparisons \cup InPlace => c.left \in Seq(0..255) /\ c.right \in Seq(0..255)
  /\ c.op \in {"compare", "equal", "swap"} => Len(c.left) = Len(c.right)
  /\ c.op \in Lengths =>
       /\ c.start \in Nat /\ c.terminators \subseteq Nat
       /\ \E t \in c.terminators : t >= c.start

(* call.wide: the constructor has found AVX-512, which compare, equal and  *)
(* length have a kernel for.                                               *)
Vector == IF call.wide /\ call.op \notin {"equal_ci"} \cup InPlace
          THEN 2 * VectorBytes ELSE VectorBytes

(* Letters have the codes of ASCII.  Vectors compare bytes as signed       *)
(* numbers, the loops over the bytes left over as unsigned ones.           *)
Signed(b) == IF b >= 128 THEN b - 256 ELSE b

VectorLower(b) == IF Signed(b) > 64 /\ 91 > Signed(b) THEN b + 32 ELSE b
ByteLower(b)   == IF b >= 65 /\ b <= 90 THEN b + 32 ELSE b

-----------------------------------------------------------------------------
(* Comparisons.                                                            *)

(* What is in front of the terminator, for strings.                        *)
CString(s) ==
  SubSeq(s, 1, Min({n \in 0..Len(s) : n = Len(s) \/ s[n + 1] = 0}))

IsCString == call.op \in {"cstring_equal", "cstring_compare"}
FullLeft  == IF IsCString THEN CString(call.left) ELSE call.left
FullRight == IF IsCString THEN CString(call.right) ELSE call.right

(* The parts that are compared byte by byte.                               *)
Left ==
  CASE call.op = "starts_with" -> SubSeq(FullLeft, 1, Len(FullRight))
    [] call.op = "ends_with" ->
         SubSeq(FullLeft, Len(FullLeft) - Len(FullRight) + 1, Len(FullLeft))
    [] call.op = "cstring_compare" ->
         SubSeq(FullLeft, 1, Min({Len(FullLeft), Len(FullRight)}))
    [] OTHER -> FullLeft
Right == FullRight

(* Regions of lengths that cannot be equal are not compared.               *)
LengthsDiffer ==
  \/ call.op \in {"starts_with", "ends_with"} /\ Len(FullRight) > Len(FullLeft)
  \/ call.op \in {"equal_ci", "cstring_equal"} /\ Len(FullLeft) # Len(FullRight)

(* The bytes of the next step: four vectors, one, for small letters half   *)
(* of one, or what is left, which AVX-512 takes under a mask.              *)
StepOf(length) ==
  IF at + 4 * Vector <= length /\ call.op \notin InPlace THEN 4 * Vector
  ELSE IF at + Vector <= length THEN Vector
  ELSE IF call.op = "lowercase" /\ at + Vector \div 2 <= length THEN Vector \div 2
  ELSE IF Vector > VectorBytes THEN length - at ELSE 1

Lowered(b, step) == IF step > 1 THEN VectorLower(b) ELSE ByteLower(b)

DiffersAt(p, step) ==
  IF call.op = "equal_ci" THEN Lowered(Left[p], step) # Lowered(Right[p], step)
                          ELSE Left[p] # Right[p]

(* A fault: the masks of a step are looked at from the last one on.        *)
LastDifference(differing) == Max(differing)

FirstDifference(differing) == Min(differing)

(* The answer when the bytes at p are the first that differ.               *)
Verdict(p) ==
  Return(TRUE, IF call.op \notin {"compare", "cstring_compare"} THEN 0
               ELSE IF Left[p] < Right[p] THEN -1 ELSE 1)

RefuseLengths ==
  /\ Pending(Comparisons)
  /\ LengthsDiffer
  /\ Return(TRUE, 0)

CompareStep ==
  /\ Pending(Comparisons)
  /\ ~LengthsDiffer
  /\ at < Len(Left)
  /\ LET step      == StepOf(Len(Left))
         differing == {p \in (at + 1)..(at + step) : DiffersAt(p, step)}
     IN IF differing = {} THEN Go(at + step, output) ELSE Verdict(FirstDifference(differing))

(* Nothing differs: of two strings the shorter one is less.                *)
CompareEnd ==
  /\ Pending(Comparisons)
  /\ ~LengthsDiffer
  /\ at = Len(Left)
  /\ Return(TRUE, IF call.op \notin {"compare", "cstring_compare"} THEN 1
                  ELSE IF Len(FullLeft) < Len(FullRight) THEN -1
                  ELSE IF Len(FullLeft) > Len(FullRight) THEN 1 ELSE 0)

-----------------------------------------------------------------------------
(* The length of a string at an address, in a memory with terminators at   *)
(* some addresses: the vectors are aligned, so that the first one begins   *)
(* at or before the string.                                                *)
Pointer == call.start - (call.start % Vector) + at

(* A fault: four vectors are loaded without waiting for a boundary.        *)
LoadWide == IF at = 0 THEN Vector ELSE 4 * Vector

Load == IF at = 0 \/ Pointer % (4 * Vector) # 0 THEN Vector ELSE 4 * Vector

Loaded == {t \in call.terminators : t \in Pointer..(Pointer + Load - 1) /\ t >= call.start}

LengthStep ==
  /\ Pending(Lengths)
  /\ IF Loaded = {} THEN Go(at + Load, output) ELSE Return(TRUE, Min(Loaded) - call.start)

-----------------------------------------------------------------------------
(* Loops that change bytes in place; output is what they have stored.      *)
SwapStep ==
  /\ Pending({"swap"})
  /\ at < Len(call.left)
  /\ LET step == StepOf(Len(call.left))
     IN Go(at + step, output \o [k \in 1..step |-> <<call.right[at + k], call.left[at + k]>>])

LowercaseStep ==
  /\ Pending({"lowercase"})
  /\ at < Len(call.left)
  /\ LET step == StepOf(Len(call.left))
     IN Go(at + step, output \o [k \in 1..step |-> Lowered(call.left[at + k], step)])

InPlaceEnd ==
  /\ Pending(InPlace)
  /\ at = Len(call.left)
  /\ Return(TRUE, output)

ScanNext ==
  \/ RefuseLengths \/ CompareStep \/ CompareEnd
  \/ LengthStep \/ SwapStep \/ LowercaseStep \/ InPlaceEnd

-----------------------------------------------------------------------------
SmallLetter(b) == IF b \in 65..90 THEN b + 32 ELSE b

(* The order of two sequences: that of the first bytes that differ, or of  *)
(* the lengths.                                                            *)
OrderOf(s, t) ==
  LET differing == {p \in 1..Min({Len(s), Len(t)}) : s[p] # t[p]}
      p         == Min(differing)
  IN IF differing # {} THEN (IF s[p] < t[p] THEN -1 ELSE 1)
     ELSE IF Len(s) < Len(t) THEN -1 ELSE IF Len(s) > Len(t) THEN 1 ELSE 0

Holds(op, s, t) ==
  CASE op \in {"equal", "cstring_equal"} -> s = t
    [] op = "equal_ci" ->
         Len(s) = Len(t) /\ \A p \in DOMAIN s : SmallLetter(s[p]) = SmallLetter(t[p])
    [] op = "starts_with" -> Len(t) <= Len(s) /\ \A p \in DOMAIN t : t[p] = s[p]
    [] op = "ends_with" ->
         Len(t) <= Len(s) /\ \A p \in DOMAIN t : t[p] = s[Len(s) - Len(t) + p]

(* Whatever the lengths, the kernel, and the place where two regions       *)
(* differ first, the answer is that of the whole sequences, in the order   *)
(* of unsigned bytes; vectors and the bytes left over agree on what is a   *)
(* letter, also of bytes above 127; and every byte is exchanged or lowered *)
(* once.                                                                   *)
ScanAnswers ==
  /\ Returned({"compare", "cstring_compare"}) => output = OrderOf(FullLeft, FullRight)
  /\ Returned(Comparisons \ {"compare", "cstring_compare"}) =>
       output = IF Holds(call.op, FullLeft, FullRight) THEN 1 ELSE 0
  /\ Returned({"swap"}) =>
       output = [p \in DOMAIN call.left |-> <<call.right[p], call.left[p]>>]
  /\ Returned({"lowercase"}) => output = [p \in DOMAIN call.left |-> SmallLetter(call.left[p])]

(* The length is that up to the first terminator at or after the start,    *)
(* and although whole vectors are loaded, before the string and behind it, *)
(* none of them touches a page that holds no byte of the string.           *)
LengthStaysInPages ==
  call.op \in Lengths =>
    LET end    == Min({t \in call.terminators : t >= call.start})
        page(a) == a \div PageBytes
    IN /\ result = "true" => output = end - call.start
       /\ page(Pointer) >= page(call.start) /\ page(Pointer + Load - 1) <= page(end)

-----------------------------------------------------------------------------
(* The inductive invariant: nothing differs, nothing ends, and everything  *)
(* is exchanged or lowered where the loops have been.                      *)
Agree(p) ==
  IF call.op = "equal_ci" THEN SmallLetter(Left[p]) = SmallLetter(Right[p])
                          ELSE Left[p] = Right[p]

Stored(p) ==
  IF call.op = "swap" THEN <<call.right[p], call.left[p]>> ELSE SmallLetter(call.left[p])

InvCompare ==
  Pending(Comparisons) /\ ~LengthsDiffer => at \in 0..Len(Left) /\ \A p \in 1..at : Agree(p)

InvLength ==
  call.op \in Lengths =>
    /\ at \in Nat /\ at % Vector = 0
    /\ \A t \in call.terminators : t >= call.start => Pointer <= t

InvInPlace ==
  Pending(InPlace) => at \in 0..Len(call.left) /\ output = [p \in 1..at |-> Stored(p)]

InvAnswered ==
  call.op \in Lengths /\ result = "true" =>
    output = Min({t \in call.terminators : t >= call.start}) - call.start

InvScan == InvCompare /\ InvLength /\ InvInPlace /\ InvAnswered /\ ScanAnswers
=============================================================================
