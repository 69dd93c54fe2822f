---------------------------- MODULE MemoryProofs ----------------------------
(***************************************************************************)
(* What bc_core_copy and bc_core_move, and after them bc_core_fill and     *)
(* bc_core_zero, guarantee for regions of any length, wherever they lie,   *)
(* and for vectors of any width.                                           *)
(***************************************************************************)
EXTENDS MemoryCopy, MemoryFill, TLAPS

(* The widths of the vectors, and that a call of W bytes or more has room  *)
(* for one at its head and one at its tail.                                *)
LEMMA Widths ==
  ASSUME TypeOK
  PROVE  /\ W \in Nat \ {0} /\ Size \in Nat
         /\ dst \in Nat /\ src \in Nat /\ len \in Nat
         /\ dst + len <= Size /\ src + len <= Size
         /\ Vector \in Nat /\ Width \in Nat
         /\ W <= Width /\ Width <= Vector
         /\ W <= len => Width <= len
  <1>1. /\ W \in Nat \ {0} /\ Size \in Nat
        /\ dst \in Nat /\ src \in Nat /\ len \in Nat
        /\ dst + len <= Size /\ src + len <= Size
    BY CopyAssumption DEF TypeOK, Request, dst, src, len
  <1>2. Vector \in {W, 2 * W}
    BY CopyAssumption DEF TypeOK, Vector
  <1> QED
    BY <1>1, <1>2 DEF Width

(* The next call keeps its arguments and its kernel.                       *)
LEMMA SameCall ==
  ASSUME UNCHANGED <<vector, request>>
  PROVE  /\ dst' = dst /\ src' = src /\ len' = len
         /\ Disjoint' = Disjoint /\ Vector' = Vector /\ Width' = Width
         /\ Safe' = Safe
         /\ \A e, f : Copied(e, f)' = Copied(e, f)
  <1>1. dst' = dst /\ src' = src /\ len' = len
    BY DEF dst, src, len
  <1>2. Disjoint' = Disjoint /\ Vector' = Vector
    BY <1>1 DEF Disjoint, Vector
  <1> QED
    BY <1>1, <1>2 DEF Width, Safe, Copied

(* A block copied upwards extends what has been copied, if the bytes it    *)
(* loads have not been overwritten: its start may lie below the end of     *)
(* what has been copied, but not by more than the regions are apart.       *)
LEMMA BlockExtends ==
  ASSUME TypeOK, NEW from \in Nat, NEW n \in Nat, NEW e \in Nat,
         from <= e, e <= from + n, from + n <= len,
         Disjoint \/ dst + (e - from) <= src,
         mem = Copied(0, e), CopyBlock(from, n)
  PROVE  mem' = Copied(0, from + n)
  <1>1. /\ dst \in Nat /\ src \in Nat /\ len \in Nat /\ Size \in Nat
        /\ dst + len <= Size /\ src + len <= Size
    BY Widths
  <1>2. ASSUME NEW a \in Addresses, a >= dst + from, a < dst + from + n
        PROVE  src + (a - dst) \in Addresses /\ mem[src + (a - dst)] = src + (a - dst)
    <2>1. a \in Int /\ src + (a - dst) \in Addresses
      BY <1>1, <1>2 DEF Addresses
    <2>2. ~(src + (a - dst) >= dst + 0 /\ src + (a - dst) < dst + e)
      <3>1. CASE Disjoint
        BY <1>1, <1>2, <2>1, <3>1 DEF Disjoint
      <3>2. CASE dst + (e - from) <= src
        BY <1>1, <1>2, <2>1, <3>2
      <3> QED
        BY <3>1, <3>2
    <2> QED
      BY <2>1, <2>2 DEF Copied
  <1>3. ASSUME NEW a \in Addresses, ~(a >= dst + from /\ a < dst + from + n)
        PROVE  mem[a] = IF a >= dst + 0 /\ a < dst + (from + n) THEN src + (a - dst) ELSE a
    <2>1. a \in Int
      BY <1>1 DEF Addresses
    <2>2. (a >= dst + 0 /\ a < dst + (from + n)) <=> (a >= dst + 0 /\ a < dst + e)
      BY <1>1, <1>3, <2>1
    <2> QED
      BY <2>2 DEF Copied
  <1>4. ASSUME NEW a \in Addresses, a >= dst + from, a < dst + from + n
        PROVE  a >= dst + 0 /\ a < dst + (from + n)
    BY <1>1, <1>4 DEF Addresses
  <1>5. ASSUME NEW a \in Addresses
        PROVE  mem'[a] = IF a >= dst + 0 /\ a < dst + (from + n) THEN src + (a - dst) ELSE a
    BY <1>2, <1>3, <1>4 DEF CopyBlock
  <1> QED
    BY <1>5 DEF Copied, CopyBlock

(* The same downwards, when the source is not above the destination.       *)
LEMMA BlockExtendsDown ==
  ASSUME TypeOK, NEW to \in Nat, NEW n \in Nat, n <= to, to <= len, src <= dst,
         mem = Copied(to, len), CopyBlock(to - n, n)
  PROVE  mem' = Copied(to - n, len)
  <1>1. /\ dst \in Nat /\ src \in Nat /\ len \in Nat /\ Size \in Nat
        /\ dst + len <= Size /\ src + len <= Size
    BY Widths
  <1>2. ASSUME NEW a \in Addresses, a >= dst + (to - n), a < dst + (to - n) + n
        PROVE  src + (a - dst) \in Addresses /\ mem[src + (a - dst)] = src + (a - dst)
    <2>1. a \in Int /\ src + (a - dst) \in Addresses
      BY <1>1, <1>2 DEF Addresses
    <2>2. ~(src + (a - dst) >= dst + to)
      BY <1>1, <1>2, <2>1
    <2> QED
      BY <2>1, <2>2 DEF Copied
  <1>3. ASSUME NEW a \in Addresses, ~(a >= dst + (to - n) /\ a < dst + (to - n) + n)
        PROVE  mem[a] = IF a >= dst + (to - n) /\ a < dst + len THEN src + (a - dst) ELSE a
    <2>1. a \in Int
      BY <1>1 DEF Addresses
    <2>2. (a >= dst + (to - n) /\ a < dst + len) <=> (a >= dst + to /\ a < dst + len)
      BY <1>1, <1>3, <2>1
    <2> QED
      BY <2>2 DEF Copied
  <1>4. ASSUME NEW a \in Addresses, a >= dst + (to - n), a < dst + (to - n) + n
        PROVE  a >= dst + (to - n) /\ a < dst + len
    BY <1>1, <1>4 DEF Addresses
  <1>5. ASSUME NEW a \in Addresses
        PROVE  mem'[a] = IF a >= dst + (to - n) /\ a < dst + len THEN src + (a - dst) ELSE a
    BY <1>2, <1>3, <1>4 DEF CopyBlock
  <1> QED
    BY <1>5 DEF Copied, CopyBlock

(* A block inside the region disturbs no address outside the destination   *)
(* and leaves addresses of the memory in it.                               *)
LEMMA BlockInside ==
  ASSUME TypeOK, NothingOutside, NEW from \in Nat, NEW n \in Nat, from + n <= len,
         CopyBlock(from, n), UNCHANGED <<vector, request>>
  PROVE  mem' \in [Addresses -> Addresses] /\ NothingOutside'
  <1>1. \A a \in Addresses :
          a >= dst + from /\ a < dst + from + n => src + (a - dst) \in Addresses
    BY Widths DEF Addresses
  <1>2. mem' \in [Addresses -> Addresses]
    BY <1>1 DEF CopyBlock, TypeOK
  <1>3. ASSUME NEW a \in Addresses, a < dst \/ a >= dst + len
        PROVE  mem'[a] = a
    <2>1. ~(a >= dst + from /\ a < dst + from + n)
      BY <1>3, Widths DEF Addresses
    <2> QED
      BY <1>3, <2>1 DEF CopyBlock, NothingOutside
  <1> QED
    BY <1>2, <1>3, SameCall DEF NothingOutside

(* Nothing copied is the memory as it was.                                 *)
LEMMA CopiedNothing ==
  ASSUME TypeOK, NEW e \in Nat
  PROVE  Copied(e, e) = [a \in Addresses |-> a]
  BY Widths DEF Copied, Addresses

(* The steps that copy nothing.                                            *)
LEMMA StillKeeps ==
  ASSUME IInv, UNCHANGED <<vector, request, mem>>
  PROVE  NothingOutside' /\ mem' \in [Addresses -> Addresses]
  BY SameCall DEF IInv, TypeOK, NothingOutside

(* Entering bc_core_copy, directly or from a move of disjoint regions.     *)
LEMMA StartCopyKeeps == IInv /\ StartCopy => IInv'
  <1> SUFFICES ASSUME IInv, StartCopy PROVE IInv'
    OBVIOUS
  <1> USE DEF StartCopy, Goto
  <1>1. TypeOK' /\ NothingOutside'
    BY StillKeeps DEF IInv, TypeOK
  <1>2. InvLength'
    BY Widths, SameCall DEF IInv, InvLength
  <1>3. InvOverlap'
    BY SameCall DEF IInv, InvOverlap
  <1>4. TypeOK /\ (Safe => mem = Copied(0, 0))
    BY DEF IInv, InvCopied
  <1>5. at' = 0 /\ mem' = mem /\ phase' \in {"done", "bytes", "head"}
    BY DEF IInv, InvLength
  <1>6. InvCopied'
    BY <1>4, <1>5, SameCall DEF InvCopied
  <1>7. phase' = "done" => len = 0
    OBVIOUS
  <1>8. CopiedExactly'
    BY <1>4, <1>5, <1>7, SameCall DEF CopiedExactly
  <1> QED
    BY <1>1, <1>2, <1>3, <1>6, <1>8 DEF IInv

(* The byte loop.                                                          *)
LEMMA CopyByteKeeps == IInv /\ CopyByte => IInv'
  <1> SUFFICES ASSUME IInv, CopyByte PROVE IInv'
    OBVIOUS
  <1> USE DEF CopyByte, Goto
  <1>1. /\ TypeOK /\ NothingOutside /\ at \in Nat /\ len \in Nat /\ at + 1 <= len
        /\ dst \in Nat /\ src \in Nat /\ Vector \in Nat /\ 1 <= Vector
    BY Widths DEF IInv, TypeOK
  <1>2. TypeOK' /\ NothingOutside'
    BY <1>1, BlockInside DEF TypeOK
  <1>3. InvLength'
    BY <1>1, SameCall DEF IInv, InvLength
  <1>4. InvOverlap'
    BY SameCall DEF IInv, InvOverlap
  <1>5. Safe => mem' = Copied(0, at + 1)
    <2> SUFFICES ASSUME Safe PROVE mem' = Copied(0, at + 1)
      OBVIOUS
    <2>1. Disjoint \/ dst + Vector <= src
      BY DEF Safe, IInv, InvOverlap
    <2>2. Disjoint \/ dst + (at - at) <= src
      BY <1>1, <2>1
    <2>3. mem = Copied(0, at)
      BY DEF IInv, InvCopied
    <2> QED
      BY <1>1, <2>2, <2>3, BlockExtends
  <1>6. InvCopied' /\ CopiedExactly'
    BY <1>5, SameCall DEF InvCopied, CopiedExactly
  <1> QED
    BY <1>2, <1>3, <1>4, <1>6 DEF IInv

(* The kernels bear a block that starts up to a vector below the end of    *)
(* what has been copied.                                                   *)
LEMMA CopyBears ==
  ASSUME IInv, Safe, phase \in {"head", "middle", "loop", "tail"},
         NEW from \in Nat, NEW e \in Nat, e <= from + Width
  PROVE  Disjoint \/ dst + (e - from) <= src
  <1>1. Disjoint \/ dst + Vector <= src
    BY DEF Safe, IInv, InvOverlap
  <1> QED
    BY <1>1, Widths DEF IInv

(* The vector at the head, and the offset of the loops.                    *)
LEMMA CopyHeadKeeps == IInv /\ CopyHead => IInv'
  <1> SUFFICES ASSUME IInv, CopyHead PROVE IInv'
    OBVIOUS
  <1> USE DEF CopyHead, Goto
  <1>1. /\ TypeOK /\ NothingOutside /\ len \in Nat /\ Width \in Nat \ {0}
        /\ 0 + Width <= len /\ dst \in Nat /\ W <= len
    BY Widths DEF IInv, InvLength
  <1>2. AlignOffset \in 1..Width
    <2>1. dst % Width \in 0..(Width - 1)
      BY <1>1
    <2> QED
      BY <1>1, <2>1 DEF AlignOffset
  <1>3. at' \in 1..Width /\ phase' \in {"middle", "tail", "loop"}
    BY <1>1, <1>2
  <1>4. TypeOK' /\ NothingOutside'
    BY <1>1, <1>3, BlockInside DEF TypeOK
  <1>5. InvLength'
    BY <1>1, <1>3, SameCall DEF IInv, InvLength
  <1>6. InvOverlap'
    BY <1>3, SameCall DEF IInv, InvOverlap
  <1>7. Safe => mem' = Copied(0, Width)
    <2> SUFFICES ASSUME Safe PROVE mem' = Copied(0, 0 + Width)
      BY <1>1
    <2>1. Disjoint \/ dst + (0 - 0) <= src
      BY <1>1, CopyBears
    <2>2. mem = Copied(0, 0)
      BY DEF IInv, InvCopied
    <2> QED
      BY <1>1, <2>1, <2>2, BlockExtends
  <1>8. InvCopied'
    <2>1. phase' = "middle" => at' = Width
      BY <1>1
    <2>2. Width \in 0..len
      BY <1>1
    <2>3. at' <= Width /\ Width <= at' + Width
      <3>1. \A x \in 1..Width : x <= Width /\ Width <= x + Width
        BY <1>1
      <3> QED
        BY <1>3, <3>1
    <2>4. phase' = "tail" => len <= Width + Width
      BY <1>1
    <2> QED
      BY <1>3, <1>7, <2>1, <2>2, <2>3, <2>4, SameCall DEF InvCopied
  <1>9. CopiedExactly'
    BY <1>3 DEF CopiedExactly
  <1> QED
    BY <1>4, <1>5, <1>6, <1>8, <1>9 DEF IInv

(* The one or two vectors between head and tail.                           *)
LEMMA CopyMiddleKeeps == IInv /\ CopyMiddle => IInv'
  <1> DEFINE n == IF len > 3 * Width THEN 2 * Width ELSE Width
  <1> SUFFICES ASSUME IInv, CopyMiddle PROVE IInv'
    OBVIOUS
  <1> USE DEF CopyMiddle, Goto
  <1>1. /\ TypeOK /\ NothingOutside /\ len \in Nat /\ Width \in Nat \ {0}
        /\ at = Width /\ 2 * Width < len /\ len <= 4 * Width /\ W <= len
    BY Widths DEF IInv, InvLength
  <1>2. /\ n \in Nat /\ at \in Nat /\ at <= at + n /\ at + n <= len
        /\ len <= at + n + Width /\ at + n \in 0..len
    BY <1>1
  <1>3. CopyBlock(at, n)
    OBVIOUS
  <1> HIDE DEF n
  <1>4. TypeOK' /\ NothingOutside'
    BY <1>1, <1>2, <1>3, BlockInside DEF TypeOK
  <1>5. InvLength'
    BY <1>1, SameCall DEF IInv, InvLength
  <1>6. InvOverlap'
    BY SameCall DEF IInv, InvOverlap
  <1>7. Safe => mem' = Copied(0, at + n)
    <2> SUFFICES ASSUME Safe PROVE mem' = Copied(0, at + n)
      OBVIOUS
    <2>1. Disjoint \/ dst + (at - at) <= src
      BY <1>1, <1>2, CopyBears
    <2>2. mem = Copied(0, at)
      BY DEF IInv, InvCopied
    <2> QED
      BY <1>1, <1>2, <1>3, <2>1, <2>2, BlockExtends
  <1>8. InvCopied'
    BY <1>2, <1>7, SameCall DEF InvCopied
  <1>9. CopiedExactly'
    BY DEF CopiedExactly
  <1> QED
    BY <1>4, <1>5, <1>6, <1>8, <1>9 DEF IInv

(* The aligned loops.                                                      *)
LEMMA CopyLoopKeeps ==
  ASSUME IInv, NEW n \in Nat, n >= Width, CopyLoop(n)
  PROVE  IInv'
  <1> USE DEF CopyLoop, Goto
  <1>1. /\ TypeOK /\ NothingOutside /\ len \in Nat /\ Width \in Nat \ {0}
        /\ at \in Nat /\ at + n <= len /\ W <= len
    BY Widths DEF IInv, InvLength, TypeOK
  <1>2. TypeOK' /\ NothingOutside'
    <2>1. unfenced' \in BOOLEAN
      OBVIOUS
    <2> QED
      BY <1>1, <2>1, BlockInside DEF TypeOK
  <1>3. InvLength'
    BY <1>1, SameCall DEF IInv, InvLength
  <1>4. InvOverlap'
    BY SameCall DEF IInv, InvOverlap
  <1>5. Safe => mem' = Copied(0, at + n)
    <2> SUFFICES ASSUME Safe PROVE mem' = Copied(0, at + n)
      OBVIOUS
    <2>1. PICK e \in 0..len : at <= e /\ e <= at + Width /\ mem = Copied(0, e)
      BY DEF IInv, InvCopied
    <2>2. e \in Nat /\ e <= at + n
      BY <1>1, <2>1
    <2>3. Disjoint \/ dst + (e - at) <= src
      BY <1>1, <2>1, <2>2, CopyBears
    <2> QED
      BY <1>1, <2>1, <2>2, <2>3, BlockExtends
  <1>6. InvCopied'
    <2>1. at + n \in 0..len /\ at' <= at + n /\ at + n <= at' + Width
      BY <1>1
    <2> QED
      BY <1>5, <2>1, SameCall DEF InvCopied
  <1>7. CopiedExactly'
    BY DEF CopiedExactly
  <1> QED
    BY <1>2, <1>3, <1>4, <1>6, <1>7 DEF IInv

(* The end of the loops.                                                   *)
LEMMA EndLoopKeeps == IInv /\ EndLoop => IInv'
  <1> SUFFICES ASSUME IInv, EndLoop PROVE IInv'
    OBVIOUS
  <1> USE DEF EndLoop, Goto
  <1>1. TypeOK' /\ NothingOutside'
    BY StillKeeps DEF IInv, TypeOK
  <1>2. InvLength' /\ InvOverlap' /\ CopiedExactly'
    BY SameCall DEF IInv, InvLength, InvOverlap, CopiedExactly
  <1>3. Safe => \E e \in 0..len : len <= e + Width /\ mem = Copied(0, e)
    <2> SUFFICES ASSUME Safe PROVE \E e \in 0..len : len <= e + Width /\ mem = Copied(0, e)
      OBVIOUS
    <2>1. PICK e \in 0..len : at <= e /\ e <= at + Width /\ mem = Copied(0, e)
      BY DEF IInv, InvCopied
    <2>2. len <= e + Width
      BY <2>1, Widths DEF IInv, TypeOK
    <2> QED
      BY <2>1, <2>2
  <1>4. InvCopied'
    BY <1>3, SameCall DEF InvCopied
  <1> QED
    BY <1>1, <1>2, <1>4 DEF IInv

(* The vector at the tail.                                                 *)
LEMMA CopyTailKeeps == IInv /\ CopyTail => IInv'
  <1> SUFFICES ASSUME IInv, CopyTail PROVE IInv'
    OBVIOUS
  <1> USE DEF CopyTail, Goto
  <1>1. /\ TypeOK /\ NothingOutside /\ len \in Nat /\ Width \in Nat \ {0}
        /\ len - Width \in Nat /\ (len - Width) + Width = len
    BY Widths DEF IInv, InvLength
  <1>2. TypeOK' /\ NothingOutside'
    BY <1>1, BlockInside DEF TypeOK
  <1>3. InvLength' /\ InvOverlap' /\ InvCopied'
    BY SameCall DEF IInv, InvLength, InvOverlap, InvCopied
  <1>4. Safe => mem' = Copied(0, len)
    <2> SUFFICES ASSUME Safe PROVE mem' = Copied(0, (len - Width) + Width)
      BY <1>1
    <2>1. PICK e \in 0..len : len <= e + Width /\ mem = Copied(0, e)
      BY DEF IInv, InvCopied
    <2>2. e \in Nat /\ len - Width <= e /\ e <= (len - Width) + Width
      BY <1>1, <2>1
    <2>3. Disjoint \/ dst + (e - (len - Width)) <= src
      BY <1>1, <2>2, CopyBears
    <2> QED
      BY <1>1, <2>1, <2>2, <2>3, BlockExtends
  <1>5. CopiedExactly'
    BY <1>4, SameCall DEF CopiedExactly
  <1> QED
    BY <1>2, <1>3, <1>5 DEF IInv

-----------------------------------------------------------------------------
(* A length is a multiple of the vector and a rest.                        *)
LEMMA VectorsAndRest ==
  ASSUME NEW n \in Nat, NEW w \in Nat \ {0}
  PROVE  /\ n % w \in 0..(w - 1)
         /\ n - (n % w) \in 0..n
         /\ \E k \in 0..n : n - (n % w) = k * w
  <1>1. n % w \in 0..(w - 1) /\ n \div w \in Nat
    OBVIOUS
  <1>2. n = w * (n \div w) + (n % w)
    OBVIOUS
  <1> DEFINE q == n \div w
             r == n % w
             p == w * q
  <1>3. q \in Nat /\ r \in 0..(w - 1) /\ p \in Nat /\ n = p + r
    BY <1>1, <1>2
  <1>4. q <= p /\ p = q * w
    <2> HIDE DEF q
    <2>1. q <= w * q /\ w * q = q * w
      BY <1>3
    <2> QED
      BY <2>1
  <1>5. n - r = p /\ p \in 0..n /\ q \in 0..n
    <2> HIDE DEF p, q, r
    <2> QED
      BY <1>3, <1>4
  <1> QED
    BY <1>3, <1>4, <1>5

(* bc_core_move on overlapping regions picks the direction.                *)
LEMMA StartMoveKeeps == IInv /\ StartMove => IInv'
  <1> SUFFICES ASSUME IInv, StartMove PROVE IInv'
    OBVIOUS
  <1> USE DEF StartMove, Goto
  <1>1. /\ TypeOK /\ len \in Nat /\ dst \in Nat /\ src \in Nat /\ W \in Nat \ {0}
        /\ request.op = "move"
    BY Widths DEF IInv
  <1>2. /\ \/ phase' = "forward" /\ dst < src /\ at' = 0
           \/ phase' = "backward" /\ src <= dst /\ at' = len
        /\ mem' = mem /\ unfenced' = unfenced
    <2>1. CASE dst < src
      BY <2>1
    <2>2. CASE ~(dst < src)
      BY <1>1, <2>2
    <2> QED
      BY <2>1, <2>2
  <1>3. TypeOK' /\ NothingOutside'
    BY <1>1, <1>2, StillKeeps DEF TypeOK
  <1>4. InvLength'
    BY <1>1, <1>2, SameCall DEF IInv, InvLength
  <1>5. InvOverlap'
    <2>1. at' = len /\ ~BackwardByte' => \E k \in 0..len : len = k * W
      <3>1. SUFFICES ASSUME at' = len, ~BackwardByte' PROVE \E k \in 0..len : len = k * W
        OBVIOUS
      <3>2. ~(len > len - (len % W))
        BY <3>1, SameCall DEF BackwardByte
      <3>3. len - (len % W) \in 0..len /\ \E k \in 0..len : len - (len % W) = k * W
        BY <1>1, VectorsAndRest
      <3>4. len - (len % W) = len
        BY <1>1, <3>2, <3>3
      <3> QED
        BY <3>3, <3>4
    <2> QED
      BY <1>2, <2>1, SameCall DEF InvOverlap
  <1>6. InvCopied'
    <2>1. mem = Copied(0, 0)
      BY <1>1 DEF IInv, InvCopied, Safe
    <2>2. mem = Copied(len, len)
      BY <1>1, <2>1, CopiedNothing
    <2> QED
      BY <1>2, <2>1, <2>2, SameCall DEF InvCopied
  <1>7. CopiedExactly'
    BY <1>2 DEF CopiedExactly
  <1> QED
    BY <1>3, <1>4, <1>5, <1>6, <1>7 DEF IInv

(* A byte or a vector upwards.                                             *)
LEMMA MoveForwardKeeps == IInv /\ MoveForward => IInv'
  <1> DEFINE n == IF ForwardByte THEN 1 ELSE W
  <1> SUFFICES ASSUME IInv, MoveForward PROVE IInv'
    OBVIOUS
  <1> USE DEF MoveForward, Goto
  <1>1. /\ TypeOK /\ NothingOutside /\ len \in Nat /\ dst \in Nat /\ src \in Nat
        /\ W \in Nat \ {0} /\ at \in Nat /\ at < len /\ dst < src
    BY Widths DEF IInv, TypeOK, InvOverlap
  <1>2. n \in Nat /\ at + n <= len
    BY <1>1 DEF ForwardByte
  <1>3. CopyBlock(at, n) /\ at' = at + n
    OBVIOUS
  <1> HIDE DEF n
  <1>4. TypeOK' /\ NothingOutside'
    BY <1>1, <1>2, <1>3, BlockInside DEF TypeOK
  <1>5. InvLength'
    BY <1>1, <1>2, <1>3, SameCall DEF IInv, InvLength
  <1>6. InvOverlap'
    BY <1>1, SameCall DEF InvOverlap
  <1>7. Safe => mem' = Copied(0, at + n)
    <2> SUFFICES ASSUME Safe PROVE mem' = Copied(0, at + n)
      OBVIOUS
    <2>1. dst + (at - at) <= src /\ at <= at + n
      BY <1>1, <1>2
    <2>2. mem = Copied(0, at)
      BY DEF IInv, InvCopied
    <2> QED
      BY <1>1, <1>2, <1>3, <2>1, <2>2, BlockExtends
  <1>8. InvCopied' /\ CopiedExactly'
    BY <1>3, <1>7, SameCall DEF InvCopied, CopiedExactly
  <1> QED
    BY <1>4, <1>5, <1>6, <1>8 DEF IInv

(* A byte or a vector downwards.                                           *)
LEMMA MoveBackwardKeeps == IInv /\ MoveBackward => IInv'
  <1> DEFINE n == IF BackwardByte THEN 1 ELSE W
  <1> SUFFICES ASSUME IInv, MoveBackward PROVE IInv'
    OBVIOUS
  <1> USE DEF MoveBackward, Goto
  <1>1. /\ TypeOK /\ NothingOutside /\ len \in Nat /\ dst \in Nat /\ src \in Nat
        /\ W \in Nat \ {0} /\ at \in Nat /\ at <= len /\ src <= dst
    BY Widths DEF IInv, TypeOK, InvOverlap, InvLength
  <1>2. n \in Nat /\ n <= at /\ at - n \in Nat /\ (at - n) + n <= len
    BY <1>1
  <1>3. CopyBlock(at - n, n) /\ at' = at - n
    OBVIOUS
  <1>4. ~BackwardByte' => \E k \in 0..len : at' = k * W
    <2> SUFFICES ASSUME ~BackwardByte' PROVE \E k \in 0..len : at' = k * W
      OBVIOUS
    <2>1. /\ len - (len % W) \in 0..len
          /\ \E k \in 0..len : len - (len % W) = k * W
      BY <1>1, VectorsAndRest
    <2>2. CASE BackwardByte
      <3>1. at > len - (len % W) /\ at' = at - 1 /\ ~(at' > len - (len % W))
        BY <2>2, SameCall DEF BackwardByte
      <3>2. at' = len - (len % W)
        BY <1>1, <2>1, <3>1
      <3> QED
        BY <2>1, <3>2
    <2>3. CASE ~BackwardByte
      <3>1. PICK k \in 0..len : at = k * W
        BY <2>3 DEF IInv, InvOverlap
      <3>2. at' = at - W /\ at >= W
        BY <2>3
      <3>3. k # 0 /\ (k - 1) * W = k * W - W
        BY <1>1, <3>1, <3>2
      <3>4. k - 1 \in 0..len /\ at' = (k - 1) * W
        BY <1>1, <3>1, <3>2, <3>3
      <3> QED
        BY <3>4
    <2> QED
      BY <2>2, <2>3
  <1> HIDE DEF n
  <1>5. TypeOK' /\ NothingOutside'
    BY <1>1, <1>2, <1>3, BlockInside DEF TypeOK
  <1>6. InvLength'
    BY <1>1, <1>2, <1>3, SameCall DEF IInv, InvLength
  <1>7. InvOverlap'
    BY <1>1, <1>4, SameCall DEF InvOverlap
  <1>8. Safe => mem' = Copied(at - n, len)
    BY <1>1, <1>2, <1>3, BlockExtendsDown DEF IInv, InvCopied
  <1>9. InvCopied' /\ CopiedExactly'
    BY <1>3, <1>8, SameCall DEF InvCopied, CopiedExactly
  <1> QED
    BY <1>5, <1>6, <1>7, <1>9 DEF IInv

(* The end of a move.                                                      *)
LEMMA EndMoveKeeps == IInv /\ EndMove => IInv'
  <1> SUFFICES ASSUME IInv, EndMove PROVE IInv'
    OBVIOUS
  <1> USE DEF EndMove, Goto
  <1>1. phase' = "done" /\ at' = at /\ mem' = mem /\ unfenced' = unfenced
    OBVIOUS
  <1>2. TypeOK' /\ NothingOutside'
    BY <1>1, StillKeeps DEF IInv, TypeOK
  <1>3. ~unfenced
    BY DEF IInv, InvLength
  <1>4. InvLength' /\ InvOverlap' /\ InvCopied'
    BY <1>1, <1>3 DEF InvLength, InvOverlap, InvCopied
  <1>5. Safe => mem = Copied(0, len)
    <2>1. CASE phase = "forward" /\ at = len
      BY <2>1 DEF IInv, InvCopied
    <2>2. CASE phase = "backward" /\ ~BackwardByte /\ at < W
      <3>1. PICK k \in 0..len : at = k * W
        BY <2>2 DEF IInv, InvOverlap
      <3>2. W \in Nat \ {0} /\ len \in Nat /\ k \in Nat
        BY <3>1, Widths DEF IInv
      <3>3. k >= 1 => k * W >= W
        BY <3>2
      <3>4. at = 0
        BY <2>2, <3>1, <3>2, <3>3
      <3> QED
        BY <2>2, <3>4 DEF IInv, InvCopied
    <2> QED
      BY <2>1, <2>2
  <1>6. CopiedExactly'
    BY <1>1, <1>5, SameCall DEF CopiedExactly
  <1> QED
    BY <1>2, <1>4, <1>6 DEF IInv

-----------------------------------------------------------------------------
(* A call starts with nothing copied.                                      *)
LEMMA InitIInv == Init => IInv
  <1> SUFFICES ASSUME Init PROVE IInv
    OBVIOUS
  <1> USE DEF Init
  <1>1. TypeOK
    BY CopyAssumption DEF TypeOK
  <1>2. mem = Copied(0, 0)
    BY <1>1, CopiedNothing
  <1>3. InvLength /\ InvOverlap /\ CopiedExactly /\ NothingOutside
    BY DEF InvLength, InvOverlap, CopiedExactly, NothingOutside
  <1>4. InvCopied
    BY <1>2 DEF InvCopied
  <1> QED
    BY <1>1, <1>3, <1>4 DEF IInv

(* A step of a copy or a move, or none, keeps the inductive invariant.      *)
LEMMA NextIInv == IInv /\ [Next]_copyVars => IInv'
  <1> SUFFICES ASSUME IInv, [Next]_copyVars PROVE IInv'
    OBVIOUS
  <1>1. CASE CopyFour
    <2>1. Width \in Nat
      BY Widths DEF IInv
    <2>2. 4 * Width \in Nat /\ 4 * Width >= Width
      BY <2>1
    <2> QED
      BY <1>1, <2>2, CopyLoopKeeps DEF CopyFour
  <1>2. CASE CopyOne
    <2>1. Width \in Nat /\ Width >= Width
      BY Widths DEF IInv
    <2> QED
      BY <1>2, <2>1, CopyLoopKeeps DEF CopyOne
  <1>3. CASE UNCHANGED copyVars
    <2>1. UNCHANGED <<vector, request, phase, at, mem, unfenced>>
      BY <1>3 DEF copyVars
    <2>2. UNCHANGED <<dst, src, len, Disjoint, Vector, Width, Safe, BackwardByte>>
      BY <2>1, SameCall DEF BackwardByte
    <2>3. \A e, f : Copied(e, f)' = Copied(e, f)
      BY <2>1, SameCall
    <2> QED
      BY <2>1, <2>2, <2>3 DEF IInv, TypeOK, InvLength, InvOverlap, InvCopied,
         CopiedExactly, NothingOutside
  <1> QED
    BY <1>1, <1>2, <1>3, StartCopyKeeps, CopyByteKeeps, CopyHeadKeeps, CopyMiddleKeeps,
       EndLoopKeeps, CopyTailKeeps, StartMoveKeeps, MoveForwardKeeps, MoveBackwardKeeps,
       EndMoveKeeps
       DEF Next, Copying, Moving

(* The inductive invariant, for calls of any length on memory of any size. *)
THEOREM Inductive == Spec => []IInv
  BY InitIInv, NextIInv, PTL DEF Spec

(* The variables keep their types: no address outside the memory is read.  *)
THEOREM TypeCorrect == Spec => []TypeOK
  BY Inductive, PTL DEF IInv

(* bc_core_move copies exactly whatever overlaps; bc_core_copy does when   *)
(* nothing overlaps, or the source lies a vector or more above.            *)
THEOREM Exactness == Spec => []CopiedExactly
  BY Inductive, PTL DEF IInv

(* No call, however its regions overlap, ever disturbs a byte outside its  *)
(* destination.                                                            *)
THEOREM Containment == Spec => []NothingOutside
  BY Inductive, PTL DEF IInv

(* No call returns with non-temporal stores that are not ordered.          *)
THEOREM Fenced == Spec => []FencedOnReturn
  <1>1. IInv => FencedOnReturn
    BY DEF IInv, InvLength, FencedOnReturn
  <1> QED
    BY <1>1, Inductive, PTL

(* What a whole number of vectors leaves over, and what they do not.       *)
LEMMA Boundaries ==
  ASSUME NEW w \in Nat \ {0}
  PROVE  /\ \A k \in Nat : (k * w) % w = 0
         /\ \A x \in Nat : x % w = 0 => \E k \in Nat : x = k * w
         /\ \A x \in Nat : \E k \in Nat : x + (w - (x % w)) = k * w
         /\ \A k \in Nat : k * w + w = (k + 1) * w /\ k * w + 4 * w = (k + 4) * w
  <1>1. ASSUME NEW k \in Nat PROVE k * w + w = (k + 1) * w /\ k * w + 4 * w = (k + 4) * w
    OBVIOUS
  <1>2. ASSUME NEW k \in Nat PROVE (k * w) % w = 0
    <2>1. k * w = k * w + 0 /\ 0 \in 0..(w - 1)
      OBVIOUS
    <2> QED
      BY <2>1
  <1>3. ASSUME NEW x \in Nat PROVE \E k \in Nat : x + (w - (x % w)) = k * w
    <2> DEFINE q == x \div w
               r == x % w
    <2>1. q \in Nat /\ r \in 0..(w - 1) /\ x = w * q + r
      OBVIOUS
    <2> HIDE DEF q, r
    <2>2. q + 1 \in Nat /\ x + (w - r) = (q + 1) * w
      BY <2>1
    <2> QED
      BY <2>2 DEF r
  <1>4. ASSUME NEW x \in Nat, x % w = 0 PROVE \E k \in Nat : x = k * w
    <2> DEFINE q == x \div w
               r == x % w
    <2>1. q \in Nat /\ r = 0 /\ x = w * q + r
      BY <1>4
    <2> HIDE DEF q, r
    <2>2. x = q * w
      BY <2>1
    <2> QED
      BY <2>1, <2>2
  <1> QED
    BY <1>1, <1>2, <1>3, <1>4

(* The loops go from boundary to boundary.                                 *)
LEMMA AlignedKeeps ==
  ASSUME TypeOK, InvAligned, [Next]_copyVars
  PROVE  InvAligned'
  <1> SUFFICES ASSUME phase' = "loop" PROVE (dst' + at') % Width' = 0
    BY DEF InvAligned
  <1>1. dst \in Nat /\ Width \in Nat \ {0} /\ at \in Nat
    BY Widths DEF TypeOK
  <1>2. PICK w \in Nat \ {0} : w = Width
    BY <1>1
  <1>3. PICK d \in Nat : d = dst
    BY <1>1
  <1>4. ASSUME UNCHANGED <<vector, request>> PROVE dst' = d /\ Width' = w
    BY <1>2, <1>3, <1>4, SameCall
  <1>5. CASE CopyHead
    <2>1. at' = w - (d % w)
      BY <1>2, <1>3, <1>5 DEF CopyHead, Goto, AlignOffset
    <2>2. dst' = d /\ Width' = w
      BY <1>4, <1>5 DEF CopyHead, Goto, CopyBlock
    <2>3. PICK k \in Nat : d + (w - (d % w)) = k * w
      BY Boundaries
    <2>4. (k * w) % w = 0
      BY Boundaries
    <2> QED
      BY <2>1, <2>2, <2>3, <2>4
  <1>6. CASE CopyFour \/ CopyOne
    <2>1. phase = "loop" /\ (at' = at + 4 * w \/ at' = at + w)
      BY <1>2, <1>6 DEF CopyFour, CopyOne, CopyLoop
    <2>2. dst' = d /\ Width' = w
      BY <1>4, <1>6 DEF CopyFour, CopyOne, CopyLoop, CopyBlock, Goto
    <2>3. PICK k \in Nat : d + at = k * w
      <3>1. d + at \in Nat /\ (d + at) % w = 0
        BY <1>1, <1>2, <1>3, <2>1 DEF InvAligned
      <3> QED
        BY <3>1, Boundaries
    <2>4. k * w \in Nat /\ k + 1 \in Nat /\ k + 4 \in Nat
      OBVIOUS
    <2>5. dst' + at' = (k + 1) * w \/ dst' + at' = (k + 4) * w
      <3>1. PICK o \in Nat : o = at
        BY <1>1
      <3>2. k * w + w = (k + 1) * w /\ k * w + 4 * w = (k + 4) * w
        BY Boundaries
      <3>3. PICK m \in Nat : m = k * w
        BY <2>4
      <3>4. d + o + w = m + w /\ d + o + 4 * w = m + 4 * w
        BY <2>3, <3>1, <3>3
      <3> QED
        BY <2>1, <2>2, <3>1, <3>2, <3>3, <3>4
    <2>6. ((k + 1) * w) % w = 0 /\ ((k + 4) * w) % w = 0
      BY <2>4, Boundaries
    <2> QED
      BY <2>2, <2>5, <2>6
  <1>7. CASE UNCHANGED copyVars
    <2>1. UNCHANGED <<vector, request>> /\ phase = "loop" /\ at' = at
      BY <1>7 DEF copyVars
    <2> QED
      BY <1>2, <1>3, <1>4, <2>1 DEF InvAligned
  <1> QED
    BY <1>5, <1>6, <1>7
       DEF Next, Copying, Moving, StartCopy, CopyByte, CopyMiddle, EndLoop, CopyTail,
           StartMove, MoveForward, MoveBackward, EndMove, Goto

(* The stores of the loops of bc_core_copy, which need it, are aligned,    *)
(* wherever the destination lies.                                          *)
THEOREM Aligned == Spec => AlignedStores
  <1>1. Init => InvAligned
    BY DEF Init, InvAligned
  <1>2. TypeOK /\ InvAligned /\ [Next]_copyVars => InvAligned'
    BY AlignedKeeps
  <1>3. TypeOK /\ InvAligned /\ [Next]_copyVars
          => [phase = "loop" /\ at' # at => (dst + at) % Width = 0]_copyVars
    BY DEF InvAligned
  <1> QED
    BY <1>1, <1>2, <1>3, TypeCorrect, PTL DEF Spec, AlignedStores

-----------------------------------------------------------------------------
(* Filling and zeroing.                                                    *)

(* The width of the vectors is positive, and no more than the length.      *)
LEMMA FillWidths ==
  ASSUME FillTypeOK
  PROVE  /\ FillWidth \in Nat \ {0}
         /\ W <= fillLen => FillWidth <= fillLen
  BY FillAssumption DEF FillAssumption, FillTypeOK, FillWidth, Widest

(* Streaming is a truth value.                                             *)
LEMMA FillStreaming == FillStreams \in BOOLEAN
  BY Zenon DEF FillStreams

(* The distance to the next boundary is that of a vector at most.          *)
LEMMA FillAligns ==
  ASSUME FillTypeOK
  PROVE  FillAlignOffset \in 1..FillWidth
  <1> DEFINE w == FillWidth
  <1>1. w \in Nat /\ w > 0 /\ fillDst \in Nat
    BY FillWidths DEF FillTypeOK
  <1> HIDE DEF w
  <1>2. fillDst % w \in 0..(w - 1)
    BY <1>1
  <1>3. w - (fillDst % w) \in 1..w
    BY <1>1, <1>2
  <1> QED
    BY <1>3 DEF w, FillAlignOffset

(* From one to four vectors of w bytes, of which the last one ends with    *)
(* the region, cover it.                                                   *)
LEMMA FillShort ==
  ASSUME FillTypeOK, FillWidth <= fillLen, fillLen <= 4 * FillWidth
  PROVE  UNION ShortBlocks = 0..(fillLen - 1)
  <1> DEFINE w == FillWidth
             n == fillLen
  <1>1. w \in Nat /\ w > 0 /\ n \in Nat /\ w <= n /\ n <= 4 * w
    BY FillWidths DEF FillTypeOK
  <1> HIDE DEF w, n
  <1>2. \A x : x \in UNION ShortBlocks <=>
                 \/ x \in 0..(0 + w - 1)
                 \/ x \in (n - w)..(n - w + w - 1)
                 \/ n >= 2 * w /\ x \in w..(w + w - 1)
                 \/ n >= 3 * w /\ x \in (2 * w)..(2 * w + w - 1)
    BY Zenon DEF ShortBlocks, Block, w, n
  <1>3. ASSUME NEW x \in UNION ShortBlocks
        PROVE  x \in 0..(n - 1)
    BY <1>1, <1>2
  <1>4. ASSUME NEW x \in 0..(n - 1)
        PROVE  x \in UNION ShortBlocks
    <2>0. x \in Int /\ 0 <= x /\ x < n
      BY <1>1
    <2>1. CASE x < w
      BY <1>1, <1>2, <2>0, <2>1
    <2>2. CASE x >= n - w
      <3>1. x \in (n - w)..(n - w + w - 1)
        BY <1>1, <2>0, <2>2
      <3> QED
        BY <1>2, <3>1
    <2>3. CASE w <= x /\ x < n - w /\ x < 2 * w
      <3>1. n >= 2 * w /\ x \in w..(w + w - 1)
        BY <1>1, <2>0, <2>3
      <3> QED
        BY <1>2, <3>1
    <2>4. CASE 2 * w <= x /\ x < n - w
      <3>1. n >= 3 * w /\ x \in (2 * w)..(2 * w + w - 1)
        BY <1>1, <2>0, <2>4
      <3> QED
        BY <1>2, <3>1
    <2> QED
      BY <1>1, <2>0, <2>1, <2>2, <2>3, <2>4
  <1>5. UNION ShortBlocks = 0..(n - 1)
    BY <1>3, <1>4
  <1> QED
    BY <1>5 DEF n

(* A store of the aligned loops.                                           *)
LEMMA FillLoopKeeps ==
  ASSUME FillInv, NEW n \in Nat, n > 0, StoreLoop(n)
  PROVE  FillInv'
  <1>1. fillPhase = "loop" /\ fillPhase' = "loop" /\ fillAt + n <= fillLen /\ fillAt' = fillAt + n
        /\ stored' = stored \cup fillAt..(fillAt + n - 1) /\ UNCHANGED fillCall
    BY DEF StoreLoop, FillGoto, Block
  <1>2. fillAt \in Nat /\ fillLen \in Nat /\ stored \subseteq 0..(fillLen - 1) /\ 0..(fillAt - 1) \subseteq stored
    BY <1>1 DEF FillInv, FillTypeOK, InvStored, FilledExactly
  <1>3. fillAt' \in Nat /\ fillAt' <= fillLen /\ stored' \subseteq 0..(fillLen - 1)
    BY <1>1, <1>2
  <1>4. 0..(fillAt' - 1) \subseteq stored'
    <2>0. fillAt' - 1 = fillAt + n - 1
      BY <1>1, <1>2
    <2> SUFFICES ASSUME NEW x \in 0..(fillAt + n - 1) PROVE x \in stored'
      BY <2>0
    <2>1. x \in 0..(fillAt - 1) \/ x \in fillAt..(fillAt + n - 1)
      BY <1>2
    <2> QED
      BY <1>1, <1>2, <2>1
  <1>5. fillUnfenced' \in BOOLEAN
    BY Zenon, FillStreaming DEF StoreLoop, FillInv, FillTypeOK
  <1>6. FillWidth' = FillWidth
    BY <1>1 DEF fillCall, FillWidth, Widest
  <1>7. FillTypeOK'
    BY <1>1, <1>3, <1>5 DEF FillInv, FillTypeOK, fillCall
  <1>8. InvFillLength'
    BY <1>1, <1>6 DEF FillInv, InvFillLength, fillCall
  <1> QED
    BY <1>1, <1>3, <1>4, <1>7, <1>8 DEF FillInv, InvStored, FilledExactly, fillCall

(* Every step preserves the inductive invariant.                           *)
LEMMA FillKeeps ==
  ASSUME FillInv, [FillNext]_(fillVars)
  PROVE  FillInv'
  <1> DEFINE w == FillWidth
  <1>0. w \in Nat /\ w > 0 /\ fillLen \in Nat /\ fillAt \in Nat /\ (W <= fillLen => w <= fillLen)
    BY FillWidths DEF FillInv, FillTypeOK
  <1>1. CASE UNCHANGED fillVars
    BY <1>1 DEF fillVars, fillCall, FillInv, FillTypeOK, InvFillLength, InvStored, FilledExactly, FillWidth, Widest
  <1>2. CASE StartFill
    <2>1. UNCHANGED <<fillCall, fillAt, stored, fillUnfenced>> /\ fillPhase = "start" /\ FillWidth' = FillWidth
      BY <1>2 DEF StartFill, FillGoto, fillCall, FillWidth, Widest
    <2>2. stored = {} /\ ~fillUnfenced
      BY <2>1 DEF FillInv, InvFillLength
    <2>3. CASE fillLen = 0
      <3>1. fillPhase' = "done"
        BY <1>2, <2>3 DEF StartFill, FillGoto
      <3> QED
        BY <2>1, <2>2, <2>3, <3>1 DEF FillInv, FillTypeOK, InvFillLength, InvStored, FilledExactly, fillCall
    <2>4. CASE fillLen # 0
      <3>1. \/ fillPhase' = "bytes"
            \/ fillPhase' = "short" /\ W <= fillLen /\ fillLen <= 4 * FillWidth
            \/ fillPhase' = "head" /\ W <= fillLen /\ 4 * FillWidth < fillLen
        <4> HIDE DEF w
        <4>1. 4 * w \in Nat /\ W \in Nat
          BY <1>0, FillAssumption DEF FillAssumption
        <4> QED
          BY <1>0, <1>2, <2>4, <4>1 DEF StartFill, FillGoto, w
      <3>2. stored' \subseteq 0..(fillLen' - 1)
        BY <2>1, <2>2
      <3> QED
        BY <2>1, <2>2, <3>1, <3>2 DEF FillInv, FillTypeOK, InvFillLength, InvStored, FilledExactly, fillCall
    <2> QED
      BY <2>3, <2>4
  <1>3. CASE StoreBytes
    <2>1. stored' = 0..(fillLen - 1)
      BY <1>0, <1>3 DEF StoreBytes, Block
    <2>2. fillPhase = "bytes" /\ fillPhase' = "done" /\ UNCHANGED <<fillCall, fillAt, fillUnfenced>>
      BY <1>3 DEF StoreBytes, FillGoto
    <2> QED
      BY <2>1, <2>2 DEF FillInv, FillTypeOK, InvFillLength, InvStored, FilledExactly, fillCall
  <1>4. CASE StoreShort
    <2>1. fillPhase = "short" /\ fillPhase' = "done" /\ UNCHANGED <<fillCall, fillAt, fillUnfenced>>
      BY <1>4 DEF StoreShort, FillGoto
    <2>2. W <= fillLen /\ fillLen <= 4 * FillWidth
      BY <2>1 DEF FillInv, InvFillLength
    <2>3. stored' = 0..(fillLen - 1)
      BY <1>0, <1>4, <2>2, FillShort DEF StoreShort, FillInv
    <2> QED
      BY <2>1, <2>3 DEF FillInv, FillTypeOK, InvFillLength, InvStored, FilledExactly, fillCall
  <1>5. CASE StoreHead
    <2>1. fillPhase = "head" /\ fillPhase' = "loop" /\ UNCHANGED <<fillCall, fillUnfenced>>
          /\ fillAt' = FillAlignOffset /\ stored' = 0..(FillWidth - 1) /\ FillWidth' = FillWidth
      BY <1>0, <1>5 DEF StoreHead, FillGoto, Block, fillCall, FillWidth, Widest
    <2>2. FillAlignOffset \in 1..w
      BY FillAligns DEF FillInv
    <2>3. W <= fillLen /\ 4 * FillWidth < fillLen
      BY <2>1 DEF FillInv, InvFillLength
    <2> HIDE DEF w
    <2>4. fillAt' \in Nat /\ fillAt' <= fillLen /\ 0..(fillAt' - 1) \subseteq 0..(w - 1) /\ 0..(w - 1) \subseteq 0..(fillLen - 1)
      BY <1>0, <2>1, <2>2, <2>3
    <2>5. stored' = 0..(w - 1)
      BY <2>1 DEF w
    <2>6. fillAt' \in Nat /\ fillAt' <= fillLen' /\ 0..(fillAt' - 1) \subseteq stored' /\ stored' \subseteq 0..(fillLen' - 1)
      BY <2>1, <2>4, <2>5 DEF fillCall
    <2>7. FillTypeOK'
      BY <1>0, <2>1, <2>6 DEF FillInv, FillTypeOK, fillCall
    <2>8. InvFillLength'
      BY <2>1, <2>3 DEF FillInv, InvFillLength, fillCall
    <2> QED
      BY <2>1, <2>6, <2>7, <2>8 DEF FillInv, InvStored, FilledExactly
  <1>6. CASE StoreFour
    <2>1. 4 * FillWidth \in Nat /\ 4 * FillWidth > 0
      BY <1>0
    <2> QED
      BY <1>6, <2>1, FillLoopKeeps DEF StoreFour
  <1>7. CASE StoreOne
    BY <1>0, <1>7, FillLoopKeeps DEF StoreOne
  <1>8. CASE EndStores
    <2>1. fillPhase = "loop" /\ fillPhase' = "tail" /\ UNCHANGED <<fillCall, fillAt, stored>>
          /\ fillAt + FillWidth > fillLen /\ FillWidth' = FillWidth /\ fillUnfenced' = FALSE
      BY <1>8 DEF EndStores, FillGoto, fillCall, FillWidth, Widest
    <2>2. 0..(fillAt - 1) \subseteq stored
      BY <2>1 DEF FillInv, InvStored
    <2> HIDE DEF w
    <2>3. fillAt + w > fillLen
      BY <2>1 DEF w
    <2>4. 0..(fillLen - w - 1) \subseteq 0..(fillAt - 1)
      BY <1>0, <2>3
    <2>5. 0..(fillLen' - FillWidth' - 1) \subseteq stored'
      BY <2>1, <2>2, <2>4 DEF w, fillCall
    <2> QED
      BY <2>1, <2>5 DEF FillInv, FillTypeOK, InvFillLength, InvStored, FilledExactly, fillCall
  <1>9. CASE StoreTail
    <2>1. fillPhase = "tail" /\ fillPhase' = "done" /\ UNCHANGED <<fillCall, fillAt, fillUnfenced>>
          /\ stored' = stored \cup Block(fillLen - w, w)
      BY <1>9 DEF StoreTail, FillGoto
    <2>2. W <= fillLen /\ 0..(fillLen - w - 1) \subseteq stored /\ stored \subseteq 0..(fillLen - 1)
      BY <2>1 DEF FillInv, InvFillLength, InvStored, FilledExactly
    <2> HIDE DEF w
    <2>3. Block(fillLen - w, w) = (fillLen - w)..(fillLen - 1)
      BY <1>0 DEF Block
    <2>4. 0..(fillLen - 1) = 0..(fillLen - w - 1) \cup (fillLen - w)..(fillLen - 1)
      BY <1>0, <2>2
    <2>5. stored' = 0..(fillLen - 1)
      BY <2>1, <2>2, <2>3, <2>4
    <2> QED
      BY <2>1, <2>5 DEF FillInv, FillTypeOK, InvFillLength, InvStored, FilledExactly, fillCall
  <1> QED
    BY <1>1, <1>2, <1>3, <1>4, <1>5, <1>6, <1>7, <1>8, <1>9 DEF FillNext

(* The inductive invariant of the stores: the bytes below the offset of    *)
(* the loops are stored to, and less than a vector is missing after them.  *)
THEOREM FillInductive == FillSpec => []FillInv
  <1>1. FillInit => FillInv
    <2> SUFFICES ASSUME FillInit PROVE FillInv
      OBVIOUS
    <2>1. FillTypeOK
      BY FillAssumption DEF FillAssumption, FillInit, FillTypeOK
    <2>2. InvFillLength /\ InvStored /\ FilledExactly
      BY DEF FillInit, InvFillLength, InvStored, FilledExactly
    <2> QED
      BY <2>1, <2>2 DEF FillInv
  <1>2. FillInv /\ [FillNext]_(fillVars) => FillInv'
    BY FillKeeps
  <1> QED
    BY <1>1, <1>2, PTL DEF FillSpec

(* No store leaves the region, and a call that returns has stored to all   *)
(* of it.                                                                  *)
THEOREM Filled == FillSpec => []FilledExactly
  <1>1. FillInv => FilledExactly
    BY DEF FillInv
  <1> QED
    BY <1>1, FillInductive, PTL

(* A call that returns has fenced its non-temporal stores.                 *)
THEOREM FillFenced == FillSpec => []FillFencedOnReturn
  <1>1. FillInv => FillFencedOnReturn
    BY DEF FillInv, InvFillLength, FillFencedOnReturn
  <1> QED
    BY <1>1, FillInductive, PTL
=============================================================================
