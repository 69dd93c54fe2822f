----------------------------- MODULE MemoryCopy -----------------------------
(***************************************************************************)
(* bc_core_copy, bc_core_copy_with_policy and bc_core_move: a region of    *)
(* memory copied to another by vector loads and stores that overlap each   *)
(* other at the head and at the tail of the region.                        *)
(*                                                                         *)
(* Memory is a function from addresses to the bytes they hold, and a byte  *)
(* is named by the address it was loaded from: mem[a] = a until something  *)
(* is stored at a.  A step is one group of loads followed by the stores of *)
(* what was loaded, which is as much as the code keeps in registers.       *)
(*                                                                         *)
(* The AVX2 kernels work with vectors of W bytes (32), the AVX-512 one     *)
(* with vectors of 2 * W bytes, and of W bytes below that.                 *)
(***************************************************************************)
EXTENDS Naturals, MemoryKernel

CONSTANTS
  Size,      \* the number of addresses
  Vectors,   \* the vector widths the dispatcher may pick
  Requests   \* the calls made

Addresses == 0..(Size - 1)
Policies  == {"default", "auto", "streaming", "cached"}

(* A call: copy is bc_core_copy, policy is bc_core_copy_with_policy, move  *)
(* is bc_core_move.                                                        *)
Request == [op : {"copy", "policy", "move"}, policy : Policies,
            dst : Nat, src : Nat, len : Nat]

ASSUME CopyAssumption ==
  /\ Size \in Nat
  /\ W \in Nat \ {0}
  /\ Vectors \subseteq {W, 2 * W}
  /\ Requests \subseteq Request
  /\ \A r \in Requests : r.dst + r.len <= Size /\ r.src + r.len <= Size
  /\ CacheThreshold \in Nat
  /\ AutoThreshold \in Nat

VARIABLES
  vector,    \* the width of the vectors of g_copy_impl
  request,   \* the arguments of the call
  phase,     \* where the call is
  at,        \* the offset the next load starts from
  mem,       \* what every address holds
  unfenced   \* a non-temporal store was made and no sfence since

copyVars == <<vector, request, phase, at, mem, unfenced>>

dst == request.dst
src == request.src
len == request.len

-----------------------------------------------------------------------------
(* The constructor has picked a kernel; a caller has made a call.          *)
Init ==
  /\ vector \in Vectors
  /\ request \in Requests
  /\ phase = "start"
  /\ at = 0
  /\ mem = [a \in Addresses |-> a]
  /\ unfenced = FALSE

Disjoint == dst + len <= src \/ src + len <= dst

(* The widest vector of the running kernel, and the one it uses for this   *)
(* length: the AVX-512 kernel copies up to 2 * W bytes by two of W.        *)
Vector == IF request.op = "policy" THEN W ELSE vector
Width  == IF len <= Vector THEN W ELSE Vector

Streaming ==
  \/ request.policy = "streaming"
  \/ request.policy = "auto" /\ len >= AutoThreshold
  \/ request.policy = "default" /\ len > CacheThreshold

(* The bytes [from, from + n) of the source are loaded, then stored.       *)
CopyBlock(from, n) ==
  mem' = [a \in Addresses |->
            IF a >= dst + from /\ a < dst + from + n
            THEN mem[src + (a - dst)]
            ELSE mem[a]]

Goto(where) == phase' = where /\ UNCHANGED <<vector, request>>

-----------------------------------------------------------------------------
(* bc_core_copy_avx2, bc_core_copy_avx512 and the kernel with a policy.    *)

(* What bc_core_copy does on entry; bc_core_move calls it too when the     *)
(* regions do not overlap.                                                 *)
StartCopy ==
  /\ phase = "start"
  /\ request.op = "move" => Disjoint
  /\ Goto(IF len = 0 THEN "done" ELSE IF len < W THEN "bytes" ELSE "head")
  /\ UNCHANGED <<at, mem, unfenced>>

CopyByte ==
  /\ phase = "bytes"
  /\ at < len
  /\ CopyBlock(at, 1)
  /\ at' = at + 1
  /\ Goto(IF at + 1 = len THEN "done" ELSE "bytes")
  /\ UNCHANGED unfenced

(* A fault: no boundary at all.                                            *)
AlignOffsetNone == Width

(* The distance from the destination to the next vector boundary above it. *)
AlignOffset == Width - (dst % Width)

CopyHead ==
  /\ phase = "head"
  /\ CopyBlock(0, Width)
  /\ IF len <= 4 * Width
     THEN /\ at' = Width
          /\ Goto(IF len > 2 * Width THEN "middle" ELSE "tail")
     ELSE /\ at' = AlignOffset
          /\ Goto("loop")
  /\ UNCHANGED unfenced

(* A fault: one vector between head and tail, whatever the length.         *)
CopyMiddleOne ==
  /\ phase = "middle"
  /\ CopyBlock(at, Width)
  /\ Goto("tail")
  /\ UNCHANGED <<at, unfenced>>

CopyMiddle ==
  /\ phase = "middle"
  /\ CopyBlock(at, IF len > 3 * Width THEN 2 * Width ELSE Width)
  /\ Goto("tail")
  /\ UNCHANGED <<at, unfenced>>

CopyLoop(n) ==
  /\ phase = "loop"
  /\ at + n <= len
  /\ CopyBlock(at, n)
  /\ at' = at + n
  /\ unfenced' = (unfenced \/ Streaming)
  /\ Goto("loop")

CopyFour == CopyLoop(4 * Width)
CopyOne  == at + 4 * Width > len /\ CopyLoop(Width)

(* A fault: the fence is missing.                                          *)
EndLoopUnfenced ==
  /\ phase = "loop"
  /\ at + Width > len
  /\ Goto("tail")
  /\ UNCHANGED <<at, mem, unfenced>>

(* The loops are over: the streaming ones end in a fence.                  *)
EndLoop ==
  /\ phase = "loop"
  /\ at + Width > len
  /\ Goto("tail")
  /\ unfenced' = FALSE
  /\ UNCHANGED <<at, mem>>

(* A fault: the tail starts where the loops ended.                         *)
CopyTailThere ==
  /\ phase = "tail"
  /\ CopyBlock(at, Width)
  /\ Goto("done")
  /\ UNCHANGED <<at, unfenced>>

CopyTail ==
  /\ phase = "tail"
  /\ CopyBlock(len - Width, Width)
  /\ Goto("done")
  /\ UNCHANGED <<at, unfenced>>

-----------------------------------------------------------------------------
(* bc_core_move_avx2 on regions that overlap.                              *)

StartMove ==
  /\ phase = "start"
  /\ request.op = "move"
  /\ ~Disjoint
  /\ IF dst < src
     THEN Goto("forward") /\ at' = 0
     ELSE Goto("backward") /\ at' = len
  /\ UNCHANGED <<mem, unfenced>>

(* Bytes up to a vector boundary of the destination, vectors, and bytes.   *)
ForwardHead == (W - (dst % W)) % W

ForwardByte == at < ForwardHead \/ at + W > len

MoveForward ==
  /\ phase = "forward"
  /\ at < len
  /\ LET n == IF ForwardByte THEN 1 ELSE W
     IN CopyBlock(at, n) /\ at' = at + n
  /\ Goto("forward")
  /\ UNCHANGED unfenced

(* Downwards: the bytes that do not fill a vector, then vectors.           *)
BackwardByte == at > len - (len % W)

MoveBackward ==
  /\ phase = "backward"
  /\ at > 0
  /\ LET n == IF BackwardByte THEN 1 ELSE W
     IN at >= n /\ CopyBlock(at - n, n) /\ at' = at - n
  /\ Goto("backward")
  /\ UNCHANGED unfenced

EndMove ==
  /\ \/ phase = "forward" /\ at = len
     \/ phase = "backward" /\ ~BackwardByte /\ at < W
  /\ Goto("done")
  /\ UNCHANGED <<at, mem, unfenced>>

-----------------------------------------------------------------------------
Copying ==
  \/ StartCopy \/ CopyByte \/ CopyHead \/ CopyMiddle
  \/ CopyFour \/ CopyOne \/ EndLoop \/ CopyTail

Moving == StartMove \/ MoveForward \/ MoveBackward \/ EndMove

Next == Copying \/ Moving

Spec == Init /\ [][Next]_copyVars

-----------------------------------------------------------------------------
(* The types of the variables.                                             *)
TypeOK ==
  /\ vector \in Vectors
  /\ request \in Requests
  /\ phase \in {"start", "bytes", "head", "middle", "loop", "tail",
                "forward", "backward", "done"}
  /\ at \in Nat
  /\ mem \in [Addresses -> Addresses]
  /\ unfenced \in BOOLEAN

(* The calls whose overlap the kernels bear: any for a move; for a copy    *)
(* none, or a source that lies a vector or more above the destination.     *)
Safe == request.op = "move" \/ Disjoint \/ dst + Vector <= src

(* The memory in which the bytes [from, to) have been copied.              *)
Copied(from, to) ==
  [a \in Addresses |->
     IF a >= dst + from /\ a < dst + to THEN src + (a - dst) ELSE a]

(* When the call returns the destination holds what the source held when   *)
(* the call was made, and every other address what it held then.           *)
CopiedExactly == phase = "done" /\ Safe => mem = Copied(0, len)

(* At no moment, whatever overlaps, is a byte outside the destination      *)
(* disturbed: the head and tail vectors that overlap the loops never       *)
(* reach past the region.                                                  *)
NothingOutside ==
  \A a \in Addresses : a < dst \/ a >= dst + len => mem[a] = a

(* The stores of the loops require an aligned destination.                 *)
AlignedStores ==
  [][phase = "loop" /\ at' # at => (dst + at) % Width = 0]_copyVars

(* When the call returns no non-temporal store is left unordered: a caller *)
(* may publish the destination to another thread with a release store.     *)
FencedOnReturn == phase = "done" => ~unfenced

-----------------------------------------------------------------------------
(* The parts of the inductive invariant.                                   *)

(* Every phase knows how long the call is, so that no block it copies      *)
(* reaches past the region.                                                *)
InvLength ==
  /\ phase = "start" => at = 0
  /\ phase = "bytes" => at < len
  /\ phase \in {"head", "middle", "loop", "tail"} => W <= len
  /\ phase = "middle" => at = Width /\ 2 * Width < len /\ len <= 4 * Width
  /\ phase \in {"forward", "backward"} => at <= len
  /\ unfenced => phase = "loop"

(* Only a move copies what overlaps, and in the direction that suits it.   *)
InvOverlap ==
  /\ phase \in {"bytes", "head", "middle", "loop", "tail"} /\ request.op = "move" =>
       Disjoint
  /\ phase = "forward" => dst < src
  /\ phase = "backward" => src <= dst
  /\ phase = "backward" /\ ~BackwardByte => \E k \in 0..len : at = k * W

(* What has been copied so far.  The vector at the head reaches past the   *)
(* offset the aligned loops start from, by at most its width; and the last *)
(* block the loops copy lies less than a width before the end.             *)
InvCopied ==
  Safe =>
    /\ phase \in {"start", "head"} => mem = Copied(0, 0)
    /\ phase \in {"bytes", "middle", "forward"} => mem = Copied(0, at)
    /\ phase = "loop" =>
         \E e \in 0..len : at <= e /\ e <= at + Width /\ mem = Copied(0, e)
    /\ phase = "tail" =>
         \E e \in 0..len : len <= e + Width /\ mem = Copied(0, e)
    /\ phase = "backward" => mem = Copied(at, len)

(* The loops stay on the boundaries of vectors that the head ends at.      *)
InvAligned == phase = "loop" => (dst + at) % Width = 0

IInv ==
  /\ TypeOK
  /\ InvLength
  /\ InvOverlap
  /\ InvCopied
  /\ CopiedExactly
  /\ NothingOutside
=============================================================================
