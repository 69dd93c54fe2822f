----------------------------- MODULE MemoryFill -----------------------------
(***************************************************************************)
(* bc_core_fill and bc_core_zero, plain and with a cache policy: a region  *)
(* of memory is overwritten by vector stores of one value that overlap     *)
(* each other.  As they all store the same, the state is the set of        *)
(* offsets, from the destination, that have been stored to.                *)
(*                                                                         *)
(* The AVX2 kernels store vectors of W bytes (32), the AVX-512 ones        *)
(* vectors of 2 * W bytes, and of W bytes below that.                      *)
(***************************************************************************)
EXTENDS Integers, MemoryKernel

CONSTANTS
  Destinations,  \* the addresses regions start from
  Lengths        \* the lengths of the regions

FillPolicies == {"none", "default", "auto", "streaming", "cached"}

ASSUME FillAssumption ==
  /\ W \in Nat \ {0}
  /\ Destinations \subseteq Nat
  /\ Lengths \subseteq Nat
  /\ CacheThreshold \in Nat
  /\ AutoThreshold \in Nat

VARIABLES
  fillVector,    \* the width of the vectors of g_fill_impl or g_zero_impl
  fillDst,       \* the destination
  fillLen,       \* the length
  fillPolicy,    \* the policy; none is bc_core_fill or bc_core_zero
  fillPhase,     \* where the call is
  fillAt,        \* the offset of the next store
  stored,        \* the offsets that have been stored to
  fillUnfenced   \* a non-temporal store was made and no sfence since

fillCall == <<fillVector, fillDst, fillLen, fillPolicy>>
fillVars == <<fillCall, fillPhase, fillAt, stored, fillUnfenced>>

(* The constructor has picked a kernel; a caller has made a call.          *)
FillInit ==
  /\ fillVector \in {W, 2 * W}
  /\ fillDst \in Destinations
  /\ fillLen \in Lengths
  /\ fillPolicy \in FillPolicies
  /\ fillPhase = "start"
  /\ fillAt = 0
  /\ stored = {}
  /\ fillUnfenced = FALSE

(* The widest vector of the kernel, which is an AVX2 one if there is a     *)
(* policy, and the one it uses for this length.                            *)
Widest == IF fillPolicy = "none" THEN fillVector ELSE W
FillWidth  == IF fillLen <= Widest THEN W ELSE Widest

FillStreams ==
  \/ fillPolicy = "streaming"
  \/ fillPolicy = "auto" /\ fillLen >= AutoThreshold
  \/ fillPolicy \in {"none", "default"} /\ fillLen > CacheThreshold

(* n bytes are stored from an offset on.                                   *)
Block(from, n) == from..(from + n - 1)

FillGoto(where) == fillPhase' = where /\ UNCHANGED fillCall

-----------------------------------------------------------------------------
StartFill ==
  /\ fillPhase = "start"
  /\ FillGoto(IF fillLen = 0 THEN "done"
          ELSE IF fillLen < W THEN "bytes"
          ELSE IF fillLen <= 4 * FillWidth THEN "short" ELSE "head")
  /\ UNCHANGED <<fillAt, stored, fillUnfenced>>

StoreBytes ==
  /\ fillPhase = "bytes"
  /\ stored' = Block(0, fillLen)
  /\ FillGoto("done")
  /\ UNCHANGED <<fillAt, fillUnfenced>>

(* A fault: the third vector is stored only if four fit.                   *)
ShortBlocksFew ==
  {Block(0, FillWidth), Block(fillLen - FillWidth, FillWidth)}
    \cup (IF fillLen >= 2 * FillWidth THEN {Block(FillWidth, FillWidth)} ELSE {})
    \cup (IF fillLen >= 4 * FillWidth THEN {Block(2 * FillWidth, FillWidth)} ELSE {})

(* Up to four vectors: from the front as many as fit, but no more than     *)
(* three, and one at the end, which overlaps them.                         *)
ShortBlocks ==
  {Block(0, FillWidth), Block(fillLen - FillWidth, FillWidth)}
    \cup (IF fillLen >= 2 * FillWidth THEN {Block(FillWidth, FillWidth)} ELSE {})
    \cup (IF fillLen >= 3 * FillWidth THEN {Block(2 * FillWidth, FillWidth)} ELSE {})

StoreShort ==
  /\ fillPhase = "short"
  /\ stored' = UNION ShortBlocks
  /\ FillGoto("done")
  /\ UNCHANGED <<fillAt, fillUnfenced>>

(* The distance from the destination to the next vector boundary above it. *)
FillAlignOffset == FillWidth - (fillDst % FillWidth)

StoreHead ==
  /\ fillPhase = "head"
  /\ stored' = Block(0, FillWidth)
  /\ fillAt' = FillAlignOffset
  /\ FillGoto("loop")
  /\ UNCHANGED fillUnfenced

(* Aligned stores, streaming or not.                                       *)
StoreLoop(n) ==
  /\ fillPhase = "loop"
  /\ fillAt + n <= fillLen
  /\ stored' = stored \cup Block(fillAt, n)
  /\ fillAt' = fillAt + n
  /\ fillUnfenced' = (fillUnfenced \/ FillStreams)
  /\ FillGoto("loop")

StoreFour == StoreLoop(4 * FillWidth)
StoreOne  == fillAt + 4 * FillWidth > fillLen /\ StoreLoop(FillWidth)

(* A fault: only the loop of four vectors ends in a fence.                 *)
EndStoresUnfenced ==
  /\ fillPhase = "loop"
  /\ fillAt + FillWidth > fillLen
  /\ FillGoto("tail")
  /\ fillUnfenced' = (fillUnfenced /\ fillLen % (4 * FillWidth) # 0)
  /\ UNCHANGED <<fillAt, stored>>

(* The loops are over: the streaming ones end in a fence.                  *)
EndStores ==
  /\ fillPhase = "loop"
  /\ fillAt + FillWidth > fillLen
  /\ FillGoto("tail")
  /\ fillUnfenced' = FALSE
  /\ UNCHANGED <<fillAt, stored>>

StoreTail ==
  /\ fillPhase = "tail"
  /\ stored' = stored \cup Block(fillLen - FillWidth, FillWidth)
  /\ FillGoto("done")
  /\ UNCHANGED <<fillAt, fillUnfenced>>

FillNext ==
  \/ StartFill \/ StoreBytes \/ StoreShort
  \/ StoreHead \/ StoreFour \/ StoreOne \/ EndStores \/ StoreTail

FillSpec == FillInit /\ [][FillNext]_fillVars

-----------------------------------------------------------------------------
(* The types of the variables.                                             *)
FillTypeOK ==
  /\ fillVector \in {W, 2 * W}
  /\ fillDst \in Nat /\ fillLen \in Nat
  /\ fillPolicy \in FillPolicies
  /\ fillPhase \in {"start", "bytes", "short", "head", "loop", "tail", "done"}
  /\ fillAt \in Nat
  /\ stored \subseteq Int
  /\ fillUnfenced \in BOOLEAN

(* No store ever leaves the region, and when the call returns every byte   *)
(* of the region has been stored to: the vectors at the head and at the    *)
(* tail close the gaps that the aligned loops leave.                       *)
FilledExactly ==
  /\ stored \subseteq 0..(fillLen - 1)
  /\ fillPhase = "done" => stored = 0..(fillLen - 1)

(* When the call returns no non-temporal store is left unordered.          *)
FillFencedOnReturn == fillPhase = "done" => ~fillUnfenced

-----------------------------------------------------------------------------
(* The parts of the inductive invariant.                                   *)

(* What the phase says of the length.                                      *)
InvFillLength ==
  /\ fillPhase = "start" => stored = {}
  /\ fillPhase \in {"short", "head", "loop", "tail"} => W <= fillLen
  /\ fillPhase = "short" => fillLen <= 4 * FillWidth
  /\ fillPhase \in {"head", "loop", "tail"} => 4 * FillWidth < fillLen
  /\ fillUnfenced => fillPhase = "loop"

(* The bytes below the offset of the loops have been stored to, and when   *)
(* the loops are over less than a vector is missing.                       *)
InvStored ==
  /\ fillPhase = "loop" => fillAt <= fillLen /\ 0..(fillAt - 1) \subseteq stored
  /\ fillPhase = "tail" => 0..(fillLen - FillWidth - 1) \subseteq stored

FillInv == FillTypeOK /\ InvFillLength /\ InvStored /\ FilledExactly
=============================================================================
