------------------------------- MODULE Count --------------------------------
(***************************************************************************)
(* The functions of bc_core_count.c, any one of them at a time: each has   *)
(* variables of its own and leaves those of the others alone.              *)
(***************************************************************************)
EXTENDS CountByte, CountLines, CountWords

vars == <<function, text, pc, offset, count, byteVars, lineVars, wordVars>>

ByteIdle ==
  kernel = "avx2" /\ iterations = 0 /\ lane = <<>>

LineIdle ==
  pattern = <<>> /\ newlines = {} /\ candidates = {} /\ lineHasMatch = FALSE

WordIdle ==
  /\ unicode = FALSE /\ inWordState = FALSE /\ total = 0 /\ cut = FALSE
  /\ end = 0 /\ carry = FALSE /\ spill = {} /\ inWord = FALSE

Init ==
  \/ ByteInit /\ LineIdle /\ WordIdle
  \/ LineInit /\ ByteIdle /\ WordIdle
  \/ WordInit /\ ByteIdle /\ LineIdle

Next ==
  \/ function = "byte" /\ ByteNext /\ UNCHANGED <<lineVars, wordVars>>
  \/ function = "lines" /\ LineNext /\ UNCHANGED <<byteVars, wordVars>>
  \/ function = "words" /\ WordNext /\ UNCHANGED <<byteVars, lineVars>>

Spec == Init /\ [][Next]_vars

IInv == InvByte /\ InvLines /\ InvWords
=============================================================================
