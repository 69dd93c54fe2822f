---------------------------- MODULE Sha256Stream ----------------------------
(***************************************************************************)
(* SHA-256 over a stream: bc_core_sha256_init, _update and _finalize on a  *)
(* context, and bc_core_sha256 at once.  The compression function is not   *)
(* modelled: a hash state stands for the sequence of blocks compressed     *)
(* into it, and two digests are equal when their blocks are.               *)
(*                                                                         *)
(* The bytes of a message are numbered from 1, so that a block shows which *)
(* part of the message it holds.                                           *)
(***************************************************************************)
EXTENDS Naturals, Sequences

CONSTANTS
  B,           \* BC_CORE_SHA256_BLOCK_SIZE
  L,           \* the cells of the length field: 8 bytes
  CellBits,    \* the bits of a cell: 8
  Lengths,     \* the lengths callers hand to update and to the one-shot
  MaxMessage   \* bound on the length of a message

ASSUME ShaAssumption ==
  /\ B \in Nat /\ L \in Nat /\ L < B
  /\ CellBits \in Nat
  /\ Lengths \subseteq Nat
  /\ MaxMessage \in Nat

VARIABLES
  available,     \* g_sha256_available
  state,         \* ctx->state: the blocks compressed so far
  buffer,        \* ctx->buffer
  bufferLength,  \* ctx->buffer_length
  totalLength,   \* ctx->total_length
  message,       \* the bytes of the message since init (history)
  spent,         \* the context was finalized since init (history)
  pc,            \* where the running call is
  left,          \* len: what the running call has not consumed yet
  shot,          \* the hash state of the one-shot
  digest,        \* the digest last written: blocks and message length
  result         \* what the last call returned

context == <<state, buffer, bufferLength, totalLength>>
vars == <<available, context, message, spent, pc, left, shot, digest, result>>

Byte(k)     == <<"byte", k>>
Mark        == <<"mark", 0>>
Zero        == <<"zero", 0>>
Digit(n, j) == <<"length", ((8 * n) \div 2 ^ (CellBits * (L - j))) % 2 ^ CellBits>>

Cells == [1..B -> {"byte", "mark", "zero", "length"} \X Nat]

NoDigest(n) == [blocks |-> <<>>, length |-> n, valid |-> FALSE]

Init ==
  /\ available \in BOOLEAN
  /\ state = <<>>
  /\ buffer = [i \in 1..B |-> Zero]
  /\ bufferLength = 0
  /\ totalLength = 0
  /\ message = 0
  /\ spent = FALSE
  /\ pc = "idle"
  /\ left = 0
  /\ shot = <<>>
  /\ digest = NoDigest(0)
  /\ result = TRUE

-----------------------------------------------------------------------------
(* bc_core_sha256_pad_and_finalize: the remainder, a mark, zeros and the   *)
(* length, in one block or, when the length does not fit, in two.          *)
Marked(remainder, n) ==
  [i \in 1..B |-> IF i <= n THEN remainder[i] ELSE IF i = n + 1 THEN Mark ELSE Zero]

WithLength(block, total) ==
  [i \in 1..B |-> IF i > B - L THEN Digit(total, i - (B - L)) ELSE block[i]]

(* A fault: a remainder that leaves one byte too few for the length.       *)
PadTight(remainder, n, total) ==
  IF n > B - L
  THEN <<Marked(remainder, n), WithLength([i \in 1..B |-> Zero], total)>>
  ELSE <<WithLength(Marked(remainder, n), total)>>

Pad(remainder, n, total) ==
  IF n >= B - L
  THEN <<Marked(remainder, n), WithLength([i \in 1..B |-> Zero], total)>>
  ELSE <<WithLength(Marked(remainder, n), total)>>

(* The bytes of the message from the k-th on, as many as a block takes.    *)
MessageBlock(k) == [i \in 1..B |-> Byte(k + i - 1)]

(* The first byte that the running update has not consumed.                *)
NextByte == message - left + 1

(* The buffer after n bytes were stored behind the ones it holds.          *)
Stored(n) ==
  [i \in 1..B |->
     IF i > bufferLength /\ i <= bufferLength + n
     THEN Byte(NextByte + (i - bufferLength - 1))
     ELSE buffer[i]]

Return(value) == pc' = "idle" /\ result' = value

-----------------------------------------------------------------------------
ContextInit ==
  /\ pc = "idle"
  /\ state' = <<>>
  /\ bufferLength' = 0
  /\ totalLength' = 0
  /\ message' = 0
  /\ spent' = FALSE
  /\ digest' = NoDigest(0)
  /\ Return(TRUE)
  /\ UNCHANGED <<available, buffer, left, shot>>

(* An empty update succeeds whatever the processor.                        *)
UpdateNothing ==
  /\ pc = "idle"
  /\ 0 \in Lengths
  /\ Return(TRUE)
  /\ UNCHANGED <<available, context, message, spent, left, shot, digest>>

Unavailable ==
  /\ pc = "idle"
  /\ ~available
  /\ Return(FALSE)
  /\ UNCHANGED <<available, context, message, spent, left, shot, digest>>

StartUpdate(n) ==
  /\ pc = "idle"
  /\ available
  /\ n > 0
  /\ message + n <= MaxMessage
  /\ totalLength' = totalLength + n
  /\ message' = message + n
  /\ left' = n
  /\ pc' = IF bufferLength > 0 THEN "fill" ELSE "blocks"
  /\ digest' = NoDigest(0)
  /\ UNCHANGED <<available, state, buffer, bufferLength, spent, shot, result>>

Needed == B - bufferLength

(* Not enough to complete the block in the buffer.                         *)
FillPart ==
  /\ pc = "fill"
  /\ left < Needed
  /\ buffer' = Stored(left)
  /\ bufferLength' = bufferLength + left
  /\ left' = 0
  /\ Return(TRUE)
  /\ UNCHANGED <<available, state, totalLength, message, spent, shot, digest>>

FillBlock ==
  /\ pc = "fill"
  /\ left >= Needed
  /\ buffer' = Stored(Needed)
  /\ state' = Append(state, Stored(Needed))
  /\ bufferLength' = 0
  /\ left' = left - Needed
  /\ pc' = "blocks"
  /\ UNCHANGED <<available, totalLength, message, spent, shot, digest, result>>

(* Whole blocks are compressed where they lie.                             *)
Block ==
  /\ pc = "blocks"
  /\ left >= B
  /\ state' = Append(state, MessageBlock(NextByte))
  /\ left' = left - B
  /\ UNCHANGED <<available, buffer, bufferLength, totalLength, message, spent, pc,
                 shot, digest, result>>

(* What is left waits in the buffer.                                       *)
Rest ==
  /\ pc = "blocks"
  /\ left < B
  /\ buffer' = Stored(left)
  /\ bufferLength' = IF left > 0 THEN left ELSE bufferLength
  /\ left' = 0
  /\ Return(TRUE)
  /\ UNCHANGED <<available, state, totalLength, message, spent, shot, digest>>

(* The padding goes into the state of the context, which is of no further  *)
(* use, though nothing says so in it: a context that is used again yields  *)
(* the digest of no message.  MaxMessage bounds that.                      *)
Finalize ==
  /\ pc = "idle"
  /\ available
  /\ spent => Len(state) * B <= MaxMessage
  /\ state' = state \o Pad(buffer, bufferLength, totalLength)
  /\ spent' = TRUE
  /\ digest' = [blocks |-> state', length |-> message, valid |-> ~spent]
  /\ Return(TRUE)
  /\ UNCHANGED <<available, buffer, bufferLength, totalLength, message, left, shot>>

-----------------------------------------------------------------------------
(* bc_core_sha256 on n bytes: it has a hash state of its own.              *)
StartHash(n) ==
  /\ pc = "idle"
  /\ available
  /\ n <= MaxMessage
  /\ shot' = <<>>
  /\ left' = n
  /\ digest' = NoDigest(n)
  /\ pc' = "hash"
  /\ UNCHANGED <<available, context, message, spent, result>>

Offset == digest.length - left

HashBlock ==
  /\ pc = "hash"
  /\ left >= B
  /\ shot' = Append(shot, MessageBlock(Offset + 1))
  /\ left' = left - B
  /\ UNCHANGED <<available, context, message, spent, pc, digest, result>>

HashEnd ==
  /\ pc = "hash"
  /\ left < B
  /\ digest' = [digest EXCEPT
                  !.blocks = shot \o Pad(MessageBlock(Offset + 1), left, digest.length),
                  !.valid = TRUE]
  /\ left' = 0
  /\ shot' = <<>>
  /\ Return(TRUE)
  /\ UNCHANGED <<available, context, message, spent>>

-----------------------------------------------------------------------------
Working == FillPart \/ FillBlock \/ Block \/ Rest \/ HashBlock \/ HashEnd

Next ==
  \/ ContextInit \/ UpdateNothing \/ Unavailable
  \/ \E n \in Lengths : StartUpdate(n) \/ StartHash(n)
  \/ Finalize
  \/ Working

Spec == Init /\ [][Next]_vars

-----------------------------------------------------------------------------
(* The types of the variables.                                             *)
TypeOK ==
  /\ available \in BOOLEAN
  /\ state \in Seq(Cells)
  /\ buffer \in Cells
  /\ bufferLength \in Nat
  /\ totalLength \in Nat
  /\ message \in Nat
  /\ spent \in BOOLEAN
  /\ pc \in {"idle", "fill", "blocks", "hash"}
  /\ left \in Nat
  /\ shot \in Seq(Cells)
  /\ digest \in [blocks : Seq(Cells), length : Nat, valid : BOOLEAN]
  /\ result \in BOOLEAN

(* The padded message of FIPS 180-4: its n bytes, a mark, as few zeros as  *)
(* make a whole number of blocks, and its length in bits.                  *)
PaddedBlocks(n) == (n + 1 + L + (B - 1)) \div B

Padded(n) ==
  LET end == PaddedBlocks(n) * B
      Cell(p) == IF p <= n THEN Byte(p)
                 ELSE IF p = n + 1 THEN Mark
                 ELSE IF p > end - L THEN Digit(n, p - (end - L))
                 ELSE Zero
  IN [k \in 1..PaddedBlocks(n) |-> [i \in 1..B |-> Cell((k - 1) * B + i)]]

(* A digest is that of the message, however its bytes were cut into        *)
(* updates, and the same as that of the one-shot.                          *)
DigestIsOfMessage == digest.valid => digest.blocks = Padded(digest.length)

-----------------------------------------------------------------------------
(* The parts of the inductive invariant.                                   *)

(* The blocks are those of the message, from its first byte on.            *)
HoldsMessage(blocks) == \A k \in 1..Len(blocks) : blocks[k] = MessageBlock((k - 1) * B + 1)

(* A block is compressed as soon as it is complete, and an update consumes *)
(* no more than the message has.                                           *)
InvLengths ==
  /\ bufferLength < B
  /\ pc = "blocks" => bufferLength = 0
  /\ pc \in {"fill", "blocks"} => left <= message
  /\ pc \notin {"fill", "blocks", "hash"} => left = 0

(* Of a message not yet finalized, what was consumed lies in the state and *)
(* then in the buffer.  The context of one that was holds no message.      *)
InvContext ==
  ~spent =>
    /\ totalLength = message
    /\ HoldsMessage(state)
    /\ Len(state) * B + bufferLength = message - (IF pc = "hash" THEN 0 ELSE left)
    /\ \A i \in 1..bufferLength : buffer[i] = Byte(Len(state) * B + i)

InvShot ==
  pc = "hash" => HoldsMessage(shot) /\ Len(shot) * B + left = digest.length

IInv == TypeOK /\ InvLengths /\ InvContext /\ InvShot /\ DigestIsOfMessage
=============================================================================
