------------------------------- MODULE Reader -------------------------------
(***************************************************************************)
(* The buffered reader of bc_core_reader.c: read(2) fills a caller's       *)
(* buffer, read and read_exact copy out of it, read_line returns a view    *)
(* into it.  The kernel hands out any part of what is left of the stream,  *)
(* is interrupted, fails, or answers 0 at the end.                         *)
(*                                                                         *)
(* The bytes of the stream are numbered from 1, and the buffer holds       *)
(* numbers: whatever a caller is given shows where in the stream it came   *)
(* from.  All the reader asks of a byte is whether it is a newline.        *)
(*                                                                         *)
(* A refill moves what is left of the buffer to its front with             *)
(* bc_core_copy.  The two regions may overlap, so that call is not one     *)
(* step here: it is the run of MemoryCopy on this module's buffer.         *)
(***************************************************************************)
EXTENDS Naturals, Sequences

CONSTANTS
  Base,          \* the address of the buffer the caller provides
  Capacity,      \* its capacity
  W,             \* the bytes of a 256 bit vector
  Vectors,       \* the vector widths bc_core_copy may use
  Streams,       \* the contents of the descriptor: lengths and newlines
  Lengths,       \* the lengths callers ask for
  ReceiveSizes,  \* the sizes of the kernel's answers, when they fit
  MaxInterrupts  \* bound on the EINTR answers in a behaviour

ASSUME ReaderAssumption ==
  /\ Base \in Nat
  /\ Capacity \in Nat \ {0}
  /\ W \in Nat \ {0}
  /\ Vectors \subseteq {W, 2 * W}
  /\ \A s \in Streams : s.length \in Nat /\ s.newlines \subseteq 1..s.length
  /\ Lengths \subseteq Nat
  /\ ReceiveSizes \subseteq Nat \ {0}
  /\ MaxInterrupts \in Nat

VARIABLES
  stream,        \* what the descriptor holds
  received,      \* how much of it read(2) has handed out
  open,          \* reader->fd >= 0
  eofLatched,    \* reader->eof_latched
  errorLatched,  \* reader->error_latched
  capacity,      \* reader->capacity
  readPosition,  \* reader->read_position
  fillPosition,  \* reader->fill_position
  pc,            \* where the running call is
  call,          \* the current or the last API call
  remaining,     \* what read and read_exact still have to copy out
  result,        \* what the last call returned
  delivered,     \* the bytes callers were given, in order (history)
  interrupts,    \* the EINTR answers so far
  vector, request, phase, at, mem, unfenced  \* bc_core_copy on the buffer

positions  == <<readPosition, fillPosition>>
latches    == <<eofLatched, errorLatched>>
callVars   == <<call, remaining, result, delivered>>
copyVars   == <<vector, request, phase, at, mem, unfenced>>
kernelVars == <<stream, received, interrupts>>
vars == <<positions, latches, callVars, copyVars, kernelVars, open, capacity, pc>>

(* Nothing streams: a buffer of this size is far below the thresholds.     *)
Copy == INSTANCE MemoryCopy WITH
          Size <- Base + Capacity, Requests <- {},
          CacheThreshold <- Capacity, AutoThreshold <- Capacity

-----------------------------------------------------------------------------
(* The API calls.  start is the number of bytes delivered before.          *)
Call(op, want) == [op |-> op, want |-> want]

Calls ==
  {Call("read", n) : n \in Lengths} \cup {Call("exact", n) : n \in Lengths}
    \cup {Call("line", 0), Call("destroy", 0)}

CopyRequest(from, n) ==
  [op |-> "copy", policy |-> "default", dst |-> Base, src |-> Base + from, len |-> n]

(* bc_core_reader_init on a buffer whose contents are unknown: 0 is no     *)
(* byte of the stream.                                                     *)
Init ==
  /\ stream \in Streams
  /\ received = 0
  /\ open = TRUE
  /\ eofLatched = FALSE
  /\ errorLatched = FALSE
  /\ capacity = Capacity
  /\ readPosition = 0
  /\ fillPosition = 0
  /\ pc = "idle"
  /\ call = [op |-> "init", want |-> 0, start |-> 0]
  /\ remaining = 0
  /\ result = TRUE
  /\ delivered = <<>>
  /\ interrupts = 0
  /\ vector \in Vectors
  /\ request = CopyRequest(0, 0)
  /\ phase = "done"
  /\ at = 0
  /\ mem = [a \in 0..(Base + Capacity - 1) |-> 0]
  /\ unfenced = FALSE

Available == fillPosition - readPosition
Empty     == readPosition = fillPosition

(* The byte at a position of the buffer, and the first n that are unread.  *)
Byte(position) == mem[Base + position]

Buffered(n) == [i \in 1..n |-> Byte(readPosition + i - 1)]

(* They leave the buffer for the caller.                                   *)
Consume(n) ==
  /\ delivered' = delivered \o Buffered(n)
  /\ readPosition' = readPosition + n
  /\ UNCHANGED fillPosition

Return(value) == pc' = "idle" /\ result' = value

Reading == call.op \in {"read", "exact"}

-----------------------------------------------------------------------------
StartCall(c) ==
  /\ pc = "idle"
  /\ call' = [op |-> c.op, want |-> c.want, start |-> Len(delivered)]
  /\ remaining' = c.want
  /\ pc' = "call"
  /\ UNCHANGED <<positions, latches, result, delivered, copyVars, kernelVars,
                 open, capacity>>

(* The latch is looked at first by every call that reads.                  *)
Reject ==
  /\ pc = "call"
  /\ call.op # "destroy"
  /\ errorLatched
  /\ Return(FALSE)
  /\ UNCHANGED <<positions, latches, call, remaining, delivered, copyVars,
                 kernelVars, open, capacity>>

Destroy ==
  /\ pc = "call"
  /\ call.op = "destroy"
  /\ open' = FALSE
  /\ capacity' = 0
  /\ readPosition' = 0
  /\ fillPosition' = 0
  /\ Return(TRUE)
  /\ UNCHANGED <<latches, call, remaining, delivered, copyVars, kernelVars>>

(* read and read_exact of nothing do nothing.                              *)
NothingToRead ==
  /\ pc = "call"
  /\ Reading
  /\ ~errorLatched
  /\ remaining = 0
  /\ Return(TRUE)
  /\ UNCHANGED <<positions, latches, call, remaining, delivered, copyVars,
                 kernelVars, open, capacity>>

(* What is buffered is copied out, as much as is asked for.  read is       *)
(* content with any part; read_exact goes on until it has everything.      *)
Take ==
  /\ pc \in {"call", "refilled"}
  /\ Reading
  /\ ~errorLatched
  /\ remaining > 0
  /\ ~Empty
  /\ LET n == IF remaining < Available THEN remaining ELSE Available
     IN /\ Consume(n)
        /\ remaining' = remaining - n
        /\ IF call.op = "read" \/ n = remaining
           THEN Return(TRUE)
           ELSE pc' = "call" /\ UNCHANGED result
  /\ UNCHANGED <<latches, call, copyVars, kernelVars, open, capacity>>

(* A fault: nothing is taken for a reason to try again.                    *)
ReadEndRetrying ==
  /\ pc = "refilled"
  /\ Reading
  /\ Empty
  /\ IF call.op = "read" THEN Return(TRUE) ELSE pc' = "call" /\ UNCHANGED result
  /\ UNCHANGED <<positions, latches, call, remaining, delivered, copyVars,
                 kernelVars, open, capacity>>

(* The refill brought nothing: the end of the stream.                      *)
ReadEnd ==
  /\ pc = "refilled"
  /\ Reading
  /\ Empty
  /\ Return(call.op = "read")
  /\ UNCHANGED <<positions, latches, call, remaining, delivered, copyVars,
                 kernelVars, open, capacity>>

-----------------------------------------------------------------------------
(* bc_core_reader_read_line, from the top of its loop.                     *)
AtLine == pc = "call" /\ call.op = "line" /\ ~errorLatched

IsNewline(i) == Byte(readPosition + i) \in stream.newlines

(* bc_core_find_byte: the offset of the first newline that is buffered.    *)
FirstNewline(i) ==
  /\ IsNewline(i)
  /\ \A j \in 0..(i - 1) : ~IsNewline(j)

NoNewline == \A i \in 0..(Available - 1) : ~IsNewline(i)

(* The line ends before the newline; the newline is passed over.           *)
LineFound ==
  /\ AtLine
  /\ \E i \in 0..(Available - 1) : FirstNewline(i) /\ Consume(i + 1)
  /\ Return(TRUE)
  /\ UNCHANGED <<latches, call, remaining, copyVars, kernelVars, open, capacity>>

(* The last line need not end in a newline.                                *)
LastLine ==
  /\ AtLine
  /\ NoNewline
  /\ eofLatched
  /\ ~Empty
  /\ Consume(Available)
  /\ Return(TRUE)
  /\ UNCHANGED <<latches, call, remaining, copyVars, kernelVars, open, capacity>>

LineEnd ==
  /\ AtLine
  /\ eofLatched
  /\ Empty
  /\ Return(FALSE)
  /\ UNCHANGED <<positions, latches, call, remaining, delivered, copyVars,
                 kernelVars, open, capacity>>

(* Faults: the buffer counts as full with room at its front; it never      *)
(* counts as full.                                                         *)
BufferFullAtEnd == fillPosition = capacity
BufferNeverFull == fillPosition > capacity

BufferFull == readPosition = 0 /\ fillPosition = capacity

LineTooLong ==
  /\ AtLine
  /\ NoNewline
  /\ ~eofLatched
  /\ BufferFull
  /\ errorLatched' = TRUE
  /\ Return(FALSE)
  /\ UNCHANGED <<positions, eofLatched, call, remaining, delivered, copyVars,
                 kernelVars, open, capacity>>

-----------------------------------------------------------------------------
(* reader_refill.                                                          *)

NeedsRefill ==
  \/ pc = "call" /\ Reading /\ ~errorLatched /\ remaining > 0 /\ Empty
  \/ AtLine /\ NoNewline /\ ~eofLatched /\ ~BufferFull

(* What is left in the buffer goes to its front before it is filled up.    *)
Refill ==
  /\ NeedsRefill
  /\ IF Empty
     THEN /\ readPosition' = 0
          /\ fillPosition' = 0
          /\ pc' = "receive"
          /\ UNCHANGED <<request, phase, at>>
     ELSE /\ UNCHANGED positions
          /\ IF readPosition > 0
             THEN /\ pc' = "compact"
                  /\ request' = CopyRequest(readPosition, Available)
                  /\ phase' = "start"
                  /\ at' = 0
             ELSE pc' = "receive" /\ UNCHANGED <<request, phase, at>>
  /\ UNCHANGED <<latches, callVars, vector, mem, unfenced, kernelVars, open, capacity>>

CompactStep ==
  /\ pc = "compact"
  /\ Copy!Copying
  /\ UNCHANGED <<positions, latches, callVars, kernelVars, open, capacity, pc>>

(* A fault: the end of what is buffered stays where it was.                *)
CompactedHalf ==
  /\ pc = "compact"
  /\ phase = "done"
  /\ readPosition' = 0
  /\ pc' = "receive"
  /\ UNCHANGED <<fillPosition, latches, callVars, copyVars, kernelVars, open, capacity>>

Compacted ==
  /\ pc = "compact"
  /\ phase = "done"
  /\ readPosition' = 0
  /\ fillPosition' = Available
  /\ pc' = "receive"
  /\ UNCHANGED <<latches, callVars, copyVars, kernelVars, open, capacity>>

Refilled == pc' = IF Reading THEN "refilled" ELSE "call"

(* After the end of the stream nothing more is asked of the kernel.        *)
AlreadyEnded ==
  /\ pc = "receive"
  /\ eofLatched
  /\ Refilled
  /\ UNCHANGED <<positions, latches, callVars, copyVars, kernelVars, open, capacity>>

Room == capacity - fillPosition
Asks == pc = "receive" /\ ~eofLatched

Receive(n) ==
  /\ Asks
  /\ open
  /\ n <= Room
  /\ received + n <= stream.length
  /\ mem' = [a \in DOMAIN mem |->
               IF a >= Base + fillPosition /\ a < Base + fillPosition + n
               THEN received + 1 + (a - (Base + fillPosition))
               ELSE mem[a]]
  /\ received' = received + n
  /\ fillPosition' = fillPosition + n
  /\ Refilled
  /\ UNCHANGED <<readPosition, latches, callVars, vector, request, phase, at,
                 unfenced, stream, interrupts, open, capacity>>

(* read(2) answers 0 at the end of the stream, and when asked for 0 bytes. *)
ReceiveNothing ==
  /\ Asks
  /\ open
  /\ received = stream.length \/ Room = 0
  /\ eofLatched' = TRUE
  /\ Refilled
  /\ UNCHANGED <<positions, errorLatched, callVars, copyVars, kernelVars, open,
                 capacity>>

ReceiveInterrupted ==
  /\ Asks
  /\ open
  /\ interrupts < MaxInterrupts
  /\ interrupts' = interrupts + 1
  /\ UNCHANGED <<positions, latches, callVars, copyVars, stream, received, open,
                 capacity, pc>>

(* Any other error; the only answer a closed descriptor gives.             *)
ReceiveFailed ==
  /\ Asks
  /\ errorLatched' = TRUE
  /\ Return(FALSE)
  /\ UNCHANGED <<positions, eofLatched, call, remaining, delivered, copyVars,
                 kernelVars, open, capacity>>

-----------------------------------------------------------------------------
Running ==
  \/ Reject \/ Destroy
  \/ NothingToRead \/ Take \/ ReadEnd
  \/ LineFound \/ LastLine \/ LineEnd \/ LineTooLong
  \/ Refill \/ CompactStep \/ Compacted \/ AlreadyEnded
  \/ \E n \in ReceiveSizes : Receive(n)
  \/ ReceiveNothing \/ ReceiveFailed

Next ==
  \/ \E c \in Calls : StartCall(c)
  \/ Running
  \/ ReceiveInterrupted

Spec == Init /\ [][Next]_vars

(* A running call is scheduled, and read(2) answers in the end with        *)
(* something else than EINTR.  Nobody is obliged to make calls.            *)
FairSpec == Spec /\ WF_vars(Running)

-----------------------------------------------------------------------------
(* The types of the variables.                                             *)
TypeOK ==
  /\ stream \in Streams
  /\ received \in 0..stream.length
  /\ open \in BOOLEAN
  /\ eofLatched \in BOOLEAN
  /\ errorLatched \in BOOLEAN
  /\ capacity \in {0, Capacity}
  /\ readPosition \in Nat
  /\ fillPosition \in Nat
  /\ pc \in {"idle", "call", "compact", "receive", "refilled"}
  /\ call \in [op : {"init", "read", "exact", "line", "destroy"}, want : Nat, start : Nat]
  /\ remaining \in Nat
  /\ result \in BOOLEAN
  /\ delivered \in Seq(Nat)
  /\ interrupts \in Nat
  /\ mem \in [0..(Base + Capacity - 1) -> Nat]

(* What callers were given, by whichever calls and however the kernel cut  *)
(* it, is the stream from its start: no byte is skipped, repeated, out of  *)
(* order, or replaced by another when the buffer is compacted.             *)
DeliveredInOrder == \A i \in DOMAIN delivered : delivered[i] = i

(* Until the reader is destroyed the buffer holds exactly what the kernel  *)
(* has handed out and no caller was given yet, at positions inside the     *)
(* caller's buffer.                                                        *)
BufferHoldsTheRest ==
  open /\ pc # "compact" =>
    /\ readPosition <= fillPosition
    /\ fillPosition <= capacity
    /\ Len(delivered) + Available = received
    /\ \A i \in 1..Available : Byte(readPosition + i - 1) = Len(delivered) + i

Input == INSTANCE InputStream WITH
           given <- delivered, pending <- pc # "idle", broken <- errorLatched,
           closed <- ~open, ended <- open /\ eofLatched /\ Empty

(* A reader implements the stream: whatever is buffered, compacted and     *)
(* refilled in between, every call gives out the next bytes, an exact read *)
(* everything or the rest, a line up to the first newline; and neither a   *)
(* full buffer nor an interruption is mistaken for the end of the stream,  *)
(* which is_eof announces only when all of it was given out.               *)
ImplementsInput == Input!Spec

(* read_line gives up only on a line that cannot be in the buffer together *)
(* with its newline.                                                       *)
OnlyLongLinesRefused ==
  [][AtLine /\ open /\ errorLatched' =>
       \A i \in 1..Capacity : Len(delivered) + i \notin stream.newlines]_vars

(* Every API call returns.                                                 *)
CallsReturn == pc # "idle" ~> pc = "idle"

-----------------------------------------------------------------------------
(* A compaction that bc_core_copy bears: what is left is shorter than a    *)
(* vector, or moves by a vector or more, or does not overlap its new       *)
(* place.  Any compaction of a buffer no larger than a vector is one.      *)
CompactsSafely ==
  pc = "compact" =>
    Available < W \/ Copy!Width <= readPosition \/ Available <= readPosition

(* The parts of the inductive invariant.                                   *)
InvTypes ==
  /\ TypeOK
  /\ vector \in Vectors
  /\ phase \in {"start", "bytes", "head", "middle", "loop", "tail", "done"}
  /\ at \in Nat

(* What the running call still has to do accounts for what it was asked.   *)
InvCall ==
  /\ pc # "idle" => call.op # "init"
  /\ pc = "compact" => call.op = "line"
  /\ pc = "receive" => call.op = "line" \/ (Reading /\ remaining > 0)
  /\ pc = "refilled" => Reading /\ remaining > 0
  /\ pc \in {"compact", "receive", "refilled"} => ~errorLatched
  /\ pc # "idle" =>
       /\ call.op \in {"read", "line", "destroy"} => call.start = Len(delivered)
       /\ call.op = "read" => remaining = call.want
       /\ call.op = "exact" =>
            /\ call.start <= Len(delivered)
            /\ call.start + call.want = Len(delivered) + remaining

(* Where the bytes are that were received.                                 *)
InvBuffer ==
  /\ delivered = [i \in 1..Len(delivered) |-> i]
  /\ Len(delivered) <= received
  /\ readPosition <= fillPosition
  /\ fillPosition <= capacity
  /\ capacity = IF open THEN Capacity ELSE 0
  /\ open => Len(delivered) + Available = received
  /\ pc = "receive" /\ open => fillPosition < capacity

(* The end is latched when the stream has ended, and not before: the       *)
(* kernel is never asked for 0 bytes.                                      *)
InvEnd ==
  /\ open /\ eofLatched => received = stream.length
  /\ open /\ pc = "refilled" /\ Empty => eofLatched

(* The first e of the bytes that are left are in their new place, and      *)
(* those above that are still in their old one.                            *)
Moved(e) ==
  \A i \in 0..(Available - 1) :
    /\ i < e => Byte(i) = Len(delivered) + i + 1
    /\ e <= readPosition + i => Byte(readPosition + i) = Len(delivered) + i + 1

(* During a compaction, as in MemoryCopy.                                  *)
InvCompaction ==
  pc = "compact" =>
    /\ open /\ ~eofLatched /\ 0 < readPosition /\ ~Empty
    /\ request = CopyRequest(readPosition, Available)
    /\ phase \in {"start", "head"} => Moved(0)
    /\ phase = "start" => at = 0
    /\ phase = "bytes" => at < Available
    /\ phase \in {"bytes", "middle"} => Moved(at)
    /\ phase \in {"head", "middle", "loop", "tail"} => W <= Available
    /\ phase = "middle" =>
         at = Copy!Width /\ 2 * Copy!Width < Available /\ Available <= 4 * Copy!Width
    /\ phase = "loop" =>
         \E e \in 0..Available : at <= e /\ e <= at + Copy!Width /\ Moved(e)
    /\ phase = "tail" =>
         \E e \in 0..Available : Available <= e + Copy!Width /\ Moved(e)
    /\ phase = "done" => Moved(Available)

IInv ==
  /\ InvTypes
  /\ InvCall
  /\ InvBuffer
  /\ InvEnd
  /\ InvCompaction
  /\ BufferHoldsTheRest
=============================================================================
