------------------------------- MODULE Writer -------------------------------
(***************************************************************************)
(* The buffered writer of bc_core_writer.c: a caller's buffer in front of  *)
(* a file descriptor, or a buffer alone (fd = -1), with one sticky error   *)
(* flag.  The kernel answers every write(2) as it likes: it takes any      *)
(* non-empty part of the bytes, is interrupted, or refuses.                *)
(*                                                                         *)
(* Bytes are identified by the order in which callers hand them over: the  *)
(* k-th byte ever issued is the number k.  The writer never looks at a     *)
(* byte, so a byte that is lost, repeated or overtaken shows as a number   *)
(* out of place.                                                           *)
(*                                                                         *)
(* An API call is a sequence of primitives (bytes, char, latch, flush,     *)
(* destroy) run one after the other until one fails.                       *)
(***************************************************************************)
EXTENDS Naturals, Sequences

CONSTANTS
  Modes,         \* a subset of {"fd", "memory"}: the two kinds of writer
  Capacities,    \* the buffer capacities a caller may choose
  Lengths,       \* the lengths a caller, or a formatter, may hand over
  Widths,        \* the minimum widths of the padded emitters
  SizeModulus,   \* 2^w for the w bits of size_t
  MaxIssued,     \* bound on the bytes issued in a behaviour
  MaxInterrupts  \* bound on the EINTR answers in a behaviour

ASSUME WriterAssumption ==
  /\ Modes \subseteq {"fd", "memory"}
  /\ Capacities \subseteq Nat
  /\ Lengths \subseteq Nat
  /\ Widths \subseteq Nat
  /\ SizeModulus \in Nat \ {0}
  /\ \A c \in Capacities : c < SizeModulus
  /\ MaxIssued \in Nat
  /\ MaxInterrupts \in Nat

VARIABLES
  mode,          \* how the writer was initialised (history)
  fd,            \* writer->fd >= 0
  errorLatched,  \* writer->error_latched
  capacity,      \* writer->capacity
  buffer,        \* writer->buffer[0 .. position - 1]
  issued,        \* the number of bytes callers have handed over (history)
  output,        \* what the descriptor has received
  pc,            \* "idle", "run", or the raw_write_all that is running
  call,          \* the current or the last API call
  result,        \* what the last API call returned
  todo,          \* the primitives the current call still has to run
  data,          \* the bytes of the primitive that is running
  raw,           \* what raw_write_all still has to write
  interrupts     \* the EINTR answers so far

writerVars == <<mode, fd, errorLatched, capacity, buffer>>
callVars   == <<pc, call, result, todo, data, raw>>
vars == <<writerVars, callVars, issued, output, interrupts>>

-----------------------------------------------------------------------------
(* Primitives and the programs of the API calls.                           *)

Kinds == {"bytes", "char", "latch", "flush", "destroy"}
Primitive == [kind : Kinds, len : Nat]

Bytes(n) == [kind |-> "bytes", len |-> n]
Char     == [kind |-> "char", len |-> 1]
Latch    == [kind |-> "latch", len |-> 0]

(* writer_write_pad_repeat: n calls of write_char.                         *)
Pad(n) == [i \in 1..n |-> Char]

PadCountIgnoringLength(length, width) == IF length < width THEN width ELSE 0

PadCount(length, width) == IF length < width THEN width - length ELSE 0

(* An unsigned field, and every signed one but the next: padding, digits.  *)
PaddedField(length, width) == Pad(PadCount(length, width)) \o <<Bytes(length)>>

(* A negative number padded with '0': sign, zeros, the other digits.       *)
ZeroPaddedNegative(length, width) ==
  IF length >= width
  THEN <<Bytes(length)>>
  ELSE <<Char>> \o Pad(PadCount(length, width)) \o <<Bytes(length - 1)>>

(* Every API call: its name, its program, and the bytes a caller may       *)
(* expect it to emit.                                                      *)
Call(op, program, field) == [op |-> op, program |-> program, field |-> field]

Ops == {"init", "write_bytes", "write_char", "write_padded", "write_signed_padded",
        "write_invalid", "flush", "destroy"}

FieldOf(length, width) == IF length < width THEN width ELSE length

Calls ==
  {Call("write_bytes", <<Bytes(n)>>, n) : n \in Lengths}
    \cup {Call("write_char", <<Char>>, 1)}
    \cup {Call("write_padded", PaddedField(n, w), FieldOf(n, w)) :
            n \in Lengths \ {0}, w \in Widths}
    \cup {Call("write_signed_padded", ZeroPaddedNegative(n, w), FieldOf(n, w)) :
            n \in Lengths \ {0, 1}, w \in Widths}
    \cup {Call("write_invalid", <<Latch>>, 0),
          Call("flush", <<[kind |-> "flush", len |-> 0]>>, 0),
          Call("destroy", <<[kind |-> "destroy", len |-> 0]>>, 0)}
-----------------------------------------------------------------------------
(* bc_core_writer_init and its variants: the caller picks the descriptor   *)
(* and the buffer.  A writer with a descriptor needs room for one byte:    *)
(* write_char stores into the buffer it has just flushed.                  *)
Init ==
  /\ mode \in Modes
  /\ fd = (mode = "fd")
  /\ errorLatched = FALSE
  /\ capacity \in Capacities
  /\ fd => capacity > 0
  /\ buffer = <<>>
  /\ issued = 0
  /\ output = <<>>
  /\ pc = "idle"
  /\ call = [op |-> "init", field |-> 0, start |-> 0]
  /\ result = TRUE
  /\ todo = <<>>
  /\ data = <<>>
  /\ raw = <<>>
  /\ interrupts = 0

(* size_t capacity - position: a position beyond the capacity would wrap.  *)
Remaining == (SizeModulus + capacity - Len(buffer)) % SizeModulus

(* The next n bytes of the callers, in order.                              *)
Fresh(n) == [i \in 1..n |-> issued + i]

Runs(kind) == pc = "run" /\ todo # <<>> /\ Head(todo).kind = kind
Length     == Head(todo).len

(* The running primitive returned true; the call goes on with the next.    *)
Succeed ==
  /\ todo' = Tail(todo)
  /\ pc' = "run"
  /\ data' = <<>>
  /\ raw' = <<>>
  /\ UNCHANGED <<call, result>>

(* The running primitive returned false: so does the call, at once.        *)
Fail ==
  /\ errorLatched' = TRUE
  /\ result' = FALSE
  /\ pc' = "idle"
  /\ todo' = <<>>
  /\ data' = <<>>
  /\ raw' = <<>>
  /\ UNCHANGED call

(* What destroy does to the writer whatever its flush returned.            *)
Detach ==
  /\ fd' = FALSE
  /\ buffer' = <<>>
  /\ capacity' = 0

(* Control enters raw_write_all with the given bytes.                      *)
EnterRaw(where, bytes) ==
  /\ pc' = where
  /\ raw' = bytes
  /\ UNCHANGED <<call, result, todo>>

-----------------------------------------------------------------------------
(* A caller enters an API function; MaxIssued bounds the behaviour.        *)
StartCall(c) ==
  /\ pc = "idle"
  /\ issued + c.field <= MaxIssued
  /\ call' = [op |-> c.op, field |-> c.field, start |-> issued]
  /\ todo' = c.program
  /\ pc' = "run"
  /\ UNCHANGED <<writerVars, result, data, raw, issued, output, interrupts>>

(* Every primitive succeeded.                                              *)
Return ==
  /\ pc = "run"
  /\ todo = <<>>
  /\ pc' = "idle"
  /\ result' = TRUE
  /\ UNCHANGED <<writerVars, call, todo, data, raw, issued, output, interrupts>>

(* The latch is looked at before anything else, by all but destroy, whose  *)
(* flush looks at it.                                                      *)
Reject ==
  /\ pc = "run"
  /\ todo # <<>>
  /\ Head(todo).kind # "destroy"
  /\ errorLatched
  /\ Fail
  /\ issued' = issued + Length
  /\ UNCHANGED <<mode, fd, capacity, buffer, output, interrupts>>

(* A formatter refuses its argument (digits, fraction digits, codepoint,   *)
(* error code): the error is latched without any I/O.                      *)
RefuseArgument ==
  /\ Runs("latch")
  /\ ~errorLatched
  /\ Fail
  /\ UNCHANGED <<mode, fd, capacity, buffer, issued, output, interrupts>>

Full == Len(buffer) = capacity
NoRoom == IF Head(todo).kind = "char" THEN Full ELSE Length > Remaining

Writes == Runs("bytes") \/ Runs("char")

(* write_bytes and write_char with room in the buffer.                     *)
Buffer ==
  /\ Writes
  /\ ~errorLatched
  /\ ~NoRoom
  /\ buffer' = buffer \o Fresh(Length)
  /\ issued' = issued + Length
  /\ Succeed
  /\ UNCHANGED <<mode, fd, errorLatched, capacity, output, interrupts>>

(* A fault: the write fails, the error is not latched.                     *)
OverflowUnlatched ==
  /\ Writes
  /\ ~errorLatched
  /\ ~fd
  /\ NoRoom
  /\ result' = FALSE
  /\ pc' = "idle"
  /\ todo' = <<>>
  /\ issued' = issued + Length
  /\ UNCHANGED <<writerVars, call, data, raw, output, interrupts>>

(* Without a descriptor there is nowhere to spill to.                      *)
Overflow ==
  /\ Writes
  /\ ~errorLatched
  /\ ~fd
  /\ NoRoom
  /\ Fail
  /\ issued' = issued + Length
  /\ UNCHANGED <<mode, fd, capacity, buffer, output, interrupts>>

(* With a descriptor the buffer is flushed first.                          *)
Spill ==
  /\ Writes
  /\ ~errorLatched
  /\ fd
  /\ NoRoom
  /\ EnterRaw("flush", buffer)
  /\ data' = Fresh(Length)
  /\ issued' = issued + Length
  /\ UNCHANGED <<writerVars, output, interrupts>>

(* Faults: a buffer that is not full is not written; the latch is not      *)
(* looked at.                                                              *)
FlushLazily ==
  /\ Runs("flush") \/ Runs("destroy")
  /\ ~errorLatched
  /\ fd
  /\ EnterRaw("flush", IF Len(buffer) < capacity THEN <<>> ELSE buffer)
  /\ UNCHANGED <<writerVars, data, issued, output, interrupts>>

FlushUnlatched ==
  /\ Runs("flush") \/ Runs("destroy")
  /\ fd
  /\ EnterRaw("flush", buffer)
  /\ UNCHANGED <<writerVars, data, issued, output, interrupts>>

(* bc_core_writer_flush, called by the user or by destroy.                 *)
Flush ==
  /\ Runs("flush") \/ Runs("destroy")
  /\ ~errorLatched
  /\ fd
  /\ EnterRaw("flush", buffer)
  /\ UNCHANGED <<writerVars, data, issued, output, interrupts>>

FlushMemory ==
  /\ Runs("flush")
  /\ ~errorLatched
  /\ ~fd
  /\ Succeed
  /\ UNCHANGED <<writerVars, issued, output, interrupts>>

DestroyMemory ==
  /\ Runs("destroy")
  /\ ~errorLatched
  /\ ~fd
  /\ Detach
  /\ Succeed
  /\ UNCHANGED <<mode, errorLatched, issued, output, interrupts>>

DestroyLatched ==
  /\ Runs("destroy")
  /\ errorLatched
  /\ Detach
  /\ Fail
  /\ UNCHANGED <<mode, issued, output, interrupts>>

-----------------------------------------------------------------------------
(* raw_write_all: one iteration per answer of write(2).                    *)

InRaw == pc \in {"flush", "direct"}

(* write(2) takes the first n bytes; the loop advances past them.          *)
Advance(n) ==
  /\ output' = output \o SubSeq(raw, 1, n)
  /\ raw' = SubSeq(raw, n + 1, Len(raw))

WriteSome(n) ==
  /\ InRaw
  /\ n \in 1..Len(raw)
  /\ Advance(n)
  /\ UNCHANGED <<writerVars, pc, call, result, todo, data, issued, interrupts>>

(* EINTR: the loop retries with the same bytes.                            *)
WriteInterrupted ==
  /\ InRaw
  /\ raw # <<>>
  /\ interrupts < MaxInterrupts
  /\ interrupts' = interrupts + 1
  /\ UNCHANGED <<writerVars, callVars, issued, output>>

(* A fault: destroy takes no notice of a write that is refused.            *)
WriteRefusedQuietly ==
  /\ InRaw
  /\ raw # <<>>
  /\ IF Head(todo).kind = "destroy"
     THEN Detach /\ Succeed /\ UNCHANGED errorLatched
     ELSE Fail /\ UNCHANGED <<fd, capacity, buffer>>
  /\ UNCHANGED <<mode, issued, output, interrupts>>

(* Any other error, or an answer of 0.  The position stays where it was,   *)
(* so the buffer still holds bytes that may already have been written.     *)
WriteRefused ==
  /\ InRaw
  /\ raw # <<>>
  /\ Fail
  /\ IF Head(todo).kind = "destroy" THEN Detach ELSE UNCHANGED <<fd, capacity, buffer>>
  /\ UNCHANGED <<mode, issued, output, interrupts>>

(* The flush of a write is over: the buffer is empty, and what did not fit *)
(* before goes into it, or past it if it could only fill it.               *)
FitsEmpty == Head(todo).kind = "char" \/ Length < capacity

FlushDone == pc = "flush" /\ raw = <<>>

(* A fault: the bytes that made the flush necessary are forgotten.         *)
ThenBufferNothing ==
  /\ FlushDone
  /\ Head(todo).kind \in {"bytes", "char"}
  /\ FitsEmpty
  /\ buffer' = <<>>
  /\ Succeed
  /\ UNCHANGED <<mode, fd, errorLatched, capacity, issued, output, interrupts>>

ThenBuffer ==
  /\ FlushDone
  /\ Head(todo).kind \in {"bytes", "char"}
  /\ FitsEmpty
  /\ buffer' = data
  /\ Succeed
  /\ UNCHANGED <<mode, fd, errorLatched, capacity, issued, output, interrupts>>

ThenDirect ==
  /\ FlushDone
  /\ Head(todo).kind \in {"bytes", "char"}
  /\ ~FitsEmpty
  /\ buffer' = <<>>
  /\ EnterRaw("direct", data)
  /\ UNCHANGED <<mode, fd, errorLatched, capacity, data, issued, output, interrupts>>

(* A fault: a flush starts again when it is over.                          *)
ThenFlushedAgain ==
  /\ FlushDone
  /\ Head(todo).kind = "flush"
  /\ buffer' = <<>>
  /\ pc' = "run"
  /\ UNCHANGED <<mode, fd, errorLatched, capacity, issued, output, interrupts,
                 call, result, todo, data, raw>>

ThenFlushed ==
  /\ FlushDone
  /\ Head(todo).kind = "flush"
  /\ buffer' = <<>>
  /\ Succeed
  /\ UNCHANGED <<mode, fd, errorLatched, capacity, issued, output, interrupts>>

ThenDestroyed ==
  /\ FlushDone
  /\ Head(todo).kind = "destroy"
  /\ Detach
  /\ Succeed
  /\ UNCHANGED <<mode, errorLatched, issued, output, interrupts>>

DirectDone ==
  /\ pc = "direct"
  /\ raw = <<>>
  /\ Succeed
  /\ UNCHANGED <<writerVars, issued, output, interrupts>>

-----------------------------------------------------------------------------
Writing ==
  \/ Return \/ Reject \/ RefuseArgument
  \/ Buffer \/ Overflow \/ Spill
  \/ Flush \/ FlushMemory \/ DestroyMemory \/ DestroyLatched
  \/ \E n \in 1..Len(raw) : WriteSome(n)
  \/ WriteRefused
  \/ ThenBuffer \/ ThenDirect \/ ThenFlushed \/ ThenDestroyed
  \/ DirectDone

Next ==
  \/ \E c \in Calls : StartCall(c)
  \/ Writing
  \/ WriteInterrupted

Spec == Init /\ [][Next]_vars

(* A running call is scheduled, and write(2) answers in the end with       *)
(* something else than EINTR.  Nobody is obliged to make calls.            *)
FairSpec == Spec /\ WF_vars(Writing)

-----------------------------------------------------------------------------
(* The types of the variables.                                             *)
TypeOK ==
  /\ mode \in {"fd", "memory"}
  /\ fd \in BOOLEAN
  /\ errorLatched \in BOOLEAN
  /\ capacity \in Nat
  /\ buffer \in Seq(Nat)
  /\ issued \in Nat
  /\ output \in Seq(Nat)
  /\ pc \in {"idle", "run", "flush", "direct"}
  /\ call \in [op : Ops, field : Nat, start : Nat]
  /\ result \in BOOLEAN
  /\ todo \in Seq(Primitive)
  /\ data \in Seq(Nat)
  /\ raw \in Seq(Nat)
  /\ interrupts \in Nat

(* s holds the bytes that were issued right after the first `from'.        *)
Consecutive(s, from) == \A i \in DOMAIN s : s[i] = from + i

(* Whatever the kernel answers and whenever the process stops, the         *)
(* descriptor has received a prefix of what callers handed over: nothing   *)
(* twice (a failed flush leaves written bytes in the buffer), nothing out  *)
(* of order (a long write passes the buffer by), nothing with a hole       *)
(* before it (a write after a failed one).                                 *)
OutputIsPrefix == Consecutive(output, 0) /\ Len(output) <= issued

(* As long as no error is latched and no call is running, the bytes        *)
(* delivered and the bytes buffered are all the bytes ever handed over,    *)
(* so that no call has returned true for bytes that are gone.              *)
NoSilentLoss ==
  mode = "fd" /\ fd /\ ~errorLatched /\ pc = "idle" =>
    /\ Consecutive(buffer, Len(output))
    /\ Len(output) + Len(buffer) = issued

(* A flush or a destroy that returns true has delivered every byte of      *)
(* every call made so far.                                                 *)
TrueMeansDelivered ==
  mode = "fd" /\ pc = "idle" /\ result /\ call.op \in {"flush", "destroy"} =>
    Len(output) = issued

(* A writer without a descriptor never shows a part of a primitive that    *)
(* did not fit, nor a hole: its buffer is a prefix of what was handed      *)
(* over, all of it while no error is latched.                              *)
MemoryIsPrefix ==
  mode = "memory" /\ fd = FALSE /\ capacity > 0 =>
    /\ Consecutive(buffer, 0)
    /\ ~errorLatched => Len(buffer) = issued

(* The bytes buffered fit the caller's buffer, so that the size_t          *)
(* subtraction capacity - position never wraps.                            *)
BufferInBounds == Len(buffer) <= capacity

(* A call that returns true has emitted the whole field it stands for: its *)
(* text, or its minimum width if that is more.                             *)
WholeField == pc = "idle" /\ result => issued = call.start + call.field

(* Once an error is latched it stays latched, the descriptor receives      *)
(* nothing more, and every call returns false.                             *)
ErrorIsFinal ==
  [][errorLatched => /\ errorLatched'
                     /\ output' = output
                     /\ pc = "run" /\ pc' = "idle" => ~result']_vars

(* Every API call returns.                                                 *)
CallsReturn == pc # "idle" ~> pc = "idle"

-----------------------------------------------------------------------------
(* The stream a writer is: open until its descriptor is given up, broken   *)
(* from the first error on.  Without a descriptor it never closes.         *)
StreamState ==
  IF errorLatched THEN "broken"
  ELSE IF fd \/ mode = "memory" THEN "open" ELSE "closed"

Stream == INSTANCE OutputStream WITH delivered <- output, state <- StreamState

(* A writer implements the stream: in particular one with a descriptor is  *)
(* closed without an error only when everything was delivered, neither a   *)
(* closed nor a broken writer delivers anything, and one without a         *)
(* descriptor never does.                                                  *)
ImplementsStream == Stream!Spec

-----------------------------------------------------------------------------
(* The parts of the inductive invariant, by what they speak of.            *)

(* The primitives: a char is one byte, flush and destroy hand over none,   *)
(* and nothing but a call that has succeeded is without primitives.        *)
InvProgram ==
  /\ \A i \in DOMAIN todo : todo[i].kind = "char" => todo[i].len = 1
  /\ pc = "run" /\ todo = <<>> => ~errorLatched
  /\ call.op \in {"flush", "destroy"} /\ pc # "idle" =>
       IF todo = <<>>
       THEN mode = "fd" => Len(output) = issued
       ELSE Len(todo) = 1 /\ Head(todo).kind = call.op

(* raw_write_all runs only with a descriptor and a primitive to serve.     *)
InvRaw ==
  /\ pc \in {"idle", "run"} => data = <<>> /\ raw = <<>>
  /\ InRaw => fd /\ ~errorLatched /\ todo # <<>>
  /\ pc = "flush" =>
       IF Head(todo).kind \in {"bytes", "char"}
       THEN Len(data) = Length
       ELSE data = <<>> /\ Head(todo).kind \in {"flush", "destroy"}

(* The caller's buffer: a writer with a descriptor has room for a byte, a  *)
(* detached one has no buffer.                                             *)
InvBuffer ==
  /\ Len(buffer) <= capacity
  /\ capacity < SizeModulus
  /\ fd => mode = "fd" /\ capacity > 0
  /\ mode = "fd" /\ ~fd => capacity = 0

(* Where the issued bytes are while no error is latched: delivered, then   *)
(* in what raw_write_all holds, then in the running primitive, or else in  *)
(* the buffer.                                                             *)
InvWhere ==
  mode = "fd" /\ ~errorLatched =>
    /\ pc \in {"idle", "run"} =>
         /\ Consecutive(buffer, Len(output))
         /\ Len(output) + Len(buffer) = issued
    /\ pc = "flush" =>
         /\ Consecutive(raw, Len(output))
         /\ Consecutive(data, Len(output) + Len(raw))
         /\ Len(output) + Len(raw) + Len(data) = issued
    /\ pc = "direct" =>
         /\ buffer = <<>>
         /\ Consecutive(raw, Len(output))
         /\ Len(output) + Len(raw) = issued

IInv ==
  /\ TypeOK
  /\ InvProgram
  /\ InvRaw
  /\ InvBuffer
  /\ InvWhere
  /\ OutputIsPrefix
  /\ MemoryIsPrefix
  /\ TrueMeansDelivered

(* What the primitives still to run hand over: all of them but the last    *)
(* are single bytes.                                                       *)
Owed == IF todo = <<>> THEN 0 ELSE Len(todo) - 1 + todo[Len(todo)].len

(* The bytes issued and those owed make the field of the running call; the *)
(* primitive that waits for raw_write_all is still among those to run.     *)
InvField ==
  /\ \A i \in DOMAIN todo : i # Len(todo) => todo[i].len = 1
  /\ \A i \in DOMAIN todo : todo[i].kind \in {"flush", "destroy"} => todo[i].len = 0
  /\ pc = "run" => issued + Owed = call.start + call.field
  /\ InRaw => issued + Owed = call.start + call.field + Length
  /\ WholeField
=============================================================================
