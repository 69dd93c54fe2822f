---------------------------- MODULE InputStream -----------------------------
(***************************************************************************)
(* What a buffered reader promises, without its buffer: the bytes of a     *)
(* stream are given out in order, by calls that say truly why they give    *)
(* fewer than they were asked for.  Bytes are numbered as in Reader.       *)
(***************************************************************************)
EXTENDS Naturals, Sequences

VARIABLES
  stream,   \* its length and its newlines
  given,    \* the bytes given out
  call,     \* the current or the last call, and the bytes given before it
  pending,  \* it has not returned
  result,   \* what the last one returned
  broken,   \* an error has occurred
  closed,   \* the reader was destroyed
  ended     \* it says that the stream has ended

inputVars == <<stream, given, call, pending, result, broken, closed, ended>>

Init ==
  /\ given = <<>>
  /\ call = [op |-> "init", want |-> 0, start |-> 0]
  /\ pending = FALSE
  /\ result = TRUE
  /\ broken = FALSE
  /\ closed = FALSE
  /\ ended = FALSE

AllGiven == Len(given) = stream.length

Ask ==
  /\ ~pending
  /\ pending' = TRUE
  /\ call' \in [op : {"read", "exact", "line", "destroy"}, want : Nat, start : {Len(given)}]
  /\ UNCHANGED <<given, result, broken, closed, ended>>

(* The next bytes of the stream are given out, never more than it has,     *)
(* and none after an error or the end of the reader.                       *)
Give ==
  /\ Len(given') \in Len(given)..stream.length
  /\ given' = [i \in 1..Len(given') |-> i]
  /\ broken \/ closed => given' = given

(* The end is only ever announced when everything was given out.           *)
Announce ==
  /\ ended' \in BOOLEAN
  /\ ended' => AllGiven'
  /\ ended => ended' \/ closed'

End ==
  /\ Announce
  /\ UNCHANGED <<given, call, pending, result, broken, closed>>

(* An exact read is served in parts.                                       *)
Part ==
  /\ pending
  /\ call.op = "exact"
  /\ Give
  /\ Announce
  /\ UNCHANGED <<call, pending, result, broken, closed>>

Served == Len(given') - call.start

(* A read without an error gives something, unless there is nothing.       *)
ReadReturns ==
  /\ call.op = "read"
  /\ IF result'
     THEN Served <= call.want /\ (Served = 0 => call.want = 0 \/ closed \/ AllGiven)
     ELSE Served = 0 /\ broken'

(* An exact read gives everything it was asked for, or the rest.           *)
ExactReturns ==
  /\ call.op = "exact"
  /\ IF result' THEN Served = call.want
     ELSE broken' \/ (Served < call.want /\ (closed \/ AllGiven'))

(* A line ends at the first newline after the line before it, or at the    *)
(* end of a stream without one.                                            *)
LineReturns ==
  /\ call.op = "line"
  /\ IF result'
     THEN /\ Served > 0
          /\ \A i \in (call.start + 1)..(Len(given') - 1) : i \notin stream.newlines
          /\ Len(given') \in stream.newlines \/ AllGiven'
     ELSE Served = 0 /\ (broken' \/ closed \/ AllGiven)

DestroyReturns == call.op = "destroy" /\ result' /\ Served = 0

Return ==
  /\ pending
  /\ pending' = FALSE
  /\ result' \in BOOLEAN
  /\ Give
  /\ ReadReturns \/ ExactReturns \/ LineReturns \/ DestroyReturns
  /\ broken' = (broken \/ (broken' /\ ~result'))
  /\ call.op # "destroy" /\ broken' => ~result'
  /\ closed' = (closed \/ call.op = "destroy")
  /\ Announce
  /\ UNCHANGED call

Next == (Ask \/ Part \/ Return \/ End) /\ UNCHANGED stream

Spec == Init /\ [][Next]_inputVars
=============================================================================
