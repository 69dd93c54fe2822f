-------------------------------- MODULE Call --------------------------------
(***************************************************************************)
(* One call of one of the functions that keep no state between calls: the  *)
(* codecs, the conversions of numbers and times, glob matching, CRC-32C,   *)
(* and the comparisons.  The modules of these functions share the          *)
(* variables declared here; module Conversions puts them side by side.     *)
(***************************************************************************)
EXTENDS Integers, Sequences

VARIABLES
  call,    \* the function called, call.op, and its arguments
  at,      \* how far the call has read its input
  output,  \* what it has written for its caller
  result   \* "pending", or whether it has returned "true" or "false"

callVars == <<call, at, output, result>>

Pending(ops) == call.op \in ops /\ result = "pending"

Returned(ops) == call.op \in ops /\ result # "pending"

(* The loop goes on.                                                       *)
Go(next, written) ==
  /\ at' = next
  /\ output' = written
  /\ UNCHANGED <<call, result>>

Return(ok, written) ==
  /\ result' = IF ok THEN "true" ELSE "false"
  /\ output' = written
  /\ UNCHANGED <<call, at>>

(* A power, as shifts and products in a loop make it.                      *)
Power(base, n) ==
  LET power[k \in 0..n] == IF k = 0 THEN 1 ELSE base * power[k - 1]
  IN power[n]

(* The caller hands what it was given to another function.                 *)
CallNext(c) ==
  /\ call' = c
  /\ at' = 0
  /\ output' = <<>>
  /\ result' = "pending"
=============================================================================
