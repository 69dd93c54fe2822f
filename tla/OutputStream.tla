---------------------------- MODULE OutputStream ----------------------------
(***************************************************************************)
(* What a buffered writer promises, without its buffer: a stream that      *)
(* delivers what callers issue, byte by byte and in order, until it breaks *)
(* or is closed; that delivers nothing after either; and that closes only  *)
(* when nothing is left to deliver.  Bytes are numbered as in Writer.      *)
(***************************************************************************)
EXTENDS Naturals, Sequences

VARIABLES
  issued,     \* the number of bytes handed over
  delivered,  \* the bytes that have arrived
  state       \* "open", "closed" or "broken"

streamVars == <<issued, delivered, state>>

Init ==
  /\ issued = 0
  /\ delivered = <<>>
  /\ state = "open"

(* Bytes may be handed over at any time; nobody promises to take them.     *)
Issue ==
  /\ issued' \in Nat
  /\ issued' > issued
  /\ UNCHANGED <<delivered, state>>

(* The next bytes arrive, never more than were issued.                     *)
Deliver ==
  /\ state = "open"
  /\ Len(delivered') \in (Len(delivered) + 1)..issued
  /\ delivered' = [i \in 1..Len(delivered') |-> i]
  /\ UNCHANGED <<issued, state>>

(* An error: at a write, or when bytes come that cannot be taken.          *)
Break ==
  /\ state # "broken"
  /\ state' = "broken"
  /\ issued' \in Nat
  /\ issued' >= issued
  /\ UNCHANGED delivered

(* A clean end.                                                            *)
Close ==
  /\ state = "open"
  /\ Len(delivered) = issued
  /\ state' = "closed"
  /\ UNCHANGED <<issued, delivered>>

Next == Issue \/ Deliver \/ Break \/ Close

Spec == Init /\ [][Next]_streamVars
=============================================================================
