------------------------------ MODULE MCCount -------------------------------
(***************************************************************************)
(* Vectors of 3 bytes.  Lanes of two bits, two vectors of 3 or 6 bytes a   *)
(* step: 3 steps of 6 bytes fill a lane, so that a text of 46 bytes takes  *)
(* three batches, a vector and a byte; what matches is any interval of it. *)
(* Lines and words are counted in all texts of up to 8 bytes and of 6:     *)
(* two blocks, and the bytes left over, or less, as the text of words is   *)
(* cut into calls.  Patterns have one to three bytes; some of them begin   *)
(* with, contain or end in a newline.  Words are made of a blank, U+00A0   *)
(* (C2 A0), U+3000 (E3 80 80) and the bytes of these alone, which are no   *)
(* white space and stand for the letters.                                  *)
(***************************************************************************)
EXTENDS Count

Texts(n, bytes) == [1..n -> bytes]

Interval(n, first, last) == [p \in 1..n |-> IF p \in first..last THEN "nl" ELSE "a"]

MCByteTexts ==
  UNION {{Interval(n, first, last) : first \in 1..n, last \in 0..n} : n \in {0, 1, 4, 25, 46}}

MCPatterns ==
  {<<"a">>, <<"a", "b">>, <<"a", "a">>, <<"a", "b", "a">>,
   <<"a", "nl">>, <<"a", "nl", "b">>, <<"nl">>, <<"nl", "a">>}

MCLineTexts == UNION {Texts(n, {"nl", "a", "b"}) : n \in {0, 1, 2, 4, 8}}

MCWideSpaces == {<<"C2", "A0">>, <<"E3", "80", "80">>}

MCWordTexts == Texts(6, {"blank", "C2", "A0", "E3", "80"})
=============================================================================
