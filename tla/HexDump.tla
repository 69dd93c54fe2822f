------------------------------ MODULE HexDump -------------------------------
(***************************************************************************)
(* bc_core_format_hex_dump and _required_capacity.  A dump is a sequence   *)
(* of pieces, each of which is written only if there is room for the whole *)
(* of it; a piece is modelled as a record of its kind and of the bytes, or *)
(* the offset, that it shows.                                              *)
(***************************************************************************)
EXTENDS Call

CONSTANT OffsetModulus   \* the offsets that eight hexadecimal digits tell apart: 2^32

ASSUME OffsetAssumption == OffsetModulus \in Nat \ {0}

Dumps == {"hex_dump"}

Options == call.options   \* bytes_per_line, show_offset and show_ascii

(* The characters of a piece: the offset has eight digits and two blanks,  *)
(* a byte two digits and a blank, the column of characters two bars.       *)
PieceLength(piece) ==
  CASE piece.kind = "offset"            -> 8 + 2
    [] piece.kind \in {"byte", "blank"} -> 3
    [] piece.kind = "ascii"             -> 1 + Len(piece.shows) + 1
    [] OTHER                            -> 1

PiecesLength(pieces) ==
  LET length[n \in 0..Len(pieces)] ==
        IF n = 0 THEN 0 ELSE length[n - 1] + PieceLength(pieces[n])
  IN length[Len(pieces)]

(* A fault: the column of characters is left out of the sum.               *)
LineLengthBare ==
  (IF Options.show_offset THEN 8 + 2 ELSE 0) + Options.bytes_per_line * 3 + 1 + 1

(* bc_core_hex_dump_line_length: every line as long as a full one.         *)
LineLength ==
  (IF Options.show_offset THEN 8 + 2 ELSE 0)
    + Options.bytes_per_line * 3 + 1
    + (IF Options.show_ascii THEN 1 + Options.bytes_per_line + 1 ELSE 0)
    + 1

Lines(n) == (n + (Options.bytes_per_line - 1)) \div Options.bytes_per_line

RequiredCapacity(n) ==
  IF Options.bytes_per_line = 0 THEN 0 ELSE Lines(n) * LineLength

(* The pieces of the line that shows these bytes.                          *)
Line(offset, bytes) ==
  (IF Options.show_offset
   THEN << [kind |-> "offset", shows |-> <<offset % OffsetModulus>>] >> ELSE <<>>)
    \o [k \in 1..Options.bytes_per_line |->
          IF k <= Len(bytes) THEN [kind |-> "byte", shows |-> <<bytes[k]>>]
                             ELSE [kind |-> "blank", shows |-> <<>>]]
    \o << [kind |-> "separator", shows |-> <<>>] >>
    \o (IF Options.show_ascii THEN << [kind |-> "ascii", shows |-> bytes] >> ELSE <<>>)
    \o << [kind |-> "newline", shows |-> <<>>] >>

(* The bytes of the next line.                                             *)
NextBytes ==
  SubSeq(call.text, at + 1,
         IF at + Options.bytes_per_line <= Len(call.text)
         THEN at + Options.bytes_per_line ELSE Len(call.text))

DumpRefused ==
  /\ Pending(Dumps)
  /\ Options.bytes_per_line = 0
  /\ Return(FALSE, output)

(* A line is written piece by piece, up to the first without room.         *)
DumpLine ==
  /\ Pending(Dumps)
  /\ Options.bytes_per_line > 0
  /\ at < Len(call.text)
  /\ LET line    == Line(call.offset + at, NextBytes)
         fits(n) == PiecesLength(output \o SubSeq(line, 1, n)) <= call.capacity
         whole   == CHOOSE n \in 0..Len(line) : fits(n) /\ (n < Len(line) => ~fits(n + 1))
     IN IF whole = Len(line)
        THEN Go(at + Len(NextBytes), output \o line)
        ELSE Return(FALSE, output \o SubSeq(line, 1, whole))

DumpEnd ==
  /\ Pending(Dumps)
  /\ Options.bytes_per_line > 0
  /\ at = Len(call.text)
  /\ Return(TRUE, output)

DumpNext == DumpRefused \/ DumpLine \/ DumpEnd

-----------------------------------------------------------------------------
(* The bytes shown by the pieces of a kind, in their order.                *)
ShownBy(pieces, kind) ==
  LET shown[n \in 0..Len(pieces)] ==
        IF n = 0 THEN <<>>
        ELSE shown[n - 1] \o (IF pieces[n].kind = kind THEN pieces[n].shows ELSE <<>>)
  IN shown[Len(pieces)]

Shown(kind) == ShownBy(output, kind)

(* The required capacity suffices, for every length, width of a line and   *)
(* option; whatever the capacity, nothing is written past it, and a dump   *)
(* that succeeds shows every byte once in each column, in order.           *)
DumpFits ==
  call.op \in Dumps =>
    /\ PiecesLength(output) <= call.capacity
    /\ result # "pending" /\ Options.bytes_per_line > 0 =>
         /\ call.capacity >= RequiredCapacity(Len(call.text)) => result = "true"
         /\ result = "true" =>
              /\ Shown("byte") = call.text
              /\ Options.show_ascii => Shown("ascii") = call.text

-----------------------------------------------------------------------------
(* What the signature says of a call.                                      *)
DumpCall(c) ==
  c.op \in Dumps =>
    /\ c.text \in Seq(Nat) /\ c.offset \in Nat /\ c.capacity \in Nat
    /\ c.options \in [bytes_per_line : Nat, show_offset : BOOLEAN, show_ascii : BOOLEAN]

Pieces == [kind : {"offset", "byte", "blank", "separator", "ascii", "newline"}, shows : Seq(Nat)]

(* The inductive invariant: whole lines have been written, no longer than  *)
(* full ones, of the bytes before.                                         *)
InvDump ==
  call.op \in Dumps =>
    /\ output \in Seq(Pieces) /\ PiecesLength(output) <= call.capacity
    /\ result = "pending" =>
         /\ at \in 0..Len(call.text)
         /\ Shown("byte") = SubSeq(call.text, 1, at)
         /\ Options.show_ascii => Shown("ascii") = SubSeq(call.text, 1, at)
         /\ Options.bytes_per_line > 0 =>
              /\ at = Len(call.text) \/ at % Options.bytes_per_line = 0
              /\ PiecesLength(output) <= Lines(at) * LineLength
    /\ DumpFits
=============================================================================
