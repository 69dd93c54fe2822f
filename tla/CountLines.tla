----------------------------- MODULE CountLines -----------------------------
(***************************************************************************)
(* bc_core_count_lines_with_pattern: the lines of a text that contain a    *)
(* pattern.  The text is taken by blocks of W bytes, of which only the     *)
(* newlines and the bytes equal to the first one of the pattern are looked *)
(* at, as two masks; the bytes from which a block does not fit, or the     *)
(* pattern does not fit, are taken one by one.                             *)
(***************************************************************************)
EXTENDS CountText, FiniteSets

CONSTANTS
  Newline,     \* the byte that ends a line
  Patterns,    \* the patterns looked for, none of them empty
  LineTexts    \* the texts they are looked for in

ASSUME LinesAssumption ==
  /\ Newline \in Bytes
  /\ Patterns \subseteq Seq(Bytes) \ {<<>>}
  /\ LineTexts \subseteq Seq(Bytes)

VARIABLES
  pattern,      \* the bytes looked for
  newlines,     \* newline_mask: positions in the block
  candidates,   \* candidate_mask: positions in the block
  lineHasMatch  \* current_line_has_match

lineVars == <<pattern, newlines, candidates, lineHasMatch>>

LineInit ==
  /\ function = "lines"
  /\ text \in LineTexts
  /\ pattern \in Patterns
  /\ pc = IF text = <<>> THEN "done" ELSE "blocks"
  /\ offset = 0
  /\ newlines = {}
  /\ candidates = {}
  /\ lineHasMatch = FALSE
  /\ count = 0

UnchangedInputs == UNCHANGED <<function, text, pattern>>

(* bc_core_pattern_matches.                                                *)
Matches(p) == SubSeq(text, p + 1, p + Len(pattern)) = pattern

(* One of the positions of the block is where the pattern occurs.          *)
AnyMatch(positions) == \E i \in positions : Matches(offset + i)

(* The bytes a pattern may start from: simd_limit.                         *)
Limit == IF Len(pattern) <= Len(text) THEN Len(text) - Len(pattern) + 1 ELSE 0

Positions(byte) == {i \in 0..(W - 1) : text[offset + i + 1] = byte}

(* The line ends: it is counted, and the next one begins.                  *)
EndLine(matched) ==
  /\ count' = IF matched THEN count + 1 ELSE count
  /\ lineHasMatch' = FALSE

InBlock == pc = "blocks" /\ offset + W <= Limit

(* A fault: a block without a candidate is passed over, newlines and all.  *)
BlockPassedOver ==
  /\ InBlock
  /\ Positions(Head(pattern)) = {}
  /\ offset' = offset + W
  /\ UnchangedInputs /\ UNCHANGED <<pc, newlines, candidates, count, lineHasMatch>>

(* No candidate: all that may happen is that the line ends.                *)
BlockWithoutCandidate ==
  /\ InBlock
  /\ Positions(Head(pattern)) = {}
  /\ IF Positions(Newline) = {}
     THEN UNCHANGED <<count, lineHasMatch>>
     ELSE EndLine(lineHasMatch)
  /\ offset' = offset + W
  /\ UnchangedInputs /\ UNCHANGED <<pc, newlines, candidates>>

(* No newline: the block is part of one line.                              *)
BlockOfOneLine ==
  /\ InBlock
  /\ Positions(Head(pattern)) # {}
  /\ Positions(Newline) = {}
  /\ lineHasMatch' = (lineHasMatch \/ AnyMatch(Positions(Head(pattern))))
  /\ offset' = offset + W
  /\ UnchangedInputs /\ UNCHANGED <<pc, newlines, candidates, count>>

BlockOfLines ==
  /\ InBlock
  /\ Positions(Head(pattern)) # {}
  /\ Positions(Newline) # {}
  /\ newlines' = Positions(Newline)
  /\ candidates' = Positions(Head(pattern))
  /\ pc' = "lines"
  /\ UnchangedInputs /\ UNCHANGED <<offset, lineHasMatch, count>>

(* The lines that end in the block, one by one.                            *)
LineInBlock ==
  /\ pc = "lines"
  /\ \E n \in newlines :
       /\ \A m \in newlines : n <= m
       /\ EndLine(lineHasMatch \/ AnyMatch({i \in candidates : i < n}))
       /\ candidates' = {i \in candidates : i > n}
       /\ newlines' = newlines \ {n}
  /\ UnchangedInputs /\ UNCHANGED <<pc, offset>>

(* What follows the last newline of the block.                             *)
EndBlock ==
  /\ pc = "lines"
  /\ newlines = {}
  /\ lineHasMatch' = AnyMatch(candidates)
  /\ candidates' = {}
  /\ offset' = offset + W
  /\ pc' = "blocks"
  /\ UnchangedInputs /\ UNCHANGED <<newlines, count>>

EndLineBlocks ==
  /\ pc = "blocks"
  /\ offset + W > Limit
  /\ pc' = "tail"
  /\ UnchangedInputs /\ UNCHANGED <<offset, newlines, candidates, lineHasMatch, count>>

TailByte ==
  /\ pc = "tail"
  /\ offset < Len(text)
  /\ IF text[offset + 1] = Newline
     THEN EndLine(lineHasMatch)
     ELSE /\ lineHasMatch' =
               (lineHasMatch \/ (offset + Len(pattern) <= Len(text) /\ Matches(offset)))
          /\ UNCHANGED count
  /\ offset' = offset + 1
  /\ UnchangedInputs /\ UNCHANGED <<pc, newlines, candidates>>

(* The last line need not end in a newline.                                *)
EndLines ==
  /\ pc = "tail"
  /\ offset = Len(text)
  /\ EndLine(lineHasMatch)
  /\ pc' = "done"
  /\ UnchangedInputs /\ UNCHANGED <<offset, newlines, candidates>>

LineNext ==
  \/ BlockWithoutCandidate \/ BlockOfOneLine \/ BlockOfLines
  \/ LineInBlock \/ EndBlock \/ EndLineBlocks
  \/ TailByte \/ EndLines

-----------------------------------------------------------------------------
(* A line is named by the number of newlines before it, and the pattern is *)
(* in the line it starts in.  One that starts with a newline is in none.   *)
LineOf(p) == Cardinality({q \in 1..p : text[q] = Newline})

Starts ==
  {p \in 0..(Len(text) - Len(pattern)) : text[p + 1] # Newline /\ Matches(p)}

LinesWithPattern == {LineOf(p) : p \in Starts}

(* Wherever the blocks fall, every line in which the pattern occurs is     *)
(* counted, and counted once, however often it occurs there, in which      *)
(* blocks, and on which side of their newlines.                            *)
LinesCounted ==
  function = "lines" /\ pc = "done" => count = Cardinality(LinesWithPattern)

-----------------------------------------------------------------------------
(* After r bytes the lines that have ended are counted, and whether the    *)
(* pattern occurs in the line that has not is known.                       *)
CountedTo(r) ==
  /\ count = Cardinality({l \in LinesWithPattern : l < LineOf(r)})
  /\ lineHasMatch <=> \E p \in Starts : p < r /\ LineOf(p) = LineOf(r)

(* Inside a block these bytes end with the last newline that was dealt     *)
(* with, and the masks hold what follows them.                             *)
InvLines ==
  function = "lines" =>
    /\ text \in Seq(Bytes)
    /\ pattern \in Patterns
    /\ pc \in {"blocks", "lines", "tail", "done"}
    /\ offset \in 0..Len(text)
    /\ count \in Nat
    /\ lineHasMatch \in BOOLEAN
    /\ pc \in {"blocks", "tail"} => CountedTo(offset)
    /\ pc = "lines" =>
         /\ offset + W <= Limit
         /\ Positions(Newline) # {}
         /\ \E r \in offset..(offset + W) :
              /\ r > offset => text[r] = Newline
              /\ newlines = {i \in Positions(Newline) : offset + i >= r}
              /\ candidates = {i \in Positions(Head(pattern)) : offset + i >= r}
              /\ CountedTo(r)
    /\ LinesCounted
=============================================================================
