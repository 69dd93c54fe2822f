----------------------------- MODULE CountWords -----------------------------
(***************************************************************************)
(* bc_core_count_words and bc_core_count_words_ascii: the words of a text  *)
(* that a caller counts call by call, carrying in_word_state from one call *)
(* to the next.  A call takes the text by blocks of W bytes, in which the  *)
(* bytes of white space are marked, and the bytes left over one by one.    *)
(*                                                                         *)
(* White space of several bytes may begin in one block and end in the      *)
(* next, or in the bytes left over.  The set `spill' stands for            *)
(* carry_ws_mask: the positions it takes there.                            *)
(***************************************************************************)
EXTENDS CountText, FiniteSets

CONSTANTS
  Space,       \* the byte of a blank; ASCII white space
  WideSpaces,  \* the sequences of bytes that are white space in UTF-8
  WordTexts    \* the texts whose words are counted

(* The wide spaces are encoded in UTF-8: the first byte of one says how    *)
(* many it has (C2: two; E1, E2, E3: three), and those that follow         *)
(* (80 to BF) are neither a first byte nor a blank.                        *)
ASSUME WordsAssumption ==
  /\ Space \in Bytes
  /\ WideSpaces \subseteq {s \in Seq(Bytes) : Len(s) \in {2, 3}}
  /\ \A s, t \in WideSpaces :
       /\ s[1] = t[1] => Len(s) = Len(t)
       /\ \A k \in 2..Len(s) : s[k] # t[1]
  /\ \A s \in WideSpaces : \A k \in 1..Len(s) : s[k] # Space
  /\ WordTexts \subseteq Seq(Bytes)

VARIABLES
  unicode,      \* which of the two functions is called
  inWordState,  \* what the caller carries from call to call
  total,        \* the sum of the counts returned
  cut,          \* a call has ended inside white space of several bytes
  end,          \* where the text of this call ends
  carry,        \* the byte before the block is white space
  spill,        \* positions of the next block that are white space
  inWord        \* the byte before the bytes left over is in a word

wordVars == <<unicode, inWordState, total, cut, end, carry, spill, inWord>>
textVars == <<function, text, unicode>>

(* The white space that starts after p bytes, if it ends within e bytes.   *)
SpacesAt(p, e) ==
  {s \in {<<Space>>} \cup (IF unicode THEN WideSpaces ELSE {}) :
     p + Len(s) <= e /\ s = SubSeq(text, p + 1, p + Len(s))}

WordInit ==
  /\ function = "words"
  /\ text \in WordTexts
  /\ unicode \in BOOLEAN
  /\ inWordState = FALSE
  /\ total = 0
  /\ cut = FALSE
  /\ pc = "idle"
  /\ offset = 0
  /\ end = 0
  /\ carry = FALSE
  /\ spill = {}
  /\ count = 0
  /\ inWord = FALSE

(* A call on the next n bytes.                                             *)
StartCall(n) ==
  /\ pc = "idle"
  /\ n > 0 /\ offset + n <= Len(text)
  /\ end' = offset + n
  /\ cut' = (cut \/ \E p \in 0..(end' - 1) : \E s \in SpacesAt(p, Len(text)) : p + Len(s) > end')
  /\ carry' = ~inWordState
  /\ spill' = {}
  /\ count' = 0
  /\ pc' = "blocks"
  /\ UNCHANGED <<textVars, inWordState, total, offset, inWord>>

-----------------------------------------------------------------------------
(* The positions of white space in the block and, from W on, after it.     *)
Marked ==
  spill \cup UNION {UNION {i..(i + Len(s) - 1) : s \in SpacesAt(offset + i, end)} : i \in 0..(W - 1)}

WordStarts ==
  {i \in 0..(W - 1) : i \notin Marked /\ (IF i = 0 THEN carry ELSE i - 1 \in Marked)}

(* A fault: what does not fit the block is forgotten.                      *)
WordBlockForgetful ==
  /\ pc = "blocks"
  /\ offset + W <= end
  /\ count' = count + Cardinality(WordStarts)
  /\ carry' = (W - 1 \in Marked)
  /\ spill' = {}
  /\ offset' = offset + W
  /\ UNCHANGED <<textVars, inWordState, total, cut, pc, end, inWord>>

WordBlock ==
  /\ pc = "blocks"
  /\ offset + W <= end
  /\ count' = count + Cardinality(WordStarts)
  /\ carry' = (W - 1 \in Marked)
  /\ spill' = {i - W : i \in Marked \ (0..(W - 1))}
  /\ offset' = offset + W
  /\ UNCHANGED <<textVars, inWordState, total, cut, pc, end, inWord>>

EndWordBlocks ==
  /\ pc = "blocks"
  /\ offset + W > end
  /\ inWord' = ~carry
  /\ pc' = "skip"
  /\ UNCHANGED <<textVars, inWordState, total, cut, offset, end, carry, spill, count>>

(* The rest of the white space that began in the last block.               *)
Skip ==
  /\ pc = "skip"
  /\ spill # {} /\ offset < end
  /\ spill' = {i - 1 : i \in spill \ {0}}
  /\ inWord' = FALSE
  /\ offset' = offset + 1
  /\ UNCHANGED <<textVars, inWordState, total, cut, pc, end, carry, count>>

EndSkip ==
  /\ pc = "skip"
  /\ spill = {} \/ offset = end
  /\ pc' = "tail"
  /\ UNCHANGED <<textVars, inWordState, total, cut, offset, end, carry, spill, count, inWord>>

-----------------------------------------------------------------------------
TailSpace ==
  /\ pc = "tail"
  /\ \E s \in SpacesAt(offset, end) : offset' = offset + Len(s)
  /\ inWord' = FALSE
  /\ UNCHANGED <<textVars, inWordState, total, cut, pc, end, carry, spill, count>>

TailWord ==
  /\ pc = "tail"
  /\ offset < end
  /\ SpacesAt(offset, end) = {}
  /\ count' = IF inWord THEN count ELSE count + 1
  /\ inWord' = TRUE
  /\ offset' = offset + 1
  /\ UNCHANGED <<textVars, inWordState, total, cut, pc, end, carry, spill>>

EndCall ==
  /\ pc = "tail"
  /\ offset = end
  /\ inWordState' = inWord
  /\ total' = total + count
  /\ pc' = "idle"
  /\ UNCHANGED <<textVars, cut, offset, end, carry, spill, count, inWord>>

WordNext ==
  \/ \E n \in 1..Len(text) : StartCall(n)
  \/ WordBlock \/ EndWordBlocks \/ Skip \/ EndSkip
  \/ TailSpace \/ TailWord \/ EndCall

-----------------------------------------------------------------------------
(* The bytes of white space, wherever they lie, and the words between them.*)
IsSpace(p) ==
  \E q \in 0..(p - 1) : \E s \in SpacesAt(q, Len(text)) : p <= q + Len(s)

WordsIn(n) ==
  Cardinality({p \in 1..n : ~IsSpace(p) /\ (p = 1 \/ IsSpace(p - 1))})

(* However the text is cut into calls, and wherever the blocks fall, the   *)
(* counts add up to the words of the text, and the state says whether it   *)
(* ends in one, provided that no call ends inside white space of several   *)
(* bytes.                                                                  *)
WordsCounted ==
  function = "words" /\ pc = "idle" /\ ~cut =>
    /\ total = WordsIn(offset)
    /\ inWordState = (offset > 0 /\ ~IsSpace(offset))

-----------------------------------------------------------------------------
(* White space that began before p reaches beyond n bytes after it.        *)
Reaches(p, n) == \E q \in 0..(p - 1) : \E s \in SpacesAt(q, Len(text)) : p + n < q + Len(s)

(* The byte before the next one is in a word.                              *)
InWordAt(p) == p > 0 /\ ~IsSpace(p)

(* As long as no call has ended inside white space: the words of the bytes *)
(* taken are counted; whether the last of these bytes is in a word is      *)
(* known, and so is, until the bytes left over are taken one by one, what  *)
(* their white space takes of the bytes that follow.                       *)
InvTaken ==
  /\ pc = "idle" => total = WordsIn(offset)
  /\ pc # "idle" => total + count = WordsIn(offset)
  /\ pc = "idle" => inWordState = InWordAt(offset)
  /\ pc = "blocks" => carry = ~InWordAt(offset)
  /\ pc \in {"skip", "tail"} => inWord = InWordAt(offset)
  /\ pc \in {"blocks", "skip"} => spill = {i \in 0..Len(text) : Reaches(offset, i)}
  /\ pc \in {"idle", "tail"} => ~Reaches(offset, 0)

InvWords ==
  function = "words" =>
    /\ text \in Seq(Bytes)
    /\ unicode \in BOOLEAN
    /\ inWordState \in BOOLEAN
    /\ cut \in BOOLEAN
    /\ carry \in BOOLEAN
    /\ inWord \in BOOLEAN
    /\ total \in Nat
    /\ count \in Nat
    /\ pc \in {"idle", "blocks", "skip", "tail"}
    /\ end \in 0..Len(text)
    /\ offset \in 0..end
    /\ pc = "idle" => offset = end
    /\ ~cut => InvTaken /\ ~Reaches(end, 0)
=============================================================================
