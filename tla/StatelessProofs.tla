-------------------------- MODULE StatelessProofs ---------------------------
(***************************************************************************)
(* What functions that keep nothing between calls guarantee: the searches, *)
(* for every text, pattern, set of bytes and width of the vectors; and,    *)
(* step by step, the comparisons, lengths and loops in place, for every    *)
(* region; times, for integers and units of every size; integers of every  *)
(* width, written and parsed; and dumps of every length, width and column. *)
(***************************************************************************)
EXTENDS Find, Conversions, SequenceTheorems, WellFoundedInduction, TLAPS

(* The types of what a call is about.                                      *)
LEMMA CallTypes ==
  ASSUME TypeOK
  PROVE  /\ W \in Nat \ {0} /\ Vectors \in Nat \ {0} /\ Half \in Nat \ {0}
         /\ op \in Ops /\ text \in Seq(Byte) /\ pattern \in Seq(Byte)
         /\ targets \subseteq Byte
         /\ op \in {"byte", "last"} => Len(pattern) = 1
         /\ Width \in Nat \ {0}
         /\ Len(text) \in Nat /\ Len(pattern) \in Nat /\ Limit \in Int
         /\ offset \in Int
  <1>1. /\ W \in Nat \ {0} /\ Vectors \in Nat \ {0} /\ Half \in Nat \ {0}
        /\ request \in Request
        /\ op \in {"byte", "last"} => Len(pattern) = 1
    BY FindAssumption DEF TypeOK, op, pattern
  <1>2. /\ op \in Ops /\ text \in Seq(Byte) /\ pattern \in Seq(Byte)
        /\ targets \subseteq Byte
    BY <1>1 DEF Request, op, text, pattern, targets
  <1>3. Len(text) \in Nat /\ Len(pattern) \in Nat
    BY <1>2
  <1>4. Width \in Nat \ {0}
    BY <1>1 DEF Width, TypeOK
  <1> QED
    BY <1>1, <1>2, <1>3, <1>4 DEF Limit, TypeOK

(* The tables of bits stand for the set of bytes they were prepared from,  *)
(* both for the lookup of a vector and for that of a single byte.          *)
LEMMA MasksAreSets ==
  ASSUME TypeOK, NEW b \in Byte
  PROVE  /\ InMask(b) <=> b \in targets
         /\ TailInMask(b) <=> b \in targets
  <1> DEFINE low == b % Nibble
             high == b \div Nibble
  <1>1. Half \in Nat \ {0} /\ Nibble \in Nat \ {0} /\ Nibble = 2 * Half
    BY CallTypes DEF Nibble
  <1>2. b \in Nat /\ b < Nibble * Nibble
    BY <1>1 DEF Byte
  <1>3. /\ low \in 0..(Nibble - 1) /\ high \in Int
        /\ b = high * Nibble + low
    BY <1>1, <1>2, SMTT(30)
  <1>4. high \in Nat /\ high < 2 * Half
    <2>1. high >= 0
      BY <1>1, <1>2, <1>3, SMTT(30)
    <2>2. high < Nibble
      BY <1>1, <1>2, <1>3, SMTT(30)
    <2> QED
      BY <1>1, <1>3, <2>1, <2>2
  <1> HIDE DEF low, high
  <1>5. ASSUME NEW half \in {0, 1}, NEW bit \in 0..(Half - 1), high = half * Half + bit
        PROVE  bit \in LowTable(half, low) <=> b \in targets
    BY <1>1, <1>3, <1>5 DEF LowTable
  <1>6. InMask(b) <=> b \in targets
    <2>1. InMask(b) <=> \E half \in {0, 1} : \E bit \in 0..(Half - 1) :
                          high = half * Half + bit /\ bit \in LowTable(half, low)
      BY DEF InMask, LowTable, HighTable, low, high
    <2>2. ASSUME b \in targets
          PROVE  \E half \in {0, 1} : \E bit \in 0..(Half - 1) :
                   high = half * Half + bit /\ bit \in LowTable(half, low)
      <3>1. CASE high < Half
        <4>1. high \in 0..(Half - 1) /\ high = 0 * Half + high
          BY <1>1, <1>4, <3>1
        <4> QED
          BY <1>5, <2>2, <4>1
      <3>2. CASE high >= Half
        <4>1. high - Half \in 0..(Half - 1) /\ high = 1 * Half + (high - Half)
          BY <1>1, <1>4, <3>2
        <4> QED
          BY <1>5, <2>2, <4>1
      <3> QED
        BY <1>1, <1>4, <3>1, <3>2
    <2> QED
      BY <1>5, <2>1, <2>2
  <1>7. TailInMask(b) <=> b \in targets
    <2>1. TailInMask(b) <=> IF high < Half THEN high \in LowTable(0, low)
                                           ELSE high - Half \in LowTable(1, low)
      BY DEF TailInMask, low, high
    <2>2. CASE high < Half
      <3>1. high \in 0..(Half - 1) /\ high = 0 * Half + high
        BY <1>1, <1>4, <2>2
      <3> QED
        BY <1>5, <2>1, <2>2, <3>1
    <2>3. CASE ~(high < Half)
      <3>1. high - Half \in 0..(Half - 1) /\ high = 1 * Half + (high - Half)
        BY <1>1, <1>4, <2>3
      <3> QED
        BY <1>5, <2>1, <2>3, <3>1
    <2> QED
      BY <2>2, <2>3
  <1> QED
    BY <1>6, <1>7

(* At a position the search may look at, the vectors and the loop over the *)
(* bytes left over both find what occurs there.                            *)
LEMMA HitsAreOccurrences ==
  ASSUME TypeOK, ~NothingToFind, NEW p \in Nat, p < Limit
  PROVE  /\ VectorHit(p) <=> Occurs(p)
         /\ ByteHit(p) <=> Occurs(p)
  <1>1. /\ op \in Ops /\ text \in Seq(Byte) /\ pattern \in Seq(Byte)
        /\ Len(text) \in Nat /\ Len(pattern) \in Nat
    BY CallTypes
  <1>2. op = "pattern" => Len(pattern) >= 1
    BY <1>1 DEF NothingToFind
  <1>3. p \in 0..(Len(text) - 1) /\ (op = "pattern" => p + Len(pattern) <= Len(text))
    BY <1>1, <1>2 DEF Limit
  <1>4. At(p) \in Byte
    BY <1>1, <1>3 DEF At
  <1>5. /\ InMask(At(p)) <=> At(p) \in targets
        /\ TailInMask(At(p)) <=> At(p) \in targets
    BY <1>4, MasksAreSets
  <1>6. ASSUME op = "pattern"
        PROVE  PatternAt(p) <=> \A k \in 1..Len(pattern) : text[p + k] = pattern[k]
    <2>1. Len(pattern) \in Nat \ {0}
      BY <1>1, <1>2, <1>6
    <2>2. \A k \in 1..Len(pattern) :
            k = 1 \/ k = Len(pattern) \/ k \in 2..(Len(pattern) - 1)
      BY <2>1
    <2>3. 1 \in 1..Len(pattern) /\ Len(pattern) \in 1..Len(pattern)
      BY <2>1
    <2>4. 2..(Len(pattern) - 1) \subseteq 1..Len(pattern)
      BY <2>1
    <2> QED
      BY <2>2, <2>3, <2>4 DEF PatternAt, Verified, At
  <1>7. op = "pattern" => pattern # <<>>
    BY <1>2
  <1> QED
    BY <1>1, <1>3, <1>5, <1>6, <1>7 DEF VectorHit, ByteHit, Occurs, Ops

(* Nothing occurs from Limit on, and nothing at all when the call returns  *)
(* at once.                                                                *)
LEMMA OccursBelowLimit ==
  ASSUME TypeOK, NEW p \in 0..(Len(text) - 1), Occurs(p)
  PROVE  p < Limit /\ ~NothingToFind
  <1>1. Len(text) \in Nat /\ Len(pattern) \in Nat /\ pattern \in Seq(Byte) /\ text \in Seq(Byte)
    BY CallTypes
  <1>2. text # <<>>
    BY <1>1
  <1>3. CASE op = "pattern"
    BY <1>1, <1>2, <1>3 DEF Occurs, Limit, NothingToFind
  <1>4. CASE op = "any"
    BY <1>1, <1>2, <1>4 DEF Occurs, Limit, NothingToFind
  <1>5. CASE op \notin {"pattern", "any"}
    BY <1>1, <1>2, <1>5 DEF Occurs, Limit, NothingToFind
  <1> QED
    BY <1>3, <1>4, <1>5

(* The next call is the same call.                                         *)
LEMMA SameCall ==
  ASSUME UNCHANGED <<kernel, request>>
  PROVE  /\ Forward' = Forward /\ Limit' = Limit /\ NothingToFind' = NothingToFind
         /\ text' = text /\ \A p : Occurs(p)' = Occurs(p)
  <1>1. op' = op /\ text' = text /\ pattern' = pattern /\ targets' = targets
    BY DEF op, text, pattern, targets
  <1> QED
    BY <1>1 DEF Forward, Limit, NothingToFind, Occurs, At

(* The positions looked at are positions of the text.                      *)
LEMMA AheadIsInside ==
  ASSUME IInv, pc \in {"steps", "vectors", "bytes"}, NEW n \in Nat \ {0}, HasRoom(n)
  PROVE  \A p \in Ahead(n) : p \in Nat /\ p < Limit
  <1>1. /\ offset \in Int /\ 0 <= offset /\ offset <= Limit /\ Limit \in Int
        /\ Len(text) \in Nat
    BY CallTypes DEF IInv, InvOffset
  <1>2. ~Forward => Limit = Len(text)
    BY DEF Forward, Limit
  <1> QED
    BY <1>1, <1>2 DEF Ahead, HasRoom

(* Looking at the next n positions either finds the first occurrence among *)
(* them, and so of all, or moves past them.                                *)
LEMMA LookKeepsIInv ==
  ASSUME IInv, pc \in {"steps", "vectors", "bytes"},
         NEW n \in Nat \ {0}, HasRoom(n),
         pc # "bytes" /\ ~Forward => \E k \in Int : n = k * W,
         Look(n, {p \in Ahead(n) : Occurs(p)})
  PROVE  IInv'
  <1> DEFINE hits == {p \in Ahead(n) : Occurs(p)}
  <1>1. /\ TypeOK /\ ~NothingToFind /\ ~found
        /\ offset \in Int /\ 0 <= offset /\ offset <= Limit /\ Limit \in Int
        /\ W \in Nat \ {0} /\ text \in Seq(Byte) /\ Len(text) \in Nat
        /\ Limit <= Len(text)
    <2>1. Limit <= Len(text)
      <3>1. Len(pattern) \in Nat /\ pattern \in Seq(Byte) /\ Len(text) \in Nat
        BY CallTypes DEF IInv
      <3>2. op = "pattern" => Len(pattern) >= 1
        BY <3>1 DEF IInv, InvOffset, NothingToFind
      <3> QED
        BY <3>1, <3>2 DEF Limit
    <2> QED
      BY <2>1, CallTypes DEF IInv, InvOffset
  <1>2. ~Forward => Limit = Len(text)
    BY DEF Forward, Limit
  <1>3. \A p \in Ahead(n) : p \in Nat /\ p < Limit
    BY AheadIsInside
  <1>4. \A p \in Ahead(n) : p \in 0..(Len(text) - 1)
    BY <1>1, <1>3
  <1>5. /\ UNCHANGED <<kernel, request>>
        /\ hits = {} => Pass(n) /\ pc' = pc
        /\ hits # {} => FoundIn(hits)
    BY DEF Look, Goto, FoundIn
  <1>6. /\ Forward' = Forward /\ Limit' = Limit /\ NothingToFind' = NothingToFind
        /\ text' = text /\ \A p : Occurs(p)' = Occurs(p)
    BY <1>5, SameCall
  <1>7. \A p \in 0..(Len(text) - 1) : Occurs(p) => p < Limit
    BY <1>1, OccursBelowLimit
  <1>8. \A p \in 0..(Len(text) - 1) :
          Occurs(p) => IF Forward THEN offset <= p ELSE p < offset
    BY DEF IInv, InvSeen
  <1>9. \A p \in 0..(Len(text) - 1) : Occurs(p) /\ p \in Ahead(n) => p \in hits
    BY <1>3
  <1>10. CASE hits = {}
    <2>1. /\ pc' = pc /\ found' = found /\ out' = out
          /\ offset' = IF Forward THEN offset + n ELSE offset - n
      BY <1>5, <1>10 DEF Pass
    <2>2. offset' \in Int /\ offset' >= 0 /\ offset' <= Limit
      BY <1>1, <1>2, <2>1 DEF HasRoom
    <2>3. TypeOK'
      BY <1>1, <1>5, <2>1, <2>2 DEF TypeOK
    <2>4. pc \in {"steps", "vectors"} /\ ~Forward => \E k \in Int : offset' = k * W
      <3>1. SUFFICES ASSUME pc \in {"steps", "vectors"}, ~Forward
                     PROVE  \E k \in Int : offset' = k * W
        OBVIOUS
      <3>2. PICK j \in Int : n = j * W
        BY <3>1
      <3>3. PICK k \in Int : offset = k * W
        BY <3>1 DEF IInv, InvOffset
      <3>4. offset' = (k - j) * W /\ k - j \in Int
        BY <1>1, <2>1, <3>1, <3>2, <3>3
      <3> QED
        BY <3>4
    <2>5. InvOffset'
      BY <1>1, <1>6, <2>1, <2>2, <2>4 DEF InvOffset
    <2>6. ASSUME NEW p \in 0..(Len(text) - 1), Occurs(p)
          PROVE  IF Forward THEN offset' <= p ELSE p < offset'
      <3>1. p \notin Ahead(n)
        BY <1>9, <1>10, <2>6
      <3> QED
        BY <1>1, <1>8, <2>1, <2>6, <3>1 DEF Ahead
    <2>7. InvSeen'
      BY <1>6, <2>6 DEF InvSeen
    <2> QED
      BY <2>1, <2>3, <2>5, <2>7 DEF IInv, FirstFound
  <1>11. CASE hits # {}
    <2>1. /\ found' = TRUE /\ pc' = "done" /\ offset' = offset
          /\ out' \in hits
          /\ \A p \in hits : IF Forward THEN out' <= p ELSE p <= out'
      BY <1>5, <1>11 DEF FoundIn, Goto
    <2>2. out' \in Ahead(n) /\ out' \in Int /\ Occurs(out')
      BY <1>1, <1>3, <2>1
    <2>3. ASSUME NEW p \in 0..(Len(text) - 1), Occurs(p)
          PROVE  IF Forward THEN out' <= p ELSE p <= out'
      <3>1. CASE p \in Ahead(n)
        BY <1>9, <2>1, <2>3, <3>1
      <3>2. CASE p \notin Ahead(n)
        <4>1. IF Forward THEN p >= offset + n ELSE p < offset - n
          BY <1>1, <1>8, <2>3, <3>2 DEF Ahead
        <4>2. IF Forward THEN out' < offset + n ELSE out' >= offset - n
          BY <1>1, <2>2 DEF Ahead
        <4> QED
          BY <1>1, <2>2, <4>1, <4>2
      <3> QED
        BY <3>1, <3>2
    <2>4. TypeOK'
      BY <1>1, <1>5, <2>1, <2>2 DEF TypeOK
    <2>5. FirstFound'
      BY <1>6, <2>1, <2>2, <2>3 DEF FirstFound
    <2> QED
      BY <2>1, <2>4, <2>5 DEF IInv, InvOffset, InvSeen
  <1> QED
    BY <1>10, <1>11

(* A step that only goes on to the next phase.                             *)
LEMMA GoOn ==
  ASSUME IInv, pc \in {"steps", "vectors", "bytes"},
         UNCHANGED <<kernel, request, offset, found, out>>,
         pc' \in {"steps", "vectors", "bytes"},
         pc' # "bytes" /\ ~Forward => \E k \in Int : offset = k * W
  PROVE  IInv'
  <1>1. /\ Forward' = Forward /\ Limit' = Limit /\ NothingToFind' = NothingToFind
        /\ text' = text /\ \A p : Occurs(p)' = Occurs(p)
    BY SameCall
  <1>2. TypeOK'
    BY DEF IInv, TypeOK
  <1>3. InvOffset'
    BY <1>1 DEF IInv, InvOffset
  <1>4. InvSeen'
    BY <1>1 DEF IInv, InvSeen
  <1> QED
    BY <1>2, <1>3, <1>4 DEF IInv, FirstFound

(* A step that ends the call because all positions have been looked at.    *)
LEMMA GiveUp ==
  ASSUME IInv, UNCHANGED <<kernel, request, offset, found, out>>, pc # "done", pc' = "done",
         \A p \in 0..(Len(text) - 1) : ~Occurs(p)
  PROVE  IInv'
  <1>1. /\ Forward' = Forward /\ text' = text /\ \A p : Occurs(p)' = Occurs(p)
    BY SameCall
  <1>2. TypeOK'
    BY DEF IInv, TypeOK
  <1>3. FirstFound'
    BY <1>1 DEF IInv, InvOffset, FirstFound
  <1> QED
    BY <1>2, <1>3 DEF IInv, InvOffset, InvSeen

(* The invariant holds before the call.                                    *)
LEMMA InitIInv == Init => IInv
  <1> SUFFICES ASSUME Init PROVE IInv
    OBVIOUS
  <1>1. TypeOK
    <2>1. offset \in Int /\ out \in Int /\ found \in BOOLEAN
      <3>1. offset \in Int /\ out \in Int
        BY DEF Init
      <3>2. found \in BOOLEAN
        BY Zenon DEF Init
      <3> QED
        BY <3>1, <3>2
    <2>2. kernel \in {W, 2 * W} /\ request \in Requests
      BY DEF Init
    <2>3. pc \in {"start", "steps", "vectors", "bytes", "done"}
      BY DEF Init
    <2> QED
      BY <2>1, <2>2, <2>3, Zenon DEF TypeOK
  <1>2. pc = "start" /\ found = FALSE /\ offset = 0
    BY DEF Init
  <1> QED
    BY <1>1, <1>2 DEF IInv, InvOffset, InvSeen, FirstFound

(* Every step preserves the invariant.                                     *)
LEMMA NextIInv == IInv /\ [Next]_vars => IInv'
  <1> SUFFICES ASSUME IInv, [Next]_vars PROVE IInv'
    OBVIOUS
  <1>1. /\ TypeOK
        /\ W \in Nat \ {0} /\ Vectors \in Nat \ {0} /\ Width \in Nat \ {0}
        /\ Len(text) \in Nat /\ Len(pattern) \in Nat /\ Limit \in Int /\ offset \in Int
        /\ text \in Seq(Byte) /\ pattern \in Seq(Byte)
    BY CallTypes DEF IInv
  <1>2. ~Forward => Width = W /\ Limit = Len(text)
    BY DEF Forward, Width, Limit
  <1>3. \A p \in 0..(Len(text) - 1) : Occurs(p) => p < Limit /\ ~NothingToFind
    BY <1>1, OccursBelowLimit
  <1>4. pc \in {"steps", "vectors", "bytes"} =>
          \A p \in Nat : p < Limit =>
             (VectorHit(p) <=> Occurs(p)) /\ (ByteHit(p) <=> Occurs(p))
    BY <1>1, HitsAreOccurrences DEF IInv, InvOffset
  <1>5. CASE Refuse
    BY <1>3, <1>5, GiveUp DEF Refuse, Goto
  <1>6. CASE Begin
    <2>1. /\ pc = "start" /\ ~NothingToFind /\ ~found
          /\ UNCHANGED <<kernel, request, found, out>>
          /\ offset' = IF Forward THEN 0 ELSE Len(text)
          /\ pc' \in {"steps", "vectors", "bytes"}
          /\ ~Forward => pc' = "bytes"
      BY <1>6 DEF Begin, Goto, IInv, InvOffset, Forward
    <2>2. /\ Forward' = Forward /\ Limit' = Limit /\ NothingToFind' = NothingToFind
          /\ text' = text /\ \A p : Occurs(p)' = Occurs(p)
      BY <2>1, SameCall
    <2>3. Limit >= 0
      <3>1. CASE op = "pattern"
        BY <1>1, <2>1, <3>1 DEF Limit, NothingToFind
      <3>2. CASE op # "pattern"
        BY <1>1, <3>2 DEF Limit
      <3> QED
        BY <3>1, <3>2
    <2>4. offset' \in Int /\ offset' >= 0 /\ offset' <= Limit
      BY <1>1, <1>2, <2>1, <2>3
    <2>5. TypeOK'
      BY <1>1, <2>1, <2>4 DEF TypeOK
    <2>6. InvOffset'
      BY <2>1, <2>2, <2>4 DEF InvOffset
    <2>7. InvSeen'
      BY <1>1, <2>1, <2>2 DEF InvSeen
    <2> QED
      BY <2>1, <2>5, <2>6, <2>7 DEF IInv, FirstFound
  <1>7. CASE LookAtStep
    <2>1. pc = "steps" /\ HasRoom(StepBytes)
          /\ Look(StepBytes, {p \in Ahead(StepBytes) : VectorHit(p)})
      BY <1>7 DEF LookAtStep
    <2>2. StepBytes \in Nat \ {0}
      BY <1>1 DEF StepBytes
    <2>3. ~Forward => StepBytes = Vectors * W /\ Vectors \in Int
      BY <1>1, <1>2 DEF StepBytes
    <2>4. \A p \in Ahead(StepBytes) : p \in Nat /\ p < Limit
      BY <2>1, <2>2, AheadIsInside
    <2>5. Look(StepBytes, {p \in Ahead(StepBytes) : Occurs(p)})
      <3>1. {p \in Ahead(StepBytes) : VectorHit(p)} = {p \in Ahead(StepBytes) : Occurs(p)}
        BY <1>4, <2>1, <2>4
      <3> QED
        BY <2>1, <3>1
    <2> QED
      <3>1. ~Forward => \E k \in Int : StepBytes = k * W
        BY <2>3
      <3> QED
        BY <2>2, <2>1, <2>5, <3>1, LookKeepsIInv
  <1>8. CASE EndSteps
    BY <1>8, GoOn DEF EndSteps, Goto, IInv, InvOffset
  <1>9. CASE LookAtVector
    <2>1. pc = "vectors" /\ HasRoom(Width)
          /\ Look(Width, {p \in Ahead(Width) : VectorHit(p)})
      BY <1>9 DEF LookAtVector
    <2>2. ~Forward => Width = 1 * W
      BY <1>1, <1>2
    <2>4. \A p \in Ahead(Width) : p \in Nat /\ p < Limit
      BY <1>1, <2>1, AheadIsInside
    <2>5. Look(Width, {p \in Ahead(Width) : Occurs(p)})
      <3>1. {p \in Ahead(Width) : VectorHit(p)} = {p \in Ahead(Width) : Occurs(p)}
        BY <1>4, <2>1, <2>4
      <3> QED
        BY <2>1, <3>1
    <2> QED
      <3>1. ~Forward => \E k \in Int : Width = k * W
        BY <2>2
      <3> QED
        BY <1>1, <2>1, <2>5, <3>1, LookKeepsIInv
  <1>10. CASE EndVectors
    <2>1. CASE Forward
      BY <1>10, <2>1, GoOn DEF EndVectors, Goto
    <2>2. CASE ~Forward
      <3>1. PICK k \in Int : offset = k * W
        BY <1>10, <2>2 DEF EndVectors, IInv, InvOffset
      <3>2. offset >= 0 /\ offset < W
        BY <1>1, <1>2, <1>10, <2>2 DEF EndVectors, HasRoom, IInv, InvOffset
      <3>3. k = 0
        BY <1>1, <3>1, <3>2
      <3>4. offset = 0
        BY <1>1, <3>1, <3>3
      <3>5. \A p \in 0..(Len(text) - 1) : ~Occurs(p)
        BY <1>1, <1>10, <2>2, <3>4 DEF EndVectors, IInv, InvSeen
      <3> QED
        BY <1>10, <2>2, <3>5, GiveUp DEF EndVectors, Goto
    <2> QED
      BY <2>1, <2>2
  <1>11. CASE LookAtByte
    <2>1. pc = "bytes" /\ BytesLeft /\ Look(1, {p \in Ahead(1) : ByteHit(p)})
      BY <1>11 DEF LookAtByte
    <2>2. offset >= 0
      BY <2>1 DEF IInv, InvOffset
    <2>3. HasRoom(1)
      <3>1. 0 % W = 0
        BY <1>1
      <3> QED
        BY <1>1, <2>1, <2>2, <3>1 DEF HasRoom, BytesLeft
    <2>4. \A p \in Ahead(1) : p \in Nat /\ p < Limit
      BY <2>1, <2>3, AheadIsInside
    <2>5. Look(1, {p \in Ahead(1) : Occurs(p)})
      <3>1. {p \in Ahead(1) : ByteHit(p)} = {p \in Ahead(1) : Occurs(p)}
        BY <1>4, <2>1, <2>4
      <3> QED
        BY <2>1, <3>1
    <2> QED
      BY <2>3, <2>1, <2>5, LookKeepsIInv
  <1>12. CASE EndBytes
    <2>1. CASE Forward
      <3>1. offset = Limit
        BY <1>1, <1>12, <2>1 DEF EndBytes, BytesLeft, IInv, InvOffset
      <3>2. \A p \in 0..(Len(text) - 1) : ~Occurs(p)
        BY <1>1, <1>3, <1>12, <2>1, <3>1 DEF EndBytes, IInv, InvSeen
      <3> QED
        BY <1>12, <2>1, <3>2, GiveUp DEF EndBytes, Goto
    <2>2. CASE ~Forward
      <3>1. offset % W = 0
        BY <1>12, <2>2 DEF EndBytes, BytesLeft
      <3>2. offset = (offset \div W) * W /\ offset \div W \in Int
        BY <1>1, <3>1
      <3> QED
        BY <1>12, <2>2, <3>2, GoOn DEF EndBytes, Goto
    <2> QED
      BY <2>1, <2>2
  <1>13. CASE UNCHANGED vars
    <2>1. /\ Forward' = Forward /\ Limit' = Limit /\ NothingToFind' = NothingToFind
          /\ text' = text /\ \A p : Occurs(p)' = Occurs(p)
      BY <1>13, SameCall DEF vars
    <2>2. pc' = pc /\ offset' = offset /\ found' = found /\ out' = out
          /\ kernel' = kernel /\ request' = request
      BY <1>13 DEF vars
    <2>3. TypeOK' /\ InvOffset' /\ InvSeen' /\ FirstFound'
      BY <2>1, <2>2 DEF IInv, TypeOK, InvOffset, InvSeen, FirstFound
    <2> QED
      BY <2>3 DEF IInv
  <1> QED
    BY <1>5, <1>6, <1>7, <1>8, <1>9, <1>10, <1>11, <1>12, <1>13 DEF Next

(* The inductive invariant: nothing occurs where the search has been.      *)
THEOREM Inductive == Spec => []IInv
  BY InitIInv, NextIInv, PTL DEF Spec

(* Every search returns the first, or the last, occurrence, and false only *)
(* if there is none, for every text, pattern, set and vector width.        *)
THEOREM FirstIsFound == Spec => []FirstFound
  <1>1. IInv => FirstFound
    BY DEF IInv
  <1> QED
    BY Inductive, <1>1, PTL

-----------------------------------------------------------------------------
(* The calls that keep no state: a step of one function is no step of the  *)
(* others, and what follows on a call is one of its own kind.              *)

(* The functions of the modules without sets of their own for them.        *)
NumberFormats == {"unsigned", "signed", "hex", "hex_padded", "double", "human", "duration", "escape"}
Times         == OfTime \cup OfCount \cup Readings

LEMMA CodecsApart ==
  ASSUME CodecNext
  PROVE  /\ call.op \in Encodes \cup Decodes
         /\ call' = call \/ ("op" \in DOMAIN call' /\ call'.op \in Decodes)
  <1> USE DEF Pending, Returned, Go, Return, CallNext, Encodes, Decodes
  <1>1. ASSUME EncodeRefused \/ EncodeGroup \/ EncodeEnd
        PROVE  call.op \in Encodes \cup Decodes /\ call' = call
    BY <1>1 DEF EncodeRefused, EncodeGroup, EncodeEnd
  <1>2. ASSUME DecodeRefused \/ DecodeGroup \/ DecodeEnd
        PROVE  call.op \in Encodes \cup Decodes /\ call' = call
    BY <1>2 DEF DecodeRefused, DecodeGroup, DecodeEnd
  <1>3. CASE DecodeEncoded
    BY <1>3 DEF DecodeEncoded
  <1> QED
    BY <1>1, <1>2, <1>3 DEF CodecNext

LEMMA DumpsApart ==
  ASSUME DumpNext
  PROVE  call.op \in Dumps /\ call' = call
  BY DEF DumpNext, DumpRefused, DumpLine, DumpEnd, Pending, Go, Return

LEMMA NumbersApart ==
  ASSUME NumberNext
  PROVE  /\ call.op \in NumberFormats \cup Parses
         /\ call' = call \/ ("op" \in DOMAIN call' /\ call'.op \in Parses)
  <1> USE DEF Pending, Returned, Go, Return, CallNext, Write, Failed, NumberFormats, Parses
  <1>1. ASSUME FormatUnsigned \/ FormatHex \/ FormatHexPadded \/ FormatSigned
        PROVE  call.op \in NumberFormats \cup Parses /\ call' = call
    BY <1>1 DEF FormatUnsigned, FormatHex, FormatHexPadded, FormatSigned
  <1>2. ASSUME FormatDouble
        PROVE  call.op \in NumberFormats \cup Parses /\ call' = call
    BY <1>2 DEF FormatDouble, WriteDouble
  <1>3. ASSUME FormatHuman \/ FormatDuration
        PROVE  call.op \in NumberFormats \cup Parses /\ call' = call
    BY <1>3 DEF FormatHuman, FormatDuration, WriteDouble
  <1>6. ASSUME FormatEscape
        PROVE  call.op \in NumberFormats \cup Parses /\ call' = call
    BY <1>6 DEF FormatEscape
  <1>4. ASSUME ParseNothing \/ ParseDigit \/ ParseUnsignedEnd \/ ParseSignedEnd
        PROVE  call.op \in NumberFormats \cup Parses /\ call' = call
    BY <1>4 DEF ParseNothing, ParseDigit, ParseUnsignedEnd, ParseSignedEnd
  <1>5. CASE ParseFormatted
    BY <1>5 DEF ParseFormatted
  <1> QED
    BY <1>1, <1>2, <1>3, <1>4, <1>5, <1>6 DEF NumberNext

LEMMA TimesApart ==
  ASSUME TimeNext, "op" \in DOMAIN call
  PROVE  /\ call.op \in Times
         /\ "op" \in DOMAIN call' /\ call'.op \in Times
  <1> USE DEF Pending, Returned, Go, Return, CallNext, Times, OfTime, OfCount, Pairwise, Formats, Sleeps, Readings
  <1> DEFINE Apart == /\ call.op \in Times
                      /\ call' = call
  <1>1. ASSUME Normalize \/ Add \/ Subtract \/ Compare PROVE Apart
    BY <1>1 DEF Normalize, Add, Subtract, Compare
  <1>2. ASSUME ToNanoseconds \/ ToMilliseconds \/ FromNanoseconds \/ FromMilliseconds PROVE Apart
    BY <1>2 DEF ToNanoseconds, ToMilliseconds, ToUnits, FromNanoseconds, FromMilliseconds
  <1>3. ASSUME StartSleep \/ SleepWhole \/ SleepFailed PROVE Apart
    BY <1>3 DEF StartSleep, SleepWhole, SleepFailed, Asleep
  <1>4. ASSUME FormatIso \/ FormatUtc \/ FormatLocal PROVE Apart
    BY <1>4 DEF FormatIso, FormatUtc, FormatLocal, Formatted
  <1>5. ASSUME ParseIso \/ ParseUtc PROVE Apart
    BY <1>5 DEF ParseIso, ParseUtc, Parsed
  <1>6. CASE SleepInterrupted
    BY <1>6 DEF SleepInterrupted, Asleep
  <1>7. CASE ParseFormattedTime
    BY <1>7 DEF ParseFormattedTime
  <1> QED
    BY <1>1, <1>2, <1>3, <1>4, <1>5, <1>6, <1>7 DEF TimeNext

LEMMA GlobsApart ==
  ASSUME GlobMatch
  PROVE  call.op \in Globs /\ call' = call
  BY DEF GlobMatch, Pending, Return

LEMMA CrcsApart ==
  ASSUME CrcNext, "op" \in DOMAIN call
  PROVE  call.op \in Crcs /\ "op" \in DOMAIN call' /\ call'.op \in Crcs
  <1> USE DEF Pending, Returned, Go, Return, CallNext, Crcs
  <1>1. ASSUME CrcOfNothing \/ CrcUnsupported \/ PclmulStep \/ Sse42Step \/ CrcEnd
        PROVE  call.op \in Crcs /\ call' = call
    BY <1>1 DEF CrcOfNothing, CrcUnsupported, PclmulStep, Sse42Step, CrcEnd
  <1>2. CASE CrcNextPiece
    BY <1>2 DEF CrcNextPiece
  <1> QED
    BY <1>1, <1>2 DEF CrcNext

LEMMA ScansApart ==
  ASSUME ScanNext
  PROVE  call.op \in Scans /\ call' = call
  <1> USE DEF Pending, Go, Return, Scans, InPlace
  <1>1. ASSUME RefuseLengths \/ CompareStep \/ CompareEnd PROVE call.op \in Scans /\ call' = call
    BY <1>1 DEF RefuseLengths, CompareStep, CompareEnd, Verdict
  <1>2. ASSUME LengthStep \/ SwapStep \/ LowercaseStep \/ InPlaceEnd
        PROVE  call.op \in Scans /\ call' = call
    BY <1>2 DEF LengthStep, SwapStep, LowercaseStep, InPlaceEnd
  <1> QED
    BY <1>1, <1>2 DEF ScanNext

-----------------------------------------------------------------------------
(* Numbers.                                                                *)

(* A set of numbers that is not empty has a least one.                     *)
LEMMA LeastNat ==
  ASSUME NEW T \in SUBSET Nat, T # {}
  PROVE  \E x \in T : \A y \in T : x <= y
  <1> DEFINE Less == {p \in Nat \X Nat : p[1] < p[2]}
  <1>1. IsWellFoundedOn(Less, Nat)
    BY NatLessThanWellFounded DEF OpToRel
  <1>2. \E x \in T : \A y \in T : ~ (<<y, x>> \in Less)
    <2> HIDE DEF Less
    <2> QED
      BY <1>1, WFMin
  <1>3. PICK x \in T : \A y \in T : <<y, x>> \notin Less
    BY <1>2
  <1>4. ASSUME NEW y \in T PROVE x <= y
    <2>1. <<y, x>> \notin Less
      BY <1>3
    <2> QED
      BY <2>1
  <1> QED
    BY <1>4

LEMMA MinIs ==
  ASSUME NEW T \in SUBSET Int, NEW x \in T, \A y \in T : x <= y
  PROVE  Min(T) = x
  <1>1. \A z \in T : (\A y \in T : z <= y) => z = x
    BY Z3
  <1> QED
    BY <1>1 DEF Min

LEMMA MinOf ==
  ASSUME NEW T \in SUBSET Nat, T # {}
  PROVE  Min(T) \in T /\ \A y \in T : Min(T) <= y
  BY LeastNat DEF Min

LEMMA ProductGrows ==
  ASSUME NEW a \in Nat, NEW b \in Nat, NEW c \in Nat, a <= b
  PROVE  a * c \in Nat /\ b * c \in Nat /\ a * c <= b * c
  <1>1. PICK d \in Nat : b = a + d
    <2>1. b - a \in Nat /\ b = a + (b - a)
      OBVIOUS
    <2> QED
      BY <2>1
  <1>2. b * c = a * c + d * c /\ d * c \in Nat /\ a * c \in Nat
    BY <1>1
  <1> QED
    BY <1>2

(* The quotient is where the number lies.                                  *)
LEMMA QuotientIs ==
  ASSUME NEW x \in Nat, NEW b \in Nat \ {0}, NEW q \in Nat, q * b <= x, x < (q + 1) * b
  PROVE  x \div b = q
  <1> DEFINE d == x \div b
  <1>1. d \in Nat /\ d * b <= x /\ x < (d + 1) * b
    OBVIOUS
  <1> HIDE DEF d
  <1>2. CASE d + 1 <= q
    BY <1>1, <1>2, ProductGrows
  <1>3. CASE q + 1 <= d
    BY <1>1, <1>3, ProductGrows
  <1> QED
    BY <1>1, <1>2, <1>3 DEF d

LEMMA QuotientGrows ==
  ASSUME NEW x \in Nat, NEW y \in Nat, NEW b \in Nat \ {0}, x <= y
  PROVE  x \div b \in Nat /\ y \div b \in Nat /\ x \div b <= y \div b
  <1> DEFINE c == x \div b
             d == y \div b
  <1>1. c \in Nat /\ d \in Nat /\ c * b <= x /\ y < (d + 1) * b
    OBVIOUS
  <1> HIDE DEF c, d
  <1>2. CASE d + 1 <= c
    BY <1>1, <1>2, ProductGrows
  <1> QED
    BY <1>1, <1>2 DEF c, d

LEMMA Division ==
  ASSUME NEW x \in Nat, NEW b \in Nat \ {0}
  PROVE  /\ x \div b \in Nat /\ x % b \in Nat /\ x % b < b
         /\ x = (x \div b) * b + (x % b)
  OBVIOUS

LEMMA RoundedDown ==
  ASSUME NEW x \in Nat, NEW b \in Nat \ {0}
  PROVE  /\ x - (x % b) \in Nat /\ x - (x % b) = (x \div b) * b
         /\ x - (x % b) <= x /\ x < (x - (x % b)) + b
  <1> DEFINE q == x \div b
             m == x % b
  <1>1. q \in Nat /\ m \in Nat /\ m < b /\ x = q * b + m
    BY Division
  <1> HIDE DEF q, m
  <1>2. x - m = q * b /\ x - m \in Nat /\ x - m <= x /\ x < (x - m) + b
    BY <1>1
  <1> QED
    BY <1>2 DEF q, m

LEMMA MultipleIs ==
  ASSUME NEW x \in Nat, NEW b \in Nat \ {0}
  PROVE  x % b = 0 <=> \E k \in Nat : x = k * b
  <1>1. ASSUME x % b = 0 PROVE x \div b \in Nat /\ x = (x \div b) * b
    BY <1>1
  <1>2. ASSUME NEW k \in Nat, x = k * b PROVE x % b = 0
    <2>1. x \div b = k
      BY <1>2, QuotientIs
    <2> QED
      BY <1>2, <2>1
  <1> QED
    BY <1>1, <1>2

LEMMA MultiplesAdd ==
  ASSUME NEW x \in Nat, NEW y \in Nat, NEW b \in Nat \ {0}, x % b = 0, y % b = 0
  PROVE  (x + y) % b = 0
  <1>1. PICK k \in Nat : x = k * b
    BY MultipleIs
  <1>2. PICK n \in Nat : y = n * b
    BY MultipleIs
  <1>3. x + y = (k + n) * b /\ k + n \in Nat /\ x + y \in Nat
    BY <1>1, <1>2
  <1> QED
    BY <1>3, MultipleIs

(* A step that begins at a multiple of its length stays in a page that     *)
(* holds whole steps.                                                      *)
LEMMA StepsStayInPages ==
  ASSUME NEW p \in Nat, NEW b \in Nat \ {0}, p % b = 0,
         NEW x \in Nat, p <= x, x < p + b,
         NEW page \in Nat \ {0}, page % b = 0
  PROVE  x \div page = p \div page
  <1> DEFINE q == p \div page
  <1>2. q \in Nat /\ q * page <= p /\ p < (q + 1) * page
    <2>1. ASSUME NEW y \in Nat, NEW d \in Nat \ {0}
          PROVE  y \div d \in Nat /\ (y \div d) * d <= y /\ y < (y \div d + 1) * d
      BY ONLY <2>1
    <2> QED
      BY ONLY p \in Nat, page \in Nat \ {0}, <2>1 DEF q
  <1>1. PICK n \in Nat : page = n * b
    BY MultipleIs
  <1>3. PICK k \in Nat : p = k * b
    BY MultipleIs
  <1> HIDE DEF q
  <1>4. (q + 1) * page = ((q + 1) * n) * b /\ (q + 1) * n \in Nat
    BY <1>1, <1>2
  <1>5. k + 1 <= (q + 1) * n
    <2> DEFINE c == (q + 1) * n
    <2>1. c \in Nat /\ k * b < c * b
      BY <1>2, <1>3, <1>4
    <2> HIDE DEF c
    <2>2. CASE c <= k
      BY <2>1, <2>2, ProductGrows
    <2> QED
      BY <2>1, <2>2 DEF c
  <1>6. (k + 1) * b <= ((q + 1) * n) * b
    BY <1>2, <1>4, <1>5, ProductGrows
  <1>7. x < (k + 1) * b
    BY <1>3
  <1>8. q * page <= x /\ x < (q + 1) * page
    <2>1. q * page \in Nat /\ (q + 1) * page \in Nat /\ (k + 1) * b \in Nat
      BY <1>2
    <2> QED
      BY <1>2, <1>4, <1>6, <1>7, <2>1
  <1>9. x \div page = q
    BY <1>2, <1>8, QuotientIs
  <1> QED
    BY <1>9 DEF q

-----------------------------------------------------------------------------
(* Comparisons.                                                            *)
Bytes8 == 0..255

LEMMA StringTypes ==
  ASSUME NEW s \in Seq(Bytes8)
  PROVE  CString(s) \in Seq(Bytes8)
  <1> DEFINE T == {n \in 0..Len(s) : n = Len(s) \/ s[n + 1] = 0}
  <1>1. T \in SUBSET Nat /\ Len(s) \in T
    OBVIOUS
  <1>2. Min(T) \in 0..Len(s)
    BY <1>1, MinOf
  <1> HIDE DEF T
  <1>3. SubSeq(s, 1, Min(T)) \in Seq(Bytes8)
    BY <1>2
  <1> QED
    BY <1>3 DEF CString, T

(* The parts compared, and what they are parts of.                         *)
LEMMA Regions ==
  ASSUME ScanCall(call), call.op \in Comparisons
  PROVE  /\ FullLeft \in Seq(Bytes8) /\ FullRight \in Seq(Bytes8) /\ Right = FullRight
         /\ Len(FullLeft) \in Nat /\ Len(FullRight) \in Nat
         /\ call.op \in {"compare", "equal"} => Len(FullLeft) = Len(FullRight)
  <1>1. /\ call.left \in Seq(Bytes8) /\ call.right \in Seq(Bytes8)
        /\ call.op \in {"compare", "equal"} => Len(call.left) = Len(call.right)
    BY DEF ScanCall, Bytes8, Scans, Comparisons
  <1>2. FullLeft \in Seq(Bytes8) /\ FullRight \in Seq(Bytes8)
    <2>1. CString(call.left) \in Seq(Bytes8) /\ CString(call.right) \in Seq(Bytes8)
      BY <1>1, StringTypes
    <2> QED
      BY <1>1, <2>1 DEF FullLeft, FullRight
  <1>3. call.op \in {"compare", "equal"} => FullLeft = call.left /\ FullRight = call.right
    BY DEF FullLeft, FullRight, IsCString
  <1> QED
    BY <1>1, <1>2, <1>3 DEF Right

(* Part of a sequence.                                                     *)
LEMMA PieceOf ==
  ASSUME NEW s \in Seq(Bytes8), NEW k \in Nat, NEW n \in Nat, k + n <= Len(s)
  PROVE  /\ SubSeq(s, k + 1, k + n) \in Seq(Bytes8)
         /\ Len(SubSeq(s, k + 1, k + n)) = n
         /\ \A p \in 1..n : SubSeq(s, k + 1, k + n)[p] = s[k + p]
  <1>1. \A i \in (k + 1)..(k + n) : s[i] \in Bytes8
    OBVIOUS
  <1>2. /\ SubSeq(s, k + 1, k + n) \in Seq(Bytes8)
        /\ Len(SubSeq(s, k + 1, k + n)) = IF k + 1 <= k + n THEN (k + n) - (k + 1) + 1 ELSE 0
        /\ \A i \in 1..((k + n) - (k + 1) + 1) : SubSeq(s, k + 1, k + n)[i] = s[(k + 1) + i - 1]
    BY <1>1, SubSeqProperties
  <1>3. (k + n) - (k + 1) + 1 = n /\ \A i \in 1..n : (k + 1) + i - 1 = k + i
    OBVIOUS
  <1> QED
    BY <1>2, <1>3

(* Where the left part lies.                                               *)
Shift0 == IF call.op = "ends_with" THEN Len(FullLeft) - Len(FullRight) ELSE 0

Least == Min({Len(FullLeft), Len(FullRight)})

LEMMA Parts ==
  ASSUME ScanCall(call), call.op \in Comparisons, ~LengthsDiffer
  PROVE  /\ Left \in Seq(Bytes8) /\ Right \in Seq(Bytes8)
         /\ Len(Left) \in Nat /\ Len(Left) <= Len(Right)
         /\ Shift0 \in Nat /\ Shift0 + Len(Left) <= Len(FullLeft)
         /\ \A p \in 1..Len(Left) : Left[p] = FullLeft[Shift0 + p]
         /\ call.op # "cstring_compare" => Len(Left) = Len(Right)
         /\ call.op \notin {"cstring_compare", "starts_with", "ends_with"} => Left = FullLeft
         /\ call.op = "cstring_compare" => Len(Left) = Least
  <1>1. /\ FullLeft \in Seq(Bytes8) /\ FullRight \in Seq(Bytes8) /\ Right = FullRight
        /\ Len(FullLeft) \in Nat /\ Len(FullRight) \in Nat
        /\ call.op \in {"compare", "equal"} => Len(FullLeft) = Len(FullRight)
    BY Regions
  <1>2. Least \in {Len(FullLeft), Len(FullRight)} /\ Least <= Len(FullLeft) /\ Least <= Len(FullRight)
    <2>1. {Len(FullLeft), Len(FullRight)} \in SUBSET Nat
      BY <1>1
    <2> QED
      BY <2>1, MinOf DEF Least
  <1>3. CASE call.op = "starts_with"
    <2>1. Len(FullRight) <= Len(FullLeft) /\ Left = SubSeq(FullLeft, 1, Len(FullRight)) /\ Shift0 = 0
      BY <1>1, <1>3 DEF LengthsDiffer, Left, Shift0
    <2>2. /\ Left \in Seq(Bytes8) /\ Len(Left) = Len(FullRight)
          /\ \A p \in 1..Len(FullRight) : Left[p] = FullLeft[0 + p]
      BY <1>1, <2>1, PieceOf
    <2> QED
      BY <1>1, <1>3, <2>1, <2>2
  <1>4. CASE call.op = "ends_with"
    <2>1. /\ Len(FullRight) <= Len(FullLeft)
          /\ Left = SubSeq(FullLeft, Len(FullLeft) - Len(FullRight) + 1, Len(FullLeft))
          /\ Shift0 = Len(FullLeft) - Len(FullRight)
      BY <1>1, <1>4 DEF LengthsDiffer, Left, Shift0
    <2>2. Left \in Seq(Bytes8) /\ Len(Left) = Len(FullRight)
          /\ \A p \in 1..Len(FullRight) : Left[p] = FullLeft[Len(FullLeft) - Len(FullRight) + p]
      <3> DEFINE k == Len(FullLeft) - Len(FullRight)
      <3>1. k \in Nat /\ k + Len(FullRight) = Len(FullLeft)
        BY <1>1, <2>1
      <3>2. Left = SubSeq(FullLeft, k + 1, k + Len(FullRight))
        BY <2>1, <3>1
      <3> HIDE DEF k
      <3>3. /\ Left \in Seq(Bytes8) /\ Len(Left) = Len(FullRight)
            /\ \A p \in 1..Len(FullRight) : Left[p] = FullLeft[k + p]
        BY <1>1, <3>1, <3>2, PieceOf
      <3> QED
        BY <3>3 DEF k
    <2> QED
      BY <1>1, <1>4, <2>1, <2>2
  <1>5. CASE call.op = "cstring_compare"
    <2>1. Left = SubSeq(FullLeft, 1, Least) /\ Shift0 = 0
      BY <1>1, <1>5 DEF Left, Shift0, Least
    <2>2. /\ Left \in Seq(Bytes8) /\ Len(Left) = Least
          /\ \A p \in 1..Least : Left[p] = FullLeft[0 + p]
      BY <1>1, <1>2, <2>1, PieceOf
    <2> QED
      BY <1>1, <1>2, <1>5, <2>1, <2>2
  <1>6. CASE call.op \in {"compare", "equal", "equal_ci", "cstring_equal"}
    <2>1. Left = FullLeft /\ Shift0 = 0
      BY <1>6 DEF Left, Shift0
    <2>2. Len(FullLeft) = Len(FullRight)
      BY <1>1, <1>6 DEF LengthsDiffer, Comparisons
    <2> QED
      BY <1>1, <1>6, <2>1, <2>2
  <1> QED
    BY <1>3, <1>4, <1>5, <1>6 DEF Comparisons

(* What a caller is told: the order of two regions, or whether it holds.   *)
Orders == {"compare", "cstring_compare"}

Answer ==
  IF call.op \in Orders THEN OrderOf(FullLeft, FullRight)
                        ELSE IF Holds(call.op, FullLeft, FullRight) THEN 1 ELSE 0

LEMMA RefusedAnswer ==
  ASSUME ScanCall(call), call.op \in Comparisons, LengthsDiffer
  PROVE  call.op \notin Orders /\ Answer = 0
  <1>1. /\ FullLeft \in Seq(Bytes8) /\ FullRight \in Seq(Bytes8)
        /\ Len(FullLeft) \in Nat /\ Len(FullRight) \in Nat
    BY Regions
  <1>2. call.op \in {"starts_with", "ends_with", "equal_ci", "cstring_equal"}
    BY DEF LengthsDiffer
  <1>3. ~Holds(call.op, FullLeft, FullRight)
    <2>1. CASE call.op \in {"starts_with", "ends_with"}
      <3>1. ~(Len(FullRight) <= Len(FullLeft))
        BY <1>1, <2>1 DEF LengthsDiffer
      <3> QED
        BY <2>1, <3>1 DEF Holds
    <2>2. CASE call.op \in {"equal_ci", "cstring_equal"}
      <3>1. Len(FullLeft) # Len(FullRight)
        BY <2>2 DEF LengthsDiffer
      <3> QED
        BY <2>2, <3>1 DEF Holds
    <2> QED
      BY <1>2, <2>1, <2>2
  <1> QED
    BY <1>2, <1>3 DEF Answer, Orders

(* All agree.                                                              *)
LEMMA EndAnswer ==
  ASSUME ScanCall(call), call.op \in Comparisons, ~LengthsDiffer,
         \A p \in 1..Len(Left) : Agree(p)
  PROVE  Answer = IF call.op \notin Orders THEN 1
                  ELSE IF Len(FullLeft) < Len(FullRight) THEN -1
                  ELSE IF Len(FullLeft) > Len(FullRight) THEN 1 ELSE 0
  <1>1. /\ FullLeft \in Seq(Bytes8) /\ FullRight \in Seq(Bytes8) /\ Right = FullRight
        /\ Len(FullLeft) \in Nat /\ Len(FullRight) \in Nat
        /\ call.op \in {"compare", "equal"} => Len(FullLeft) = Len(FullRight)
    BY Regions
  <1>2. /\ Left \in Seq(Bytes8) /\ Len(Left) \in Nat
        /\ Shift0 \in Nat /\ Shift0 + Len(Left) <= Len(FullLeft)
        /\ \A p \in 1..Len(Left) : Left[p] = FullLeft[Shift0 + p]
        /\ call.op # "cstring_compare" => Len(Left) = Len(FullRight)
        /\ call.op \notin {"cstring_compare", "starts_with", "ends_with"} => Left = FullLeft
        /\ call.op = "cstring_compare" => Len(Left) = Least
    BY <1>1, Parts
  <1>3. CASE call.op \in Orders
    <2>1. Len(Left) = Least
      <3>1. CASE call.op = "compare"
        <4>1. Len(FullLeft) = Len(FullRight) /\ Len(Left) = Len(FullLeft)
          BY <1>1, <1>2, <3>1
        <4>2. Least = Len(FullLeft)
          <5>1. {Len(FullLeft), Len(FullRight)} = {Len(FullLeft)}
            BY <4>1
          <5>2. {Len(FullLeft)} \in SUBSET Int /\ \A y \in {Len(FullLeft)} : Len(FullLeft) <= y
            BY <1>1
          <5> QED
            BY <5>1, <5>2, MinIs DEF Least
        <4> QED
          BY <4>1, <4>2
      <3> QED
        BY <1>2, <1>3, <3>1 DEF Orders
    <2>2. \A p \in 1..Len(Left) : FullLeft[p] = FullRight[p]
      <3>1. Shift0 = 0
        BY <1>3 DEF Shift0, Orders
      <3>2. \A p \in 1..Len(Left) : Left[p] = FullLeft[p] /\ Left[p] = FullRight[p]
        BY <1>1, <1>2, <1>3, <3>1 DEF Agree, Orders
      <3> QED
        BY <3>2
    <2>3. {p \in 1..Least : FullLeft[p] # FullRight[p]} = {}
      BY <2>1, <2>2
    <2>4. OrderOf(FullLeft, FullRight) = IF Len(FullLeft) < Len(FullRight) THEN -1 ELSE IF Len(FullLeft) > Len(FullRight) THEN 1 ELSE 0
      BY <2>3 DEF OrderOf, Least
    <2> QED
      BY <1>3, <2>4 DEF Answer
  <1>4. CASE call.op \in {"equal", "cstring_equal"}
    <2>1. Left = FullLeft /\ Len(FullLeft) = Len(FullRight)
      BY <1>2, <1>4
    <2>2. \A p \in 1..Len(FullLeft) : FullLeft[p] = FullRight[p]
      BY <1>1, <1>4, <2>1 DEF Agree
    <2>3. FullLeft = FullRight
      BY <1>1, <2>1, <2>2
    <2> QED
      BY <1>4, <2>3 DEF Answer, Orders, Holds
  <1>5. CASE call.op = "equal_ci"
    <2>1. Left = FullLeft /\ Len(FullLeft) = Len(FullRight)
      BY <1>2, <1>5
    <2>2. \A p \in DOMAIN FullLeft : SmallLetter(FullLeft[p]) = SmallLetter(FullRight[p])
      BY <1>1, <1>5, <2>1 DEF Agree
    <2>3. Holds(call.op, FullLeft, FullRight)
      BY <1>5, <2>1, <2>2 DEF Holds
    <2> QED
      BY <1>5, <2>3 DEF Answer, Orders
  <1>6. CASE call.op \in {"starts_with", "ends_with"}
    <2>1. /\ Len(FullRight) <= Len(FullLeft) /\ DOMAIN FullRight = 1..Len(Left)
          /\ Shift0 = IF call.op = "ends_with" THEN Len(FullLeft) - Len(FullRight) ELSE 0
      BY <1>1, <1>2, <1>6 DEF Shift0
    <2>2. \A p \in DOMAIN FullRight : FullRight[p] = FullLeft[Shift0 + p]
      BY <1>1, <1>2, <1>6, <2>1 DEF Agree
    <2>3. \A p \in DOMAIN FullRight : p \in Nat /\ Shift0 + p = IF call.op = "ends_with" THEN Len(FullLeft) - Len(FullRight) + p ELSE p
      BY <1>1, <1>2, <2>1
    <2>4. Holds(call.op, FullLeft, FullRight)
      BY <1>6, <2>1, <2>2, <2>3 DEF Holds
    <2> QED
      BY <1>6, <2>4 DEF Answer, Orders
  <1> QED
    BY <1>3, <1>4, <1>5, <1>6 DEF Comparisons, Orders

(* The first that does not agree decides.                                  *)
LEMMA VerdictAnswer ==
  ASSUME ScanCall(call), call.op \in Comparisons, ~LengthsDiffer,
         NEW q \in 1..Len(Left), ~Agree(q), \A p \in 1..(q - 1) : Agree(p)
  PROVE  Answer = IF call.op \notin Orders THEN 0 ELSE IF Left[q] < Right[q] THEN -1 ELSE 1
  <1>1. /\ FullLeft \in Seq(Bytes8) /\ FullRight \in Seq(Bytes8) /\ Right = FullRight
        /\ Len(FullLeft) \in Nat /\ Len(FullRight) \in Nat
        /\ call.op \in {"compare", "equal"} => Len(FullLeft) = Len(FullRight)
    BY Regions
  <1>2. /\ Left \in Seq(Bytes8) /\ Len(Left) \in Nat /\ Len(Left) <= Len(FullRight)
        /\ Shift0 \in Nat /\ Shift0 + Len(Left) <= Len(FullLeft)
        /\ \A p \in 1..Len(Left) : Left[p] = FullLeft[Shift0 + p]
        /\ call.op # "cstring_compare" => Len(Left) = Len(FullRight)
        /\ call.op \notin {"cstring_compare", "starts_with", "ends_with"} => Left = FullLeft
        /\ call.op = "cstring_compare" => Len(Left) = Least
    BY <1>1, Parts
  <1>3. CASE call.op \in Orders
    <2>1. Len(Left) = Least
      <3>1. CASE call.op = "compare"
        <4>1. Len(FullLeft) = Len(FullRight) /\ Len(Left) = Len(FullLeft)
          BY <1>1, <1>2, <3>1
        <4>2. Least = Len(FullLeft)
          <5>1. {Len(FullLeft), Len(FullRight)} = {Len(FullLeft)}
            BY <4>1
          <5>2. {Len(FullLeft)} \in SUBSET Int /\ \A y \in {Len(FullLeft)} : Len(FullLeft) <= y
            BY <1>1
          <5> QED
            BY <5>1, <5>2, MinIs DEF Least
        <4> QED
          BY <4>1, <4>2
      <3> QED
        BY <1>2, <1>3, <3>1 DEF Orders
    <2>2. \A p \in 1..Len(Left) : Left[p] = FullLeft[p] /\ (Agree(p) <=> FullLeft[p] = FullRight[p])
      <3>1. Shift0 = 0
        BY <1>3 DEF Shift0, Orders
      <3> QED
        BY <1>1, <1>2, <1>3, <3>1 DEF Agree, Orders
    <2> DEFINE differing == {p \in 1..Least : FullLeft[p] # FullRight[p]}
    <2>3. q \in differing /\ differing \in SUBSET Int
      BY <2>1, <2>2, <1>2
    <2>4. \A p \in differing : q <= p
      BY <2>1, <2>2, <1>2
    <2>5. Min(differing) = q /\ differing # {}
      <3> HIDE DEF differing
      <3> QED
        BY <2>3, <2>4, MinIs
    <2>6. OrderOf(FullLeft, FullRight) = IF FullLeft[q] < FullRight[q] THEN -1 ELSE 1
      BY <2>5 DEF OrderOf, Least
    <2> QED
      BY <1>1, <1>3, <2>2, <2>6 DEF Answer
  <1>4. CASE call.op \in {"equal", "cstring_equal"}
    <2>1. FullLeft[q] # FullRight[q]
      BY <1>1, <1>2, <1>4 DEF Agree
    <2> QED
      BY <1>4, <2>1 DEF Answer, Orders, Holds
  <1>5. CASE call.op = "equal_ci"
    <2>1. q \in DOMAIN FullLeft /\ SmallLetter(FullLeft[q]) # SmallLetter(FullRight[q])
      BY <1>1, <1>2, <1>5 DEF Agree
    <2>2. ~Holds(call.op, FullLeft, FullRight)
      BY <1>5, <2>1 DEF Holds
    <2> QED
      BY <1>5, <2>2 DEF Answer, Orders
  <1>6. CASE call.op \in {"starts_with", "ends_with"}
    <2>1. /\ q \in DOMAIN FullRight /\ FullRight[q] # FullLeft[Shift0 + q]
          /\ Shift0 = IF call.op = "ends_with" THEN Len(FullLeft) - Len(FullRight) ELSE 0
      BY <1>1, <1>2, <1>6 DEF Agree, Shift0
    <2>2. Shift0 + q = IF call.op = "ends_with" THEN Len(FullLeft) - Len(FullRight) + q ELSE q
      BY <1>2, <2>1
    <2>3. ~Holds(call.op, FullLeft, FullRight)
      BY <1>6, <2>1, <2>2 DEF Holds
    <2> QED
      BY <1>6, <2>3 DEF Answer, Orders
  <1> QED
    BY <1>3, <1>4, <1>5, <1>6 DEF Comparisons, Orders

-----------------------------------------------------------------------------
(* The steps of the loops.                                                 *)

LEMMA VectorType ==
  /\ VectorBytes \in Nat \ {0} /\ Vector \in {VectorBytes, 2 * VectorBytes}
  /\ Vector \in Nat \ {0} /\ Vector \div 2 \in Nat \ {0}
  /\ call.op \in InPlace => Vector = VectorBytes
  <1>1. VectorBytes \in Nat \ {0} /\ VectorBytes % 2 = 0
    BY ScansAssumption
  <1>2. VectorBytes \div 2 \in Nat \ {0} /\ (2 * VectorBytes) \div 2 \in Nat \ {0}
    BY <1>1
  <1> QED
    BY <1>1, <1>2 DEF Vector

LEMMA StepInside ==
  ASSUME NEW length \in Nat, at \in Nat, at < length
  PROVE  StepOf(length) \in Nat \ {0} /\ at + StepOf(length) <= length
  <1>1. /\ Vector \in Nat \ {0} /\ Vector \div 2 \in Nat \ {0}
        /\ 4 * Vector \in Nat \ {0} /\ length - at \in Nat \ {0}
    BY VectorType
  <1> DEFINE v == Vector
             h == Vector \div 2
  <1> HIDE DEF v, h
  <1> QED
    BY <1>1 DEF StepOf, v, h

(* Vectors and the loops over the bytes left over agree on letters.        *)
LEMMA LettersAgree ==
  ASSUME NEW b \in Bytes8, NEW step
  PROVE  Lowered(b, step) = SmallLetter(b)
  BY DEF Bytes8, Lowered, VectorLower, ByteLower, Signed, SmallLetter

LEMMA DiffersIsDisagrees ==
  ASSUME ScanCall(call), call.op \in Comparisons, ~LengthsDiffer,
         NEW p \in 1..Len(Left), NEW step
  PROVE  DiffersAt(p, step) <=> ~Agree(p)
  <1>1. Left[p] \in Bytes8 /\ Right[p] \in Bytes8
    BY Parts
  <1> QED
    BY <1>1, LettersAgree DEF DiffersAt, Agree

(* What is said of a call is said of it after a step that keeps it.        *)
LEMMA SameScan ==
  ASSUME call' = call
  PROVE  /\ FullLeft' = FullLeft /\ FullRight' = FullRight /\ Left' = Left /\ Right' = Right
         /\ LengthsDiffer' = LengthsDiffer /\ Vector' = Vector
         /\ \A p : Agree(p)' = Agree(p) /\ Stored(p)' = Stored(p)
         /\ Answer' = Answer
  BY DEF FullLeft, FullRight, IsCString, Left, Right, LengthsDiffer, Vector, Agree, Stored, Answer

(* The conjuncts that say nothing of a comparison.                         *)
LEMMA CompareOnly ==
  ASSUME call.op \in Comparisons, call' = call, InvCompare',
         result' # "pending" => output' = Answer'
  PROVE  InvScan'
  <1>1. InvLength' /\ InvInPlace' /\ InvAnswered'
    BY DEF InvLength, InvInPlace, InvAnswered, Pending, Comparisons, Lengths, InPlace
  <1>2. ScanAnswers'
    BY DEF ScanAnswers, Answer, Orders, Returned, Comparisons
  <1> QED
    BY <1>1, <1>2 DEF InvScan

LEMMA RefuseKeeps ==
  ASSUME InvScan, ScanCall(call), RefuseLengths
  PROVE  InvScan'
  <1>1. call' = call /\ call.op \in Comparisons /\ LengthsDiffer /\ output' = 0 /\ LengthsDiffer'
    BY SameScan DEF RefuseLengths, Pending, Return
  <1>2. Answer' = 0
    BY <1>1, RefusedAnswer, SameScan
  <1>3. InvCompare'
    BY <1>1 DEF InvCompare
  <1> QED
    BY <1>1, <1>2, <1>3, CompareOnly

LEMMA CompareEndKeeps ==
  ASSUME InvScan, ScanCall(call), CompareEnd
  PROVE  InvScan'
  <1>1. /\ call' = call /\ call.op \in Comparisons /\ ~LengthsDiffer /\ at = Len(Left)
        /\ result' = "true" /\ Pending(Comparisons)
        /\ output' = IF call.op \notin {"compare", "cstring_compare"} THEN 1
                     ELSE IF Len(FullLeft) < Len(FullRight) THEN -1
                     ELSE IF Len(FullLeft) > Len(FullRight) THEN 1 ELSE 0
    BY DEF CompareEnd, Pending, Return
  <1>2. \A p \in 1..Len(Left) : Agree(p)
    BY <1>1 DEF InvScan, InvCompare
  <1>3. output' = Answer'
    BY <1>1, <1>2, EndAnswer, SameScan DEF Orders
  <1>4. InvCompare'
    BY <1>1 DEF InvCompare, Pending
  <1> QED
    BY <1>1, <1>3, <1>4, CompareOnly

LEMMA CompareStepKeeps ==
  ASSUME InvScan, ScanCall(call), CompareStep
  PROVE  InvScan'
  <1> DEFINE step      == StepOf(Len(Left))
             differing == {p \in (at + 1)..(at + step) : DiffersAt(p, step)}
  <1>1. /\ call.op \in Comparisons /\ ~LengthsDiffer /\ at < Len(Left) /\ Pending(Comparisons)
        /\ IF differing = {} THEN Go(at + step, output) ELSE Verdict(FirstDifference(differing))
    BY DEF CompareStep, Pending
  <1>2. Left \in Seq(Bytes8) /\ Right \in Seq(Bytes8) /\ Len(Left) \in Nat
    BY <1>1, Parts
  <1>3. at \in Nat /\ at <= Len(Left) /\ \A p \in 1..at : Agree(p)
    BY <1>1, <1>2 DEF InvScan, InvCompare
  <1>4. step \in Nat \ {0} /\ at + step <= Len(Left)
    BY <1>1, <1>2, <1>3, StepInside
  <1> HIDE DEF step
  <1>5. \A p \in (at + 1)..(at + step) : p \in 1..Len(Left) /\ (DiffersAt(p, step) <=> ~Agree(p))
    <2>1. \A p \in (at + 1)..(at + step) : p \in 1..Len(Left)
      BY <1>2, <1>3, <1>4
    <2> QED
      BY <1>1, <2>1, DiffersIsDisagrees
  <1>6. CASE differing = {}
    <2>1. call' = call /\ at' = at + step /\ result' = result /\ result = "pending"
      BY <1>1, <1>6 DEF Go, Pending
    <2>2. \A p \in (at + 1)..(at + step) : Agree(p)
      BY <1>5, <1>6
    <2>3. \A p \in 1..(at + step) : p \in 1..at \/ p \in (at + 1)..(at + step)
      BY <1>3, <1>4
    <2>4. \A p \in 1..(at + step) : Agree(p)
      BY <1>3, <2>2, <2>3
    <2>5. at' \in 0..Len(Left') /\ \A p \in 1..at' : Agree(p)'
      BY <1>2, <1>3, <1>4, <2>1, <2>4, SameScan
    <2>6. InvCompare'
      BY <2>5 DEF InvCompare
    <2>7. result' = "pending"
      BY <2>1
    <2> QED
      BY <1>1, <2>1, <2>6, <2>7, CompareOnly
  <1>7. CASE differing # {}
    <2>1. differing \in SUBSET Nat
      BY <1>3, <1>4
    <2> DEFINE q == Min(differing)
    <2>2. q \in differing /\ \A p \in differing : q <= p
      <3> HIDE DEF differing
      <3> QED
        BY <1>7, <2>1, MinOf
    <2>3. Verdict(q)
      BY <1>1, <1>7 DEF FirstDifference
    <2> HIDE DEF q
    <2>4. q \in (at + 1)..(at + step) /\ q \in 1..Len(Left) /\ ~Agree(q)
      BY <1>5, <2>2
    <2>5. \A p \in 1..(q - 1) : p \in 1..at \/ (p \in (at + 1)..(at + step) /\ p < q)
      BY <1>3, <1>4, <2>4
    <2>6. \A p \in 1..(q - 1) : Agree(p)
      <3>1. \A p \in (at + 1)..(at + step) : p < q => p \notin differing
        BY <1>3, <1>4, <2>2, <2>4
      <3> QED
        BY <1>3, <1>5, <2>5, <3>1
    <2>7. call' = call /\ result' = "true"
          /\ output' = IF call.op \notin Orders THEN 0 ELSE IF Left[q] < Right[q] THEN -1 ELSE 1
      BY <2>3 DEF Verdict, Return, Orders
    <2>8. output' = Answer'
      BY <1>1, <2>4, <2>6, <2>7, VerdictAnswer, SameScan
    <2>9. InvCompare'
      BY <2>7 DEF InvCompare, Pending
    <2> QED
      BY <1>1, <2>7, <2>8, <2>9, CompareOnly
  <1> QED
    BY <1>6, <1>7

-----------------------------------------------------------------------------
(* The length of a string.                                                 *)

LEMMA StringCall ==
  ASSUME ScanCall(call), call.op \in Lengths
  PROVE  /\ call.start \in Nat /\ call.terminators \in SUBSET Nat
         /\ \E t \in call.terminators : t >= call.start
  BY DEF ScanCall

LEMMA PageType == PageBytes % Vector = 0 /\ PageBytes % (4 * Vector) = 0
  <1>1. /\ VectorBytes \in Nat \ {0} /\ Vector \in {VectorBytes, 2 * VectorBytes}
        /\ PageBytes \in Nat \ {0} /\ PageBytes % (8 * VectorBytes) = 0
    BY VectorType, ScansAssumption
  <1>2. PICK k \in Nat : PageBytes = k * (8 * VectorBytes)
    BY <1>1, MultipleIs
  <1>3. \E m, n \in Nat : PageBytes = m * Vector /\ PageBytes = n * (4 * Vector)
    <2>1. CASE Vector = VectorBytes
      <3>1. PageBytes = (8 * k) * Vector /\ PageBytes = (2 * k) * (4 * Vector)
        BY <1>1, <1>2, <2>1
      <3> QED
        BY <3>1
    <2>2. CASE Vector = 2 * VectorBytes
      <3>1. PageBytes = (4 * k) * Vector /\ PageBytes = k * (4 * Vector)
        BY <1>1, <1>2, <2>2
      <3> QED
        BY <3>1
    <2> QED
      BY <1>1, <2>1, <2>2
  <1>4. Vector \in Nat \ {0} /\ 4 * Vector \in Nat \ {0}
    BY VectorType
  <1> QED
    BY <1>1, <1>3, <1>4, MultipleIs

(* Every load is aligned; the first one alone begins before the string.    *)
LEMMA LoadsAligned ==
  ASSUME ScanCall(call), call.op \in Lengths, InvLength
  PROVE  /\ Pointer \in Nat /\ Load \in {Vector, 4 * Vector}
         /\ Pointer % Load = 0
         /\ at = 0 => Pointer <= call.start /\ call.start < Pointer + Load
         /\ at # 0 => call.start <= Pointer
  <1> DEFINE v    == Vector
             base == call.start - (call.start % v)
  <1>1. v \in Nat \ {0} /\ 4 * v \in Nat \ {0} /\ call.start \in Nat
    BY VectorType, StringCall
  <1>2. at \in Nat /\ at % v = 0
    BY DEF InvLength
  <1> HIDE DEF v
  <1>3. base \in Nat /\ base <= call.start /\ call.start < base + v /\ base % v = 0
    <2>1. /\ base \in Nat /\ base = (call.start \div v) * v
          /\ base <= call.start /\ call.start < base + v
      BY <1>1, RoundedDown
    <2>2. call.start \div v \in Nat
      BY <1>1, Division
    <2> HIDE DEF base
    <2>3. base % v = 0
      BY <1>1, <2>1, <2>2, MultipleIs
    <2> QED
      BY <2>1, <2>3
  <1>4. Pointer = base + at
    BY DEF Pointer, v
  <1> HIDE DEF base
  <1>5. Pointer \in Nat /\ Pointer % v = 0
    <2>1. (base + at) % v = 0
      BY <1>1, <1>2, <1>3, MultiplesAdd
    <2> QED
      BY <1>2, <1>3, <1>4, <2>1
  <1>6. /\ Load \in {v, 4 * v} /\ Pointer % Load = 0
        /\ at = 0 => Load = v
    BY <1>5 DEF Load, v
  <1>7. at # 0 => v <= at
    <2>1. PICK k \in Nat : at = k * v
      BY <1>1, <1>2, MultipleIs
    <2>2. CASE k = 0
      BY <1>1, <2>1, <2>2
    <2>3. CASE 1 <= k
      <3>1. 1 * v <= k * v
        BY <1>1, <2>3, ProductGrows
      <3> QED
        BY <1>1, <2>1, <3>1
    <2> QED
      BY <2>2, <2>3
  <1> QED
    BY <1>1, <1>2, <1>3, <1>4, <1>5, <1>6, <1>7 DEF v

LEMMA InPages ==
  ASSUME ScanCall(call), InvLength, InvAnswered
  PROVE  LengthStaysInPages
  <1> SUFFICES ASSUME call.op \in Lengths PROVE LengthStaysInPages
    BY DEF LengthStaysInPages
  <1> DEFINE ends    == {t \in call.terminators : t >= call.start}
             page(a) == a \div PageBytes
             end     == Min(ends)
  <1>1. /\ call.start \in Nat /\ ends \in SUBSET Nat /\ ends # {}
        /\ \A t \in ends : Pointer <= t
    BY StringCall DEF InvLength
  <1>2. end \in ends /\ end \in Nat /\ call.start <= end /\ Pointer <= end
    <2> HIDE DEF ends
    <2>1. end \in ends
      BY <1>1, MinOf
    <2> QED
      BY <1>1, <2>1 DEF ends
  <1>3. /\ Pointer \in Nat /\ Load \in {Vector, 4 * Vector} /\ Pointer % Load = 0
        /\ at = 0 => Pointer <= call.start /\ call.start < Pointer + Load
        /\ at # 0 => call.start <= Pointer
    BY LoadsAligned
  <1>4. Load \in Nat \ {0} /\ PageBytes % Load = 0
    BY <1>3, VectorType, PageType
  <1>6. PageBytes \in Nat \ {0}
    BY ScansAssumption
  <1> HIDE DEF end, ends
  <1>7. \A x \in Nat : Pointer <= x /\ x < Pointer + Load => page(x) = page(Pointer)
    <2>1. ASSUME NEW x \in Nat, Pointer <= x, x < Pointer + Load PROVE page(x) = page(Pointer)
      <3>1. /\ Pointer \in Nat /\ Load \in Nat \ {0} /\ Pointer % Load = 0
            /\ x \in Nat /\ Pointer <= x /\ x < Pointer + Load
        BY <1>3, <1>4, <2>1
      <3> DEFINE p == Pointer
                 l == Load
                 b == PageBytes
      <3>2. /\ p \in Nat /\ l \in Nat \ {0} /\ p % l = 0 /\ x \in Nat /\ p <= x /\ x < p + l
            /\ b \in Nat \ {0} /\ b % l = 0
        BY <1>4, <1>6, <3>1
      <3> HIDE DEF p, l, b
      <3>3. x \div b = p \div b
        BY <3>2, StepsStayInPages, ZenonT(40)
      <3> QED
        BY <3>3 DEF p, b
    <2> QED
      BY <2>1
  <1>8. page(Pointer + Load - 1) = page(Pointer)
    <2>1. Pointer + Load - 1 \in Nat /\ Pointer <= Pointer + Load - 1 /\ Pointer + Load - 1 < Pointer + Load
      BY <1>3, <1>4
    <2> HIDE DEF page
    <2> QED
      BY <1>7, <2>1
  <1>9. page(Pointer) <= page(end)
    BY <1>2, <1>3, <1>6, QuotientGrows
  <1>10. page(Pointer) >= page(call.start)
    <2>1. CASE at = 0
      <3>1. page(call.start) = page(Pointer) /\ page(Pointer) \in Nat
        BY <1>1, <1>3, <1>6, <1>7, <2>1, QuotientGrows
      <3> QED
        BY <3>1
    <2>2. CASE at # 0
      BY <1>1, <1>3, <1>6, <2>2, QuotientGrows
    <2> QED
      BY <2>1, <2>2
  <1>11. result = "true" => output = end - call.start
    BY DEF InvAnswered, end, ends
  <1> QED
    BY <1>8, <1>9, <1>10, <1>11 DEF LengthStaysInPages, end, ends

LEMMA LengthKeeps ==
  ASSUME InvScan, ScanCall(call), LengthStep
  PROVE  InvScan'
  <1> DEFINE ends == {t \in call.terminators : t >= call.start}
  <1>1. /\ call.op \in Lengths /\ result = "pending" /\ call' = call
        /\ IF Loaded = {} THEN Go(at + Load, output)
                          ELSE Return(TRUE, Min(Loaded) - call.start)
    BY DEF LengthStep, Pending, Go, Return
  <1>2. /\ call.start \in Nat /\ ends \in SUBSET Nat /\ Loaded \in SUBSET Nat
        /\ at \in Nat /\ at % Vector = 0 /\ \A t \in ends : Pointer <= t
    BY <1>1, StringCall DEF InvScan, InvLength, Loaded
  <1>3. Pointer \in Nat /\ Load \in {Vector, 4 * Vector} /\ Vector \in Nat \ {0}
    BY <1>1, LoadsAligned, VectorType DEF InvScan
  <1>4. InvCompare' /\ InvInPlace' /\ ScanAnswers'
    BY <1>1 DEF InvCompare, InvInPlace, ScanAnswers, Pending, Returned, Comparisons, Lengths, InPlace
  <1>5. CASE Loaded = {}
    <2>1. at' = at + Load /\ result' = "pending"
      BY <1>1, <1>5 DEF Go
    <2>2. Load % Vector = 0 /\ Load \in Nat
      <3>1. Vector = 1 * Vector /\ 4 * Vector \in Nat
        BY <1>3
      <3> QED
        BY <1>3, <3>1, MultipleIs
    <2>3. (at + Load) % Vector = 0
      BY <1>2, <1>3, <2>2, MultiplesAdd
    <2>4. Pointer' = Pointer + Load
      <3>1. call.start % Vector \in Nat
        BY <1>2, <1>3
      <3> QED
        BY <1>1, <1>2, <2>1, <2>2, <3>1, SameScan DEF Pointer
    <2>5. \A t \in ends : Pointer + Load <= t
      BY <1>2, <1>3, <1>5, <2>2 DEF Loaded
    <2>6. InvLength'
      BY <1>1, <1>2, <2>1, <2>2, <2>3, <2>4, <2>5, SameScan DEF InvLength
    <2> QED
      BY <1>4, <2>1, <2>6 DEF InvScan, InvAnswered
  <1>6. CASE Loaded # {}
    <2>1. at' = at /\ output' = Min(Loaded) - call.start
      BY <1>1, <1>6 DEF Return
    <2>2. Min(Loaded) \in Loaded /\ \A t \in Loaded : Min(Loaded) <= t
      BY <1>2, <1>6, MinOf
    <2>3. Min(Loaded) \in ends /\ \A t \in ends : Min(Loaded) <= t
      <3>1. \A t \in Loaded : t \in ends /\ t <= Pointer + Load - 1
        BY DEF Loaded
      <3>2. \A t \in ends : t \notin Loaded => t > Pointer + Load - 1
        BY <1>2, <1>3 DEF Loaded
      <3> QED
        BY <1>2, <1>3, <2>2, <3>1, <3>2
    <2>4. Min(ends) = Min(Loaded)
      <3>1. ends \in SUBSET Int
        BY <1>2
      <3> HIDE DEF ends
      <3> QED
        BY <2>3, <3>1, MinIs
    <2>5. InvAnswered'
      BY <1>1, <2>1, <2>4 DEF InvAnswered
    <2>6. InvLength'
      <3>1. Pointer' = Pointer
        BY <1>1, <2>1, SameScan DEF Pointer
      <3> QED
        BY <1>1, <1>2, <2>1, <3>1, SameScan DEF InvLength
    <2> QED
      BY <1>4, <2>5, <2>6 DEF InvScan
  <1> QED
    BY <1>5, <1>6

-----------------------------------------------------------------------------
(* The loops that change bytes in place.                                   *)

(* What is stored goes on where it ended.                                  *)
LEMMA StoresGoOn ==
  ASSUME NEW m \in Nat, NEW n \in Nat, NEW S, NEW f \in [1..(m + n) -> S]
  PROVE  [p \in 1..m |-> f[p]] \o [k \in 1..n |-> f[m + k]] = f
  <1> DEFINE u == [p \in 1..m |-> f[p]]
             w == [k \in 1..n |-> f[m + k]]
  <1>1. u \in Seq(S) /\ Len(u) = m /\ w \in Seq(S) /\ Len(w) = n /\ f \in Seq(S) /\ Len(f) = m + n
    OBVIOUS
  <1>2. /\ u \o w \in Seq(S) /\ Len(u \o w) = m + n
        /\ \A p \in 1..(m + n) : (u \o w)[p] = IF p <= m THEN u[p] ELSE w[p - m]
    <2> HIDE DEF u, w
    <2> QED
      BY <1>1
  <1>3. \A p \in 1..(m + n) : (u \o w)[p] = f[p]
    BY <1>2
  <1> HIDE DEF u, w
  <1>4. u \o w = f
    <2> DEFINE v == u \o w
    <2>1. v \in Seq(S) /\ f \in Seq(S) /\ Len(v) = Len(f)
      BY <1>1, <1>2
    <2>2. \A p \in 1..Len(v) : v[p] = f[p]
      BY <1>2, <1>3
    <2> HIDE DEF v
    <2>3. v = f
      BY <2>1, <2>2, SeqEqual
    <2> QED
      BY <2>3 DEF v
  <1> QED
    BY <1>4 DEF u, w

LEMMA InPlaceOnly ==
  ASSUME call.op \in InPlace, call' = call, InvInPlace', ScanAnswers'
  PROVE  InvScan'
  BY DEF InvScan, InvCompare, InvLength, InvAnswered, Pending, Comparisons, Lengths, InPlace

LEMMA InPlaceKeeps ==
  ASSUME InvScan, ScanCall(call), SwapStep \/ LowercaseStep
  PROVE  InvScan'
  <1> DEFINE n    == Len(call.left)
             step == StepOf(n)
             S    == {Stored(p) : p \in 1..n}
  <1>1. /\ call.op \in InPlace /\ result = "pending" /\ call' = call /\ result' = result
        /\ at < n /\ at' = at + step
    BY DEF SwapStep, LowercaseStep, Pending, Go, InPlace
  <1>2. call.left \in Seq(Bytes8) /\ n \in Nat
    BY <1>1 DEF ScanCall, Bytes8
  <1>3. at \in Nat /\ output = [p \in 1..at |-> Stored(p)]
    BY <1>1, <1>2 DEF InvScan, InvInPlace, Pending
  <1> HIDE DEF n
  <1>4. step \in Nat \ {0} /\ at + step <= n
    BY <1>1, <1>2, <1>3, StepInside
  <1> HIDE DEF step
  <1>5. output' = output \o [k \in 1..step |-> Stored(at + k)]
    <2>1. CASE SwapStep
      <3>1. output' = output \o [k \in 1..step |-> <<call.right[at + k], call.left[at + k]>>]
        BY <2>1 DEF SwapStep, Go, step, n
      <3>2. call.op = "swap"
        BY <2>1 DEF SwapStep, Pending
      <3> QED
        BY <3>1, <3>2 DEF Stored
    <2>2. CASE LowercaseStep
      <3>1. output' = output \o [k \in 1..step |-> Lowered(call.left[at + k], step)]
        BY <2>2 DEF LowercaseStep, Go, step, n
      <3>2. call.op # "swap"
        BY <2>2 DEF LowercaseStep, Pending
      <3>3. \A k \in 1..step : at + k \in 1..n /\ call.left[at + k] \in Bytes8
        BY <1>2, <1>3, <1>4 DEF n
      <3>4. \A k \in 1..step : Lowered(call.left[at + k], step) = Stored(at + k)
        BY <3>2, <3>3, LettersAgree DEF Stored
      <3>5. [k \in 1..step |-> Lowered(call.left[at + k], step)] = [k \in 1..step |-> Stored(at + k)]
        BY <3>4
      <3> QED
        BY <3>1, <3>5
    <2> QED
      BY <2>1, <2>2
  <1>6. output' = [p \in 1..(at + step) |-> Stored(p)]
    <2> DEFINE f == [p \in 1..(at + step) |-> Stored(p)]
    <2>1. f \in [1..(at + step) -> S]
      BY <1>2, <1>3, <1>4
    <2>2. /\ [p \in 1..at |-> Stored(p)] = [p \in 1..at |-> f[p]]
          /\ [k \in 1..step |-> Stored(at + k)] = [k \in 1..step |-> f[at + k]]
      BY <1>3, <1>4
    <2> HIDE DEF f, S
    <2>3. [p \in 1..at |-> f[p]] \o [k \in 1..step |-> f[at + k]] = f
      BY <1>3, <1>4, <2>1, StoresGoOn
    <2>4. output' = f
      BY <1>3, <1>5, <2>2, <2>3
    <2> QED
      BY <2>4 DEF f
  <1>7. InvInPlace'
    <2>1. at' \in 0..n /\ output' = [p \in 1..at' |-> Stored(p)']
      BY <1>1, <1>2, <1>3, <1>4, <1>6, SameScan
    <2> QED
      BY <1>1, <2>1 DEF InvInPlace, n
  <1>8. ScanAnswers'
    BY <1>1 DEF ScanAnswers, Returned
  <1> QED
    BY <1>1, <1>7, <1>8, InPlaceOnly

LEMMA InPlaceEndKeeps ==
  ASSUME InvScan, ScanCall(call), InPlaceEnd
  PROVE  InvScan'
  <1>1. /\ call.op \in InPlace /\ call' = call /\ result' # "pending" /\ at = Len(call.left)
        /\ output' = output /\ Pending(InPlace)
    BY DEF InPlaceEnd, Pending, Return
  <1>2. call.left \in Seq(Bytes8) /\ DOMAIN call.left = 1..Len(call.left)
    BY <1>1 DEF ScanCall, Bytes8
  <1>3. output' = [p \in DOMAIN call.left |-> Stored(p)]
    BY <1>1, <1>2 DEF InvScan, InvInPlace
  <1>4. CASE call.op = "swap"
    <2>1. output' = [p \in DOMAIN call.left |-> <<call.right[p], call.left[p]>>]
      BY <1>3, <1>4 DEF Stored
    <2>2. ScanAnswers'
      BY <1>1, <1>4, <2>1 DEF ScanAnswers, Returned, Comparisons
    <2> QED
      BY <1>1, <2>2, InPlaceOnly DEF InvInPlace, Pending
  <1>5. CASE call.op = "lowercase"
    <2>1. output' = [p \in DOMAIN call.left |-> SmallLetter(call.left[p])]
      BY <1>3, <1>5 DEF Stored
    <2>2. ScanAnswers'
      BY <1>1, <1>5, <2>1 DEF ScanAnswers, Returned, Comparisons
    <2> QED
      BY <1>1, <2>2, InPlaceOnly DEF InvInPlace, Pending
  <1> QED
    BY <1>1, <1>4, <1>5 DEF InPlace

-----------------------------------------------------------------------------
(* Times: arithmetic of quotients that may be negative, and of numbers     *)
(* that wrap around.                                                       *)

LEMMA DivisionInt ==
  ASSUME NEW x \in Int, NEW b \in Nat \ {0}
  PROVE  /\ x \div b \in Int /\ x % b \in 0..(b - 1)
         /\ x = (x \div b) * b + (x % b)
  OBVIOUS

LEMMA DivisionIs ==
  ASSUME NEW x \in Int, NEW b \in Nat \ {0}, NEW q \in Int, NEW r \in 0..(b - 1),
         x = q * b + r
  PROVE  x \div b = q /\ x % b = r
  <1> DEFINE d == x \div b
             m == x % b
  <1>1. d \in Int /\ m \in 0..(b - 1) /\ x = d * b + m
    BY DivisionInt
  <1> HIDE DEF d, m
  <1>2. ASSUME NEW i \in Int, NEW j \in Int, i + 1 <= j PROVE i * b + b <= j * b
    <2>1. PICK k \in Nat : j = i + 1 + k
      <3>1. j - i - 1 \in Nat /\ j = i + 1 + (j - i - 1)
        BY <1>2
      <3> QED
        BY <3>1
    <2>2. j * b = i * b + b + k * b /\ k * b \in Nat /\ i * b \in Int
      BY <2>1
    <2> QED
      BY <2>2
  <1>3. q * b \in Int /\ d * b \in Int
    BY <1>1
  <1>4. ~ (d + 1 <= q) /\ ~ (q + 1 <= d)
    BY <1>1, <1>2, <1>3
  <1>5. d = q
    BY <1>1, <1>4
  <1> QED
    BY <1>1, <1>5 DEF d, m

LEMMA WrapIs ==
  ASSUME NEW max \in Nat, NEW n \in (-(max + 1))..max
  PROVE  Wrap(n, max) = n
  <1>1. (n + max + 1) % (2 * max + 2) = n + max + 1
    BY DivisionIs
  <1> QED
    BY <1>1 DEF Wrap

(* A sum wraps around once, however often its parts have.                  *)
LEMMA WrapAdds ==
  ASSUME NEW max \in Nat, NEW x \in Int, NEW y \in Int
  PROVE  Wrap(x + Wrap(y, max), max) = Wrap(x + y, max)
  <1> DEFINE b == 2 * max + 2
             q == (y + max + 1) \div b
             r == (y + max + 1) % b
             d == (x + y + max + 1) \div b
             m == (x + y + max + 1) % b
  <1>1. b \in Nat \ {0}
    OBVIOUS
  <1>0. \A z \in Int : /\ z \div b \in Int /\ z % b \in 0..(b - 1)
                       /\ z = (z \div b) * b + (z % b)
    <2> HIDE DEF b
    <2> QED
      BY <1>1, DivisionInt
  <1>2. q \in Int /\ r \in 0..(b - 1) /\ y + max + 1 = q * b + r
    <2>1. y + max + 1 \in Int
      OBVIOUS
    <2> HIDE DEF b
    <2> QED
      BY <1>0, <2>1
  <1>3. d \in Int /\ m \in 0..(b - 1) /\ x + y + max + 1 = d * b + m
    <2>1. x + y + max + 1 \in Int
      OBVIOUS
    <2> HIDE DEF b
    <2> QED
      BY <1>0, <2>1
  <1>4. Wrap(y, max) = r - (max + 1) /\ Wrap(x + y, max) = m - (max + 1)
    BY DEF Wrap
  <1>5. Wrap(x + Wrap(y, max), max) = ((x + r - (max + 1) + max + 1) % b) - (max + 1)
    BY <1>4 DEF Wrap
  <1> HIDE DEF b, q, r, d, m
  <1>6. x + r = (d - q) * b + m
    <2>1. (d - q) * b = d * b - q * b /\ d * b \in Int /\ q * b \in Int
      BY <1>1, <1>2, <1>3
    <2> QED
      BY <1>1, <1>2, <1>3, <2>1
  <1>7. x + r - (max + 1) + max + 1 = x + r /\ x + r \in Int /\ d - q \in Int
    BY <1>1, <1>2, <1>3
  <1>8. (x + r) % b = m
    BY <1>1, <1>3, <1>6, <1>7, DivisionIs
  <1> QED
    BY <1>4, <1>5, <1>7, <1>8

LEMMA TimeTypes ==
  /\ MsPerSec \in Nat \ {0} /\ NsPerMs \in Nat \ {0}
  /\ NsPerSec \in Nat \ {0} /\ NsPerSec = MsPerSec * NsPerMs
  /\ NsMax \in Nat /\ 2 * NsPerSec <= NsMax /\ NsMax < 3 * NsPerSec - 1
  /\ SecMax \in Nat /\ CountMax \in Nat
  <1>1. MsPerSec * NsPerMs \in Nat \ {0}
    BY TimeAssumption
  <1> QED
    BY <1>1, TimeAssumption DEF NsPerSec

LEMMA TotalType ==
  ASSUME NEW t, t.sec \in Int, t.ns \in Int
  PROVE  Total(t) \in Int
  BY TimeTypes DEF Total

(* Whatever is carried or borrowed, the number stays what it is, and only  *)
(* the seconds may wrap around.                                            *)
LEMMA NormalizedIs ==
  ASSUME NEW a \in Int, NEW n \in (-(NsMax + 1))..NsMax
  PROVE  LET total == a * NsPerSec + n
         IN Normalized([sec |-> Wrap(a, SecMax), ns |-> n]) =
              [sec |-> Wrap(total \div NsPerSec, SecMax), ns |-> total % NsPerSec]
  <1> DEFINE q == n \div NsPerSec
             r == n % NsPerSec
             total == a * NsPerSec + n
             t == [sec |-> Wrap(a, SecMax), ns |-> n]
  <1>1. NsPerSec \in Nat \ {0} /\ NsMax \in Nat /\ 2 * NsPerSec <= NsMax /\ SecMax \in Nat
    BY TimeTypes
  <1>2. n \in Int
    BY <1>1
  <1>3. q \in Int /\ r \in 0..(NsPerSec - 1) /\ n = q * NsPerSec + r
    BY <1>1, <1>2, DivisionInt
  <1>x. Wrap(a, SecMax) \in Int
    BY <1>1 DEF Wrap
  <1>4. total \div NsPerSec = a + q /\ total % NsPerSec = r
    <2> HIDE DEF q, r
    <2>1. a * NsPerSec + n = (a + q) * NsPerSec + r
      <3>1. (a + q) * NsPerSec = a * NsPerSec + q * NsPerSec
            /\ a * NsPerSec \in Int /\ q * NsPerSec \in Int
        BY <1>1, <1>3
      <3> QED
        BY <1>1, <1>3, <3>1
    <2>2. a + q \in Int /\ total \in Int
      BY <1>1, <1>2, <1>3
    <2> QED
      BY <1>1, <1>3, <2>1, <2>2, DivisionIs
  <1>5. CASE n >= NsPerSec
    <2>1. Normalized(t) = [sec |-> Wrap(Wrap(a, SecMax) + q, SecMax), ns |-> r]
      BY <1>5 DEF Normalized, Carry
    <2> HIDE DEF q, r
    <2>2. Wrap(a, SecMax) + q = q + Wrap(a, SecMax) /\ q + a = a + q
      BY <1>3, <1>x
    <2>3. Wrap(q + Wrap(a, SecMax), SecMax) = Wrap(q + a, SecMax)
      BY <1>1, <1>3, WrapAdds
    <2> QED
      BY <1>4, <2>1, <2>2, <2>3
  <1>6. CASE n < 0
    <2> DEFINE seconds == (-n + (NsPerSec - 1)) \div NsPerSec
    <2>0. ~ (n >= NsPerSec)
      BY <1>1, <1>2, <1>6
    <2>1. Normalized(t) = [sec |-> Wrap(Wrap(a, SecMax) - seconds, SecMax),
                           ns  |-> Wrap(n + Wrap(seconds * NsPerSec, NsMax), NsMax)]
      BY <1>6, <2>0 DEF Normalized, Borrow
    <2>2. seconds = -q
      <3> HIDE DEF q, r
      <3>1. -n + (NsPerSec - 1) = (-q) * NsPerSec + (NsPerSec - 1 - r)
        <4>1. (-q) * NsPerSec = -(q * NsPerSec) /\ q * NsPerSec \in Int
          BY <1>1, <1>3
        <4> QED
          BY <1>1, <1>2, <1>3, <4>1
      <3>2. -q \in Int /\ NsPerSec - 1 - r \in 0..(NsPerSec - 1) /\ -n + (NsPerSec - 1) \in Int
        BY <1>1, <1>2, <1>3
      <3> QED
        BY <1>1, <3>1, <3>2, DivisionIs
    <2> HIDE DEF seconds, q, r
    <2>3. Wrap(Wrap(a, SecMax) - seconds, SecMax) = Wrap(a + q, SecMax)
      <3>1. Wrap(a, SecMax) - seconds = q + Wrap(a, SecMax) /\ q + a = a + q
        BY <1>3, <1>x, <2>2
      <3> QED
        BY <1>1, <1>3, <3>1, WrapAdds
    <2>4. Wrap(n + Wrap(seconds * NsPerSec, NsMax), NsMax) = r
      <3>1. n + seconds * NsPerSec = r /\ seconds * NsPerSec \in Int
        <4>1. seconds * NsPerSec = -(q * NsPerSec) /\ q * NsPerSec \in Int
          BY <1>1, <1>3, <2>2
        <4> QED
          BY <1>1, <1>2, <1>3, <4>1
      <3>2. Wrap(n + Wrap(seconds * NsPerSec, NsMax), NsMax) = Wrap(r, NsMax)
        BY <1>1, <1>2, <3>1, WrapAdds
      <3>3. r \in (-(NsMax + 1))..NsMax
        BY <1>1, <1>3
      <3> QED
        BY <1>1, <3>2, <3>3, WrapIs
    <2> QED
      BY <1>4, <2>1, <2>3, <2>4
  <1>7. CASE n >= 0 /\ n < NsPerSec
    <2>1. ~ (n >= NsPerSec) /\ ~ (n < 0)
      BY <1>1, <1>2, <1>7
    <2>2. Normalized(t) = t
      BY <2>1 DEF Normalized
    <2>3. q = 0 /\ r = n
      <3>1. n = 0 * NsPerSec + n /\ n \in 0..(NsPerSec - 1)
        BY <1>1, <1>2, <1>7
      <3> QED
        BY <1>1, <1>2, <3>1, DivisionIs
    <2> HIDE DEF q, r
    <2>4. a + q = a
      BY <2>3
    <2> QED
      BY <1>4, <2>2, <2>3, <2>4
  <1> QED
    BY <1>1, <1>2, <1>5, <1>6, <1>7
LEMMA TimespecType ==
  ASSUME NEW t \in Timespec
  PROVE  /\ t.sec \in (-(SecMax + 1))..SecMax /\ t.sec \in Int
         /\ t.ns \in (-(NsMax + 1))..NsMax /\ t.ns \in Int
         /\ t = [sec |-> t.sec, ns |-> t.ns]
         /\ Total(t) = t.sec * NsPerSec + t.ns /\ Total(t) \in Int
  <1>1. /\ t.sec \in (-(SecMax + 1))..SecMax /\ t.ns \in (-(NsMax + 1))..NsMax
        /\ t = [sec |-> t.sec, ns |-> t.ns]
    BY DEF Timespec
  <1>2. t.sec \in Int /\ t.ns \in Int
    BY <1>1, TimeTypes
  <1> QED
    BY <1>1, <1>2, TotalType DEF Total

LEMMA NormalizedTime ==
  ASSUME NEW t \in Timespec
  PROVE  Normalized(t) = [sec |-> Wrap(Total(t) \div NsPerSec, SecMax), ns |-> Total(t) % NsPerSec]
  <1>1. Wrap(t.sec, SecMax) = t.sec
    BY TimespecType, TimeTypes, WrapIs
  <1>2. /\ t.sec \in Int /\ t.ns \in (-(NsMax + 1))..NsMax
        /\ t = [sec |-> t.sec, ns |-> t.ns]
        /\ Total(t) = t.sec * NsPerSec + t.ns
    BY TimespecType
  <1>3. Normalized([sec |-> Wrap(t.sec, SecMax), ns |-> t.ns]) =
          [sec |-> Wrap((t.sec * NsPerSec + t.ns) \div NsPerSec, SecMax),
           ns  |-> (t.sec * NsPerSec + t.ns) % NsPerSec]
    BY <1>2, NormalizedIs
  <1> QED
    BY <1>1, <1>2, <1>3

LEMMA NormalizedFits ==
  ASSUME NEW t \in Timespec, SecondsFit(Total(t))
  PROVE  Normalized(t) = [sec |-> Total(t) \div NsPerSec, ns |-> Total(t) % NsPerSec]
  <1>1. Wrap(Total(t) \div NsPerSec, SecMax) = Total(t) \div NsPerSec
    BY TimeTypes, WrapIs DEF SecondsFit
  <1> QED
    BY <1>1, NormalizedTime

(* Sums and differences of times that are normal.                          *)
LEMMA SumIs ==
  ASSUME NEW t \in Timespec, NEW u \in Timespec, NormalTime(t), NormalTime(u),
         NEW sign \in {1, -1}, NEW total, total = IF sign = 1 THEN Total(t) + Total(u) ELSE Total(t) - Total(u),
         SecondsFit(total)
  PROVE  Sum(t, u, sign) = [sec |-> total \div NsPerSec, ns |-> total % NsPerSec]
  <1> DEFINE a == t.sec + sign * u.sec
             n == t.ns + sign * u.ns
  <1>1. /\ NsPerSec \in Nat \ {0} /\ SecMax \in Nat /\ NsMax \in Nat /\ 2 * NsPerSec <= NsMax
        /\ t.sec \in Int /\ t.ns \in 0..(NsPerSec - 1) /\ Total(t) = t.sec * NsPerSec + t.ns
        /\ u.sec \in Int /\ u.ns \in 0..(NsPerSec - 1) /\ Total(u) = u.sec * NsPerSec + u.ns
    BY TimeTypes, TimespecType DEF NormalTime
  <1>2. a \in Int /\ n \in (-(NsMax + 1))..NsMax
    BY <1>1
  <1>3. total = a * NsPerSec + n
    <2>1. /\ (t.sec + u.sec) * NsPerSec = t.sec * NsPerSec + u.sec * NsPerSec
          /\ (t.sec - u.sec) * NsPerSec = t.sec * NsPerSec - u.sec * NsPerSec
          /\ t.sec * NsPerSec \in Int /\ u.sec * NsPerSec \in Int
      BY <1>1
    <2>2. CASE sign = 1
      <3>1. a = t.sec + u.sec /\ n = t.ns + u.ns
        BY <1>1, <2>2
      <3> HIDE DEF a, n
      <3> QED
        BY <1>1, <2>1, <2>2, <3>1
    <2>3. CASE sign = -1
      <3>1. a = t.sec - u.sec /\ n = t.ns - u.ns
        BY <1>1, <2>3
      <3>2. total = Total(t) - Total(u)
        BY <2>3
      <3> HIDE DEF a, n
      <3> QED
        BY <1>1, <2>1, <3>1, <3>2
    <2> QED
      BY <2>2, <2>3
  <1>4. Wrap(n, NsMax) = n
    BY <1>1, <1>2, WrapIs
  <1>5. Wrap(total \div NsPerSec, SecMax) = total \div NsPerSec
    BY <1>1, WrapIs DEF SecondsFit
  <1>6. Sum(t, u, sign) = Normalized([sec |-> Wrap(a, SecMax), ns |-> n])
    BY <1>4 DEF Sum
  <1> HIDE DEF a, n
  <1>7. Normalized([sec |-> Wrap(a, SecMax), ns |-> n]) =
          [sec |-> Wrap(total \div NsPerSec, SecMax), ns |-> total % NsPerSec]
    BY <1>2, <1>3, NormalizedIs
  <1> QED
    BY <1>5, <1>6, <1>7

(* The order of normal times is that of the numbers they stand for.        *)
LEMMA OrderIs ==
  ASSUME NEW x \in Int, NEW y \in Int
  PROVE  Order([sec |-> x \div NsPerSec, ns |-> x % NsPerSec],
               [sec |-> y \div NsPerSec, ns |-> y % NsPerSec]) = Sign(x - y)
  <1> DEFINE b == NsPerSec
             c == x \div b
             m == x % b
             d == y \div b
             n == y % b
  <1>1. b \in Nat \ {0}
    BY TimeTypes
  <1>2. /\ c \in Int /\ m \in 0..(b - 1) /\ x = c * b + m
        /\ d \in Int /\ n \in 0..(b - 1) /\ y = d * b + n
    <2> HIDE DEF b
    <2> QED
      BY <1>1, DivisionInt
  <1> HIDE DEF b, c, d, m, n
  <1>3. ASSUME NEW i \in Int, NEW j \in Int, i < j PROVE i * b + b <= j * b
    <2>1. PICK k \in Nat : j = i + 1 + k
      <3>1. j - i - 1 \in Nat /\ j = i + 1 + (j - i - 1)
        BY <1>3
      <3> QED
        BY <3>1
    <2>2. j * b = i * b + b + k * b /\ k * b \in Nat /\ i * b \in Int
      BY <1>1, <2>1
    <2> QED
      BY <1>1, <2>2
  <1>4. c * b \in Int /\ d * b \in Int
    BY <1>1, <1>2
  <1>5. Order([sec |-> c, ns |-> m], [sec |-> d, ns |-> n]) =
          IF c < d \/ (c = d /\ m < n) THEN -1 ELSE IF c = d /\ m = n THEN 0 ELSE 1
    <2>1. [sec |-> c, ns |-> m] = [sec |-> d, ns |-> n] <=> c = d /\ m = n
      <3>1. [sec |-> c, ns |-> m].sec = c /\ [sec |-> c, ns |-> m].ns = m
            /\ [sec |-> d, ns |-> n].sec = d /\ [sec |-> d, ns |-> n].ns = n
        OBVIOUS
      <3> QED
        BY <3>1
    <2> QED
      BY <2>1 DEF Order
  <1>6. CASE c < d
    <2>1. x < y
      BY <1>1, <1>2, <1>3, <1>4, <1>6
    <2> QED
      BY <1>5, <1>6, <2>1 DEF Sign, b, c, d, m, n
  <1>7. CASE d < c
    <2>1. y < x
      BY <1>1, <1>2, <1>3, <1>4, <1>7
    <2>2. ~ (c < d) /\ c # d
      BY <1>2, <1>7
    <2> QED
      BY <1>5, <2>1, <2>2 DEF Sign, b, c, d, m, n
  <1>8. CASE c = d
    <2>1. /\ m < n <=> x < y
          /\ m = n <=> x = y
      BY <1>1, <1>2, <1>4, <1>8
    <2>2. ~ (c < d)
      BY <1>2, <1>8
    <2> QED
      BY <1>5, <1>8, <2>1, <2>2 DEF Sign, b, c, d, m, n
  <1> QED
    BY <1>2, <1>6, <1>7, <1>8
(* Units of which there are so many in a second, each so many ns long.     *)
LEMMA UnitsOf ==
  ASSUME NEW perSec \in Nat \ {0}, NEW length \in Nat \ {0}, perSec * length = NsPerSec,
         NEW total \in Int
  PROVE  LET sec  == total \div NsPerSec
             part == (total % NsPerSec) \div length
         IN /\ sec \in Int /\ part \in 0..(perSec - 1)
            /\ total \div length = sec * perSec + part
  <1> DEFINE sec  == total \div NsPerSec
             ns   == total % NsPerSec
             part == ns \div length
             rest == ns % length
  <1>1. NsPerSec \in Nat \ {0}
    BY TimeTypes
  <1>2. sec \in Int /\ ns \in 0..(NsPerSec - 1) /\ total = sec * NsPerSec + ns
    BY <1>1, DivisionInt
  <1> HIDE DEF sec, ns
  <1>3. part \in Int /\ rest \in 0..(length - 1) /\ ns = part * length + rest
    BY <1>1, <1>2, DivisionInt
  <1> HIDE DEF part, rest
  <1>4. part >= 0
    <2>1. ASSUME part <= -1 PROVE FALSE
      <3>1. PICK k \in Nat : part = -1 - k
        <4>1. -1 - part \in Nat /\ part = -1 - (-1 - part)
          BY <1>3, <2>1
        <4> QED
          BY <4>1
      <3>2. part * length = -length - k * length /\ k * length \in Nat
        BY <3>1
      <3> QED
        BY <1>1, <1>2, <1>3, <3>2
    <2> QED
      BY <1>3, <2>1
  <1>5. part < perSec
    <2>1. ASSUME part >= perSec PROVE FALSE
      <3>1. PICK k \in Nat : part = perSec + k
        <4>1. part - perSec \in Nat /\ part = perSec + (part - perSec)
          BY <1>3, <2>1
        <4> QED
          BY <4>1
      <3>2. part * length = perSec * length + k * length /\ k * length \in Nat
        BY <3>1
      <3> QED
        BY <1>1, <1>2, <1>3, <3>2
    <2> QED
      BY <1>3, <2>1
  <1>6. total = (sec * perSec + part) * length + rest
    <2>1. /\ (sec * perSec + part) * length = (sec * perSec) * length + part * length
          /\ (sec * perSec) * length = sec * (perSec * length)
          /\ sec * perSec \in Int
      BY <1>2, <1>3
    <2> QED
      BY <1>1, <1>2, <1>3, <2>1
  <1>7. sec * perSec + part \in Int
    BY <1>2, <1>3
  <1>8. total \div length = sec * perSec + part
    BY <1>3, <1>6, <1>7, DivisionIs
  <1> QED
    BY <1>2, <1>3, <1>4, <1>5, <1>8 DEF sec, ns, part

LEMMA FromUnitsIs ==
  ASSUME NEW perSec \in Nat \ {0}, NEW length \in Nat \ {0}, perSec * length = NsPerSec,
         NEW n \in Nat
  PROVE  /\ FromUnits(n, perSec, length) \in [sec : Nat, ns : Nat]
         /\ FromUnits(n, perSec, length) =
              [sec |-> (n * length) \div NsPerSec, ns |-> (n * length) % NsPerSec]
         /\ Total(FromUnits(n, perSec, length)) = n * length
  <1> DEFINE q == n \div perSec
             r == n % perSec
             t == FromUnits(n, perSec, length)
  <1>1. NsPerSec \in Nat \ {0}
    BY TimeTypes
  <1>2. q \in Nat /\ r \in 0..(perSec - 1) /\ n = q * perSec + r
    <2>1. q \in Int /\ r \in 0..(perSec - 1) /\ n = q * perSec + r
      BY DivisionInt
    <2>2. q \in Nat
      OBVIOUS
    <2> QED
      BY <2>1, <2>2
  <1>3. t = [sec |-> q, ns |-> r * length] /\ t.sec = q /\ t.ns = r * length
    BY DEF FromUnits
  <1> HIDE DEF q, r, t
  <1>4. r * length \in 0..(NsPerSec - 1)
    <2>1. PICK k \in Nat : perSec = r + 1 + k
      <3>1. perSec - r - 1 \in Nat /\ perSec = r + 1 + (perSec - r - 1)
        BY <1>2
      <3> QED
        BY <3>1
    <2>2. perSec * length = r * length + length + k * length /\ k * length \in Nat /\ r * length \in Nat
      BY <1>2, <2>1
    <2> QED
      BY <1>1, <2>2
  <1>5. n * length = q * NsPerSec + r * length /\ n * length \in Nat
    <2>1. /\ (q * perSec + r) * length = (q * perSec) * length + r * length
          /\ (q * perSec) * length = q * (perSec * length)
      BY <1>2
    <2>2. n * length \in Nat
      OBVIOUS
    <2> QED
      BY <1>2, <2>1, <2>2
  <1>6. q = (n * length) \div NsPerSec /\ r * length = (n * length) % NsPerSec
    <2>1. n * length \in Int /\ q \in Int
      BY <1>2, <1>5
    <2> QED
      BY <1>1, <1>4, <1>5, <2>1, DivisionIs
  <1>7. Total(t) = q * NsPerSec + r * length
    BY <1>3 DEF Total
  <1>8. t \in [sec : Nat, ns : Nat]
    BY <1>1, <1>2, <1>3, <1>4
  <1> QED
    BY <1>3, <1>5, <1>6, <1>7, <1>8 DEF t
-----------------------------------------------------------------------------
(* What is done with times but for sleeping and their texts.               *)
Calculations == {"normalize", "to_nanoseconds", "to_milliseconds", "from_nanoseconds",
                 "from_milliseconds"} \cup Pairwise

LEMMA NoTime ==
  ASSUME call'.op \notin Times
  PROVE  InvTime' /\ TimeCall(call')
  BY DEF InvTime, InvSleep, InvFormatted, TimeIsExact, TimeReadsBack, TimeCall,
         Returned, Times, OfTime, OfCount, Pairwise, Formats, Readings, Sleeps

LEMMA CalculationsOnly ==
  ASSUME call'.op \in Calculations, TimeIsExact'
  PROVE  InvTime'
  BY DEF InvTime, InvSleep, InvFormatted, TimeReadsBack, Calculations,
         Returned, Pairwise, Formats, Readings, Sleeps

LEMMA NormalizeKeeps ==
  ASSUME InvCall, Normalize
  PROVE  InvTime'
  <1>1. /\ call.op = "normalize" /\ call' = call /\ call.time \in Timespec
        /\ output' = Normalized(call.time)
    BY DEF InvCall, TimeCall, Normalize, Pending, Return, OfTime
  <1>2. SecondsFit(Total(call.time)) =>
          output' = [sec |-> Total(call.time) \div NsPerSec, ns |-> Total(call.time) % NsPerSec]
    BY <1>1, NormalizedFits
  <1>3. TimeIsExact'
    BY <1>1, <1>2 DEF TimeIsExact, Returned, Exactly
  <1> QED
    BY <1>1, <1>3, CalculationsOnly DEF Calculations

LEMMA SumKeeps ==
  ASSUME InvCall, Add \/ Subtract
  PROVE  InvTime'
  <1> DEFINE total == IF call.op = "add" THEN Total(call.time) + Total(call.other)
                                         ELSE Total(call.time) - Total(call.other)
             sign  == IF call.op = "add" THEN 1 ELSE -1
  <1>1. /\ call.op \in {"add", "subtract"} /\ call' = call
        /\ call.time \in Timespec /\ call.other \in Timespec
        /\ output' = Sum(call.time, call.other, sign)
    BY DEF InvCall, TimeCall, Add, Subtract, Pending, Return, OfTime, Pairwise
  <1>2. ASSUME NormalTime(call.time), NormalTime(call.other), SecondsFit(total)
        PROVE  output' = [sec |-> total \div NsPerSec, ns |-> total % NsPerSec]
    <2>1. sign \in {1, -1} /\ (sign = 1 <=> call.op = "add")
      OBVIOUS
    <2>2. total = IF sign = 1 THEN Total(call.time) + Total(call.other)
                              ELSE Total(call.time) - Total(call.other)
      BY <2>1
    <2> HIDE DEF total, sign
    <2> QED
      BY <1>1, <1>2, <2>1, <2>2, SumIs
  <1>3. TimeIsExact'
    BY <1>1, <1>2 DEF TimeIsExact, Returned, Exactly
  <1> QED
    BY <1>1, <1>3, CalculationsOnly DEF Calculations, Pairwise

LEMMA CompareKeeps ==
  ASSUME InvCall, Compare
  PROVE  InvTime'
  <1>1. /\ call.op = "compare_times" /\ call' = call
        /\ call.time \in Timespec /\ call.other \in Timespec
        /\ output' = Order(Normalized(call.time), Normalized(call.other))
    BY DEF InvCall, TimeCall, Compare, Pending, Return, OfTime, Pairwise
  <1>2. ASSUME SecondsFit(Total(call.time)), SecondsFit(Total(call.other))
        PROVE  output' = Sign(Total(call.time) - Total(call.other))
    <2>1. Total(call.time) \in Int /\ Total(call.other) \in Int
      BY <1>1, TimespecType
    <2> QED
      BY <1>1, <1>2, <2>1, NormalizedFits, OrderIs
  <1>3. TimeIsExact'
    BY <1>1, <1>2 DEF TimeIsExact, Returned
  <1> QED
    BY <1>1, <1>3, CalculationsOnly DEF Calculations, Pairwise

LEMMA ToUnitsIs ==
  ASSUME NEW perSec \in Nat \ {0}, NEW length \in Nat \ {0}, perSec * length = NsPerSec,
         call.time \in Timespec, SecondsFit(Total(call.time)), ToUnits(perSec, length)
  PROVE  LET n == Total(call.time) \div length
         IN IF n \in 0..CountMax THEN result' = "true" /\ output' = n ELSE result' = "false"
  <1> DEFINE total  == Total(call.time)
             sec    == total \div NsPerSec
             part   == (total % NsPerSec) \div length
             n      == total \div length
             most   == CountMax \div perSec
             scaled == (sec * perSec) % (CountMax + 1)
  <1>1. total \in Int /\ CountMax \in Nat
    BY TimespecType, TimeTypes
  <1>2. sec \in Int /\ part \in 0..(perSec - 1) /\ n = sec * perSec + part
    BY <1>1, UnitsOf
  <1>3. Normalized(call.time) = [sec |-> sec, ns |-> total % NsPerSec]
    BY NormalizedFits
  <1>4. IF sec < 0 \/ sec > most \/ CountMax - scaled < part
        THEN result' = "false" ELSE result' = "true" /\ output' = scaled + part
    BY <1>3 DEF ToUnits, Return
  <1>5. most \in Nat /\ most * perSec <= CountMax /\ CountMax < (most + 1) * perSec
    BY <1>1
  <1> SUFFICES IF n \in 0..CountMax THEN result' = "true" /\ output' = n ELSE result' = "false"
    OBVIOUS
  <1>11. sec >= 0 /\ sec <= most =>
           scaled = sec * perSec /\ sec * perSec \in Nat
    <2> SUFFICES ASSUME sec >= 0, sec <= most PROVE scaled = sec * perSec /\ sec * perSec \in Nat
      OBVIOUS
    <2> HIDE DEF sec, most
    <2>1. PICK k \in Nat : most = sec + k
      <3>1. most - sec \in Nat /\ most = sec + (most - sec)
        BY <1>2, <1>5
      <3> QED
        BY <3>1
    <2>2. most * perSec = sec * perSec + k * perSec /\ k * perSec \in Nat /\ sec * perSec \in Nat
      BY <1>2, <2>1
    <2>3. sec * perSec \in 0..CountMax
      BY <1>1, <1>5, <2>2
    <2>4. (sec * perSec) % (CountMax + 1) = sec * perSec
      <3> DEFINE x == sec * perSec
      <3>1. x = 0 * (CountMax + 1) + x /\ x \in Int /\ x \in 0..((CountMax + 1) - 1) /\ CountMax + 1 \in Nat \ {0}
        BY <1>1, <2>3
      <3> HIDE DEF x
      <3>2. x % (CountMax + 1) = x
        BY <3>1, DivisionIs
      <3> QED
        BY <3>2 DEF x
    <2> QED
      BY <2>2, <2>4
  <1> HIDE DEF total, sec, part, n, most, scaled
  <1>6. CASE sec < 0
    <2>1. n < 0
      <3>1. PICK k \in Nat : sec = -1 - k
        <4>1. -1 - sec \in Nat /\ sec = -1 - (-1 - sec)
          BY <1>2, <1>6
        <4> QED
          BY <4>1
      <3>2. sec * perSec = -perSec - k * perSec /\ k * perSec \in Nat
        BY <3>1
      <3> QED
        BY <1>2, <3>2
    <2> QED
      BY <1>1, <1>4, <1>6, <2>1
  <1>7. CASE sec > most
    <2>1. n > CountMax
      <3>1. PICK k \in Nat : sec = most + 1 + k
        <4>1. sec - most - 1 \in Nat /\ sec = most + 1 + (sec - most - 1)
          BY <1>2, <1>5, <1>7
        <4> QED
          BY <4>1
      <3>2. sec * perSec = (most + 1) * perSec + k * perSec /\ k * perSec \in Nat
            /\ (most + 1) * perSec \in Nat
        BY <1>5, <3>1
      <3> QED
        BY <1>1, <1>2, <1>5, <3>2
    <2> QED
      BY <1>1, <1>4, <1>7, <2>1
  <1>8. CASE sec >= 0 /\ sec <= most
    BY <1>1, <1>2, <1>4, <1>5, <1>8, <1>11
  <1> QED
    BY <1>2, <1>5, <1>6, <1>7, <1>8
LEMMA UnitsAre ==
  /\ MsPerSec \in Nat \ {0} /\ NsPerMs \in Nat \ {0} /\ NsPerSec \in Nat \ {0}
  /\ MsPerSec * NsPerMs = NsPerSec /\ NsPerSec * 1 = NsPerSec
  BY TimeTypes

LEMMA FromNanosecondsIs ==
  ASSUME NEW n \in Nat
  PROVE  /\ FromUnits(n, NsPerSec, 1) \in [sec : Nat, ns : Nat]
         /\ FromUnits(n, NsPerSec, 1) = [sec |-> n \div NsPerSec, ns |-> n % NsPerSec]
         /\ Total(FromUnits(n, NsPerSec, 1)) = n
  <1>1. n * 1 = n /\ 1 \in Nat \ {0}
    OBVIOUS
  <1>2. /\ FromUnits(n, NsPerSec, 1) \in [sec : Nat, ns : Nat]
        /\ FromUnits(n, NsPerSec, 1) = [sec |-> (n * 1) \div NsPerSec, ns |-> (n * 1) % NsPerSec]
        /\ Total(FromUnits(n, NsPerSec, 1)) = n * 1
    BY <1>1, UnitsAre, FromUnitsIs, Zenon
  <1> QED
    BY <1>1, <1>2

LEMMA FromMillisecondsIs ==
  ASSUME NEW n \in Nat
  PROVE  /\ FromUnits(n, MsPerSec, NsPerMs) \in [sec : Nat, ns : Nat]
         /\ FromUnits(n, MsPerSec, NsPerMs) =
              [sec |-> (n * NsPerMs) \div NsPerSec, ns |-> (n * NsPerMs) % NsPerSec]
         /\ Total(FromUnits(n, MsPerSec, NsPerMs)) = n * NsPerMs
  BY UnitsAre, FromUnitsIs, Zenon

LEMMA ToUnitsKeep ==
  ASSUME InvCall, ToNanoseconds \/ ToMilliseconds
  PROVE  InvTime'
  <1> DEFINE total == Total(call.time)
             Fits(n) == IF n \in 0..CountMax THEN result' = "true" /\ output' = n ELSE result' = "false"
  <1>1. /\ call.op \in {"to_nanoseconds", "to_milliseconds"} /\ call' = call
        /\ call.time \in Timespec
    BY DEF InvCall, TimeCall, ToNanoseconds, ToMilliseconds, ToUnits, Pending, Return, OfTime
  <1>2. ASSUME call.op = "to_nanoseconds", SecondsFit(total) PROVE Fits(total)
    <2>1. ToUnits(NsPerSec, 1)
      BY <1>2 DEF ToNanoseconds, ToMilliseconds, Pending
    <2>2. Fits(total \div 1)
      BY <1>1, <1>2, <2>1, UnitsAre, ToUnitsIs
    <2>3. total \div 1 = total
      BY <1>1, TimespecType
    <2> HIDE DEF Fits
    <2> QED
      BY <2>2, <2>3
  <1>3. ASSUME call.op = "to_milliseconds", SecondsFit(total) PROVE Fits(total \div NsPerMs)
    <2>1. ToUnits(MsPerSec, NsPerMs)
      BY <1>3 DEF ToNanoseconds, ToMilliseconds, Pending
    <2> QED
      BY <1>1, <1>3, <2>1, UnitsAre, ToUnitsIs
  <1>4. TimeIsExact'
    BY <1>1, <1>2, <1>3 DEF TimeIsExact, Returned
  <1> QED
    BY <1>1, <1>4, CalculationsOnly DEF Calculations

LEMMA FromUnitsKeep ==
  ASSUME InvCall, FromNanoseconds \/ FromMilliseconds
  PROVE  InvTime'
  <1>1. /\ call.op \in {"from_nanoseconds", "from_milliseconds"} /\ call' = call
        /\ call.count \in Nat
        /\ call.op = "from_nanoseconds" => output' = FromUnits(call.count, NsPerSec, 1)
        /\ call.op = "from_milliseconds" => output' = FromUnits(call.count, MsPerSec, NsPerMs)
    BY TimeTypes DEF InvCall, TimeCall, FromNanoseconds, FromMilliseconds, Pending, Return, OfCount
  <1>2. call.op = "from_nanoseconds" =>
          output' = [sec |-> call.count \div NsPerSec, ns |-> call.count % NsPerSec]
    BY <1>1, FromNanosecondsIs
  <1>3. call.op = "from_milliseconds" =>
          output' = [sec |-> (call.count * NsPerMs) \div NsPerSec,
                     ns  |-> (call.count * NsPerMs) % NsPerSec]
    BY <1>1, FromMillisecondsIs
  <1>4. TimeIsExact'
    BY <1>1, <1>2, <1>3 DEF TimeIsExact, Returned, Exactly
  <1> QED
    BY <1>1, <1>4, CalculationsOnly DEF Calculations

-----------------------------------------------------------------------------
(* Sleeping.                                                               *)
LEMMA SleepCall ==
  ASSUME InvCall, call.op \in Sleeps
  PROVE  /\ call \in [op : Sleeps, count : 0..CountMax, signals : Nat]
         /\ Requested \in Nat
  <1>1. call \in [op : Sleeps, count : 0..CountMax, signals : Nat]
    BY DEF InvCall, TimeCall
  <1>2. call.count \in Nat
    BY <1>1, TimeTypes
  <1> QED
    BY <1>1, <1>2, UnitsAre DEF Requested

LEMMA SleepsOnly ==
  ASSUME call'.op \in Sleeps, InvSleep'
  PROVE  InvTime'
  BY DEF InvTime, InvFormatted, TimeIsExact, TimeReadsBack, Returned, Sleeps, Formats, Readings

LEMMA StartSleepKeeps ==
  ASSUME InvCall, InvTime, StartSleep
  PROVE  InvTime'
  <1>1. /\ call.op \in Sleeps /\ call' = call /\ at' = 0 /\ result' = "pending"
        /\ output' = << IF call.op = "sleep_nanoseconds"
                        THEN FromUnits(call.count, NsPerSec, 1)
                        ELSE FromUnits(call.count, MsPerSec, NsPerMs) >>
    BY DEF StartSleep, Pending, Go
  <1>2. call.count \in Nat /\ Requested \in Nat /\ Requested' = Requested
    BY <1>1, SleepCall, TimeTypes DEF Requested
  <1>3. /\ output'[1] \in [sec : Nat, ns : Nat] /\ Total(output'[1]) = Requested
    <2>1. CASE call.op = "sleep_nanoseconds"
      <3>1. output'[1] = FromUnits(call.count, NsPerSec, 1) /\ call.count = Requested
        BY <1>1, <1>2, <2>1 DEF Requested
      <3> QED
        BY <1>2, <3>1, FromNanosecondsIs
    <2>2. CASE call.op # "sleep_nanoseconds"
      <3>1. output'[1] = FromUnits(call.count, MsPerSec, NsPerMs) /\ call.count * NsPerMs = Requested
        BY <1>1, <2>2 DEF Requested
      <3> QED
        BY <1>2, <3>1, FromMillisecondsIs
    <2> QED
      BY <2>1, <2>2
  <1>4. output' # <<>> /\ Total(output[1])' = Requested' - at'
    BY <1>1, <1>2, <1>3 DEF Total
  <1>5. InvSleep'
    BY <1>1, <1>2, <1>3, <1>4 DEF InvSleep
  <1> QED
    BY <1>1, <1>5, SleepsOnly

LEMMA AsleepIs ==
  ASSUME InvCall, InvTime, Asleep
  PROVE  /\ call.op \in Sleeps /\ at \in 0..Requested /\ Requested \in Nat /\ output # <<>>
         /\ output[1] \in [sec : Nat, ns : Nat] /\ Total(output[1]) = Requested - at
  BY SleepCall DEF Asleep, Pending, InvTime, InvSleep

LEMMA SleepWholeKeeps ==
  ASSUME InvCall, InvTime, SleepWhole
  PROVE  InvTime'
  <1>1. /\ call.op \in Sleeps /\ call' = call /\ result' = "true" /\ output' = output
        /\ at' = at + Total(output[1]) /\ Asleep
    BY DEF SleepWhole, Asleep, Pending
  <1>2. at' = Requested /\ Requested' = Requested /\ Requested \in Nat
    BY <1>1, AsleepIs DEF Requested
  <1>3. InvSleep'
    BY <1>1, <1>2 DEF InvSleep
  <1> QED
    BY <1>1, <1>3, SleepsOnly

LEMMA SleepInterruptedKeeps ==
  ASSUME InvCall, InvTime, SleepInterrupted
  PROVE  InvTime' /\ TimeCall(call') /\ "op" \in DOMAIN call' /\ call'.op \in Sleeps
  <1>1. /\ call.op \in Sleeps /\ result' = "pending" /\ result = "pending" /\ Asleep /\ call.signals > 0
        /\ call' = [call EXCEPT !.signals = @ - 1]
    BY DEF SleepInterrupted, Asleep, Pending
  <1>2. PICK passed \in 0..Total(output[1]) :
          at' = at + passed /\ output' = << Remaining(output[1], passed) >>
    BY DEF SleepInterrupted
  <1>3. /\ call' \in [op : Sleeps, count : 0..CountMax, signals : Nat]
        /\ call'.op = call.op /\ call'.count = call.count /\ "op" \in DOMAIN call'
    BY <1>1, SleepCall
  <1>4. TimeCall(call')
    BY <1>1, <1>3, TimeTypes
       DEF TimeCall, OfTime, OfCount, Pairwise, Formats, Readings, Sleeps
  <1> DEFINE left == Total(output[1]) - passed
             t    == FromUnits(left, NsPerSec, 1)
  <1>5. /\ at \in 0..Requested /\ Requested \in Nat /\ left \in Nat
        /\ at + passed \in 0..Requested /\ left = Requested - (at + passed)
    BY <1>1, <1>2, AsleepIs
  <1>6. output' = <<t>>
    BY <1>2 DEF Remaining
  <1> HIDE DEF left
  <1>7. t \in [sec : Nat, ns : Nat] /\ Total(t) = left
    BY <1>5, FromNanosecondsIs
  <1> HIDE DEF t
  <1>8. Requested' = Requested
    BY <1>3 DEF Requested
  <1>9. output' # <<>> /\ output'[1] = t /\ Total(output[1])' = left
    BY <1>6, <1>7 DEF Total
  <1>10. InvSleep'
    BY <1>1, <1>2, <1>5, <1>7, <1>8, <1>9 DEF InvSleep
  <1> QED
    BY <1>1, <1>3, <1>4, <1>10, SleepsOnly

LEMMA SleepFailedKeeps ==
  ASSUME InvCall, InvTime, SleepFailed
  PROVE  InvTime'
  <1>1. /\ call.op \in Sleeps /\ call' = call /\ result' = "false" /\ at' = at /\ Asleep
    BY DEF SleepFailed, Asleep, Pending, Return
  <1>2. InvSleep'
    BY <1>1, AsleepIs DEF InvSleep, Requested
  <1> QED
    BY <1>1, <1>2, SleepsOnly
-----------------------------------------------------------------------------
(* Texts.                                                                  *)

(* Seconds that have wrapped around are in no year of the calendar.        *)
LEMMA CalendarFits ==
  ASSUME NEW t \in Timespec, NEW zone \in {0, Zone},
         Normalized(t).sec + zone \in (-CalendarMax)..CalendarMax
  PROVE  Normalized(t).sec = Total(t) \div NsPerSec
  <1> DEFINE q    == t.ns \div NsPerSec
             r    == t.ns % NsPerSec
             sec  == Total(t) \div NsPerSec
             b    == 2 * SecMax + 2
  <1>1. /\ NsPerSec \in Nat \ {0} /\ NsMax \in Nat /\ NsMax < 3 * NsPerSec - 1
        /\ SecMax \in Nat /\ CalendarMax \in Nat /\ zone \in Int
        /\ CalendarMax + zone + 3 <= SecMax /\ CalendarMax - zone + 3 <= SecMax
    BY TimeAssumption, TimeTypes
  <1>2. /\ t.sec \in (-(SecMax + 1))..SecMax /\ t.sec \in Int
        /\ t.ns \in (-(NsMax + 1))..NsMax /\ t.ns \in Int
        /\ Total(t) = t.sec * NsPerSec + t.ns
    BY TimespecType
  <1>3. q \in Int /\ r \in 0..(NsPerSec - 1) /\ t.ns = q * NsPerSec + r
    BY <1>1, <1>2, DivisionInt
  <1> HIDE DEF q, r
  <1>4. q \in -3..2
    <2>1. ~ (q <= -4)
      <3> SUFFICES ASSUME q <= -4 PROVE FALSE
        OBVIOUS
      <3>1. PICK k \in Nat : q = -4 - k
        <4>1. -4 - q \in Nat /\ q = -4 - (-4 - q)
          BY <1>3
        <4> QED
          BY <4>1
      <3>2. q * NsPerSec = -4 * NsPerSec - k * NsPerSec /\ k * NsPerSec \in Nat
        BY <1>1, <3>1
      <3> QED
        BY <1>1, <1>2, <1>3, <3>2
    <2>2. ~ (q >= 3)
      <3> SUFFICES ASSUME q >= 3 PROVE FALSE
        OBVIOUS
      <3>1. PICK k \in Nat : q = 3 + k
        <4>1. q - 3 \in Nat /\ q = 3 + (q - 3)
          BY <1>3
        <4> QED
          BY <4>1
      <3>2. q * NsPerSec = 3 * NsPerSec + k * NsPerSec /\ k * NsPerSec \in Nat
        BY <1>1, <3>1
      <3> QED
        BY <1>1, <1>2, <1>3, <3>2
    <2> QED
      BY <1>3, <2>1, <2>2
  <1>5. sec = t.sec + q
    <2>1. Total(t) = (t.sec + q) * NsPerSec + r
      <3>1. /\ (t.sec + q) * NsPerSec = t.sec * NsPerSec + q * NsPerSec
            /\ t.sec * NsPerSec \in Int /\ q * NsPerSec \in Int
        BY <1>1, <1>2, <1>3
      <3> QED
        BY <1>1, <1>2, <1>3, <3>1
    <2>2. t.sec + q \in Int /\ Total(t) \in Int
      BY <1>2, <1>3, TimespecType
    <2> QED
      BY <1>1, <1>3, <2>1, <2>2, DivisionIs
  <1>6. Normalized(t).sec = Wrap(sec, SecMax)
    BY NormalizedTime
  <1> HIDE DEF sec
  <1>7. sec \in Int
    BY <1>2, <1>3, <1>5
  <1>8. CASE sec > SecMax
    <2>1. b \in Nat \ {0} /\ sec + SecMax + 1 - b \in 0..(b - 1)
          /\ sec + SecMax + 1 = 1 * b + (sec + SecMax + 1 - b) /\ sec + SecMax + 1 \in Int
      BY <1>1, <1>2, <1>4, <1>5, <1>7, <1>8
    <2>2. (sec + SecMax + 1) % b = sec + SecMax + 1 - b
      <3> HIDE DEF b
      <3> QED
        BY <2>1, DivisionIs
    <2>3. Wrap(sec, SecMax) = sec - b
      BY <1>1, <1>7, <2>2 DEF Wrap
    <2> QED
      BY <1>1, <1>2, <1>4, <1>5, <1>6, <1>7, <1>8, <2>3
  <1>9. CASE sec < -(SecMax + 1)
    <2> DEFINE q1 == 0 - 1
    <2>1. b \in Nat \ {0} /\ q1 \in Int /\ sec + SecMax + 1 + b \in 0..(b - 1)
          /\ sec + SecMax + 1 = q1 * b + (sec + SecMax + 1 + b) /\ sec + SecMax + 1 \in Int
      BY <1>1, <1>2, <1>4, <1>5, <1>7, <1>9
    <2>2. (sec + SecMax + 1) % b = sec + SecMax + 1 + b
      <3> HIDE DEF b, q1
      <3> QED
        BY <2>1, DivisionIs
    <2>3. Wrap(sec, SecMax) = sec + b
      BY <1>1, <1>7, <2>2 DEF Wrap
    <2> QED
      BY <1>1, <1>2, <1>4, <1>5, <1>6, <1>7, <1>9, <2>3
  <1>10. CASE sec \in (-(SecMax + 1))..SecMax
    BY <1>1, <1>6, <1>10, WrapIs DEF sec
  <1> QED
    BY <1>1, <1>7, <1>8, <1>9, <1>10

LEMMA FormattedKeeps ==
  ASSUME InvCall, FormatIso \/ FormatUtc \/ FormatLocal
  PROVE  InvTime'
  <1> DEFINE zone   == IF call.op = "format_local" THEN Zone ELSE 0
             second == Normalized(call.time).sec + zone
  <1>1. /\ call.op \in Formats /\ call.time \in Timespec /\ Formatted(zone)
    BY DEF InvCall, TimeCall, OfTime, Formats, FormatIso, FormatUtc, FormatLocal, Pending
  <1>2. call' = call
    BY <1>1 DEF Formatted, Return
  <1>3. result' = "true" =>
          /\ second \in (-CalendarMax)..CalendarMax
          /\ output' = IsoOf(second)
    BY <1>1 DEF Formatted, Return
  <1>4. result' = "true" => second = Total(call.time) \div NsPerSec + zone
    BY <1>1, <1>3, CalendarFits
  <1>5. InvFormatted'
    BY <1>2, <1>3, <1>4 DEF InvFormatted
  <1> QED
    BY <1>1, <1>2, <1>5
       DEF InvTime, InvSleep, TimeIsExact, TimeReadsBack, Returned, Formats, Readings, Sleeps

LEMMA ParsedKeeps ==
  ASSUME InvCall, ParseIso \/ ParseUtc
  PROVE  InvTime'
  <1>1. call.op \in Readings /\ call' = call
    BY DEF ParseIso, ParseUtc, Parsed, Pending, Return, Readings
  <1>2. TimeReadsBack'
    <2> SUFFICES ASSUME "origin" \in DOMAIN call
                 PROVE  IF call.origin = -1 \/ call.origin > LastIso
                             \/ (call.op = "parse_iso" /\ call.origin < FirstIso)
                        THEN result' = "false"
                        ELSE result' = "true" /\ output' = [sec |-> call.origin, ns |-> 0,
                                                           consumed |-> IsoLength(call.origin)]
      BY <1>1 DEF TimeReadsBack
    <2>1. /\ call.origin \in Int /\ call.iso.second = call.origin
          /\ call.iso.length = IsoLength(call.origin) /\ call.iso.tail = 0
      BY <1>1 DEF InvCall, TimeCall, IsoOf
    <2>2. /\ FirstIso \in Int /\ LastIso \in Int /\ FirstIso <= LastIso
          /\ BufferSize \in Nat /\ 20 < BufferSize
      BY TimeAssumption
    <2>3. /\ IsoLength(call.origin) \in {19, 20, 21}
          /\ IsoLength(call.origin) = 20 <=> ~ (call.origin < FirstIso) /\ ~ (call.origin > LastIso)
          /\ IsoLength(call.origin) <= 20 <=> ~ (call.origin > LastIso)
      BY <2>1, <2>2 DEF IsoLength
    <2>4. CASE ParseIso
      <3>1. call.op = "parse_iso"
        BY <2>4 DEF ParseIso, Pending
      <3> QED
        BY <2>1, <2>3, <2>4, <3>1 DEF ParseIso, Parsed, Timegm, Return
    <2>5. CASE ParseUtc
      <3>1. call.op = "parse_utc"
        BY <2>5 DEF ParseUtc, Pending
      <3>2. IsoLength(call.origin) + 0 < BufferSize /\ IsoLength(call.origin) <= 20
              <=> ~ (call.origin > LastIso)
        BY <2>2, <2>3
      <3> QED
        BY <2>1, <2>5, <3>1, <3>2 DEF ParseUtc, Parsed, Timegm, Return
    <2> QED
      BY <2>4, <2>5
  <1> QED
    BY <1>1, <1>2
       DEF InvTime, InvSleep, InvFormatted, TimeIsExact, Returned, Formats, Readings, Sleeps

LEMMA HandedOnKeeps ==
  ASSUME InvCall, InvTime, ParseFormattedTime
  PROVE  InvTime' /\ TimeCall(call') /\ "op" \in DOMAIN call' /\ call'.op \in Readings
  <1> DEFINE origin == Total(call.time) \div NsPerSec + (IF call.op = "format_local" THEN Zone ELSE 0)
  <1>1. /\ call.op \in Formats /\ output = IsoOf(origin) /\ call.time \in Timespec
        /\ call'.iso = output /\ call'.origin = origin /\ call'.op \in Readings
        /\ "op" \in DOMAIN call' /\ result' = "pending"
    BY DEF ParseFormattedTime, Returned, CallNext, InvTime, InvFormatted, InvCall, TimeCall,
           Formats, OfTime, Readings
  <1>2. origin \in Int
    <2>1. Total(call.time) \in Int /\ NsPerSec \in Nat \ {0}
      BY <1>1, TimespecType, TimeTypes
    <2>2. Total(call.time) \div NsPerSec \in Int
      BY <2>1, DivisionInt
    <2>3. Zone \in Int
      BY TimeAssumption
    <2> QED
      BY <2>2, <2>3
  <1> HIDE DEF origin
  <1>3. TimeCall(call')
    BY <1>1, <1>2 DEF TimeCall, Readings, OfTime, OfCount, Pairwise, Formats, Sleeps
  <1> QED
    BY <1>1, <1>3 DEF InvTime, InvSleep, InvFormatted, TimeIsExact, TimeReadsBack, Returned,
                      Formats, Readings, Sleeps

-----------------------------------------------------------------------------
(* Numbers.  Facts of all numbers below are proved of the least one that   *)
(* would be an exception.                                                  *)

(* The values of the first digits of a sequence.                           *)
ValuesOf(f, digits, base) ==
  f = [n \in 0..Len(digits) |-> IF n = 0 THEN 0 ELSE f[n - 1] * base + digits[n]]

LEMMA ValuesExist ==
  ASSUME NEW s \in Seq(Nat), NEW base \in Nat
  PROVE  \E f : ValuesOf(f, s, base)
  <1> DEFINE P(m) == \E f : f = [n \in 0..m |-> IF n = 0 THEN 0 ELSE f[n - 1] * base + s[n]]
             T == {m \in Nat : ~P(m)}
  <1>1. ASSUME T # {} PROVE FALSE
    <2>1. PICK m \in T : \A k \in T : m <= k
      <3>1. T \in SUBSET Nat
        OBVIOUS
      <3> HIDE DEF T
      <3> QED
        BY <1>1, <3>1, LeastNat
    <2>2. m \in Nat /\ ~P(m)
      OBVIOUS
    <2>3. CASE m = 0
      <3>1. P(0)
        <4> DEFINE f == [n \in 0..0 |-> 0]
        <4>1. f = [n \in 0..0 |-> IF n = 0 THEN 0 ELSE f[n - 1] * base + s[n]]
          OBVIOUS
        <4> HIDE DEF f
        <4> QED
          BY <4>1
      <3> QED
        BY <2>2, <2>3, <3>1
    <2>4. CASE m # 0
      <3>1. m - 1 \in Nat /\ ~ (m <= m - 1)
        BY <2>2, <2>4
      <3>2. m - 1 \notin T
        BY <2>1, <3>1
      <3>3. P(m - 1)
        BY <3>1, <3>2
      <3>4. PICK f : f = [n \in 0..(m - 1) |-> IF n = 0 THEN 0 ELSE f[n - 1] * base + s[n]]
        BY <3>3
      <3> DEFINE g == [n \in 0..m |-> IF n < m THEN f[n] ELSE f[m - 1] * base + s[m]]
      <3>5. g = [n \in 0..m |-> IF n = 0 THEN 0 ELSE g[n - 1] * base + s[n]]
        <4> SUFFICES ASSUME NEW n \in 0..m
                     PROVE  g[n] = IF n = 0 THEN 0 ELSE g[n - 1] * base + s[n]
          OBVIOUS
        <4>1. CASE n = 0
          BY <2>2, <2>4, <3>4, <4>1
        <4>2. CASE n # 0 /\ n < m
          <5>1. n \in 0..(m - 1) /\ n - 1 \in 0..m /\ n - 1 < m
            BY <2>2, <4>2
          <5>2. g[n] = f[n] /\ g[n - 1] = f[n - 1]
            BY <4>2, <5>1
          <5>3. f[n] = f[n - 1] * base + s[n]
            BY <3>4, <4>2, <5>1
          <5> QED
            BY <4>2, <5>2, <5>3
        <4>3. CASE n = m
          <5>1. m - 1 \in 0..m /\ m - 1 < m /\ ~ (m < m)
            BY <2>2, <2>4
          <5>2. g[m - 1] = f[m - 1] /\ g[m] = f[m - 1] * base + s[m]
            BY <2>2, <5>1
          <5> QED
            BY <2>4, <4>3, <5>2
        <4> QED
          BY <2>2, <4>1, <4>2, <4>3
      <3> HIDE DEF g
      <3>6. P(m)
        BY <3>5
      <3> QED
        BY <2>2, <3>6
    <2> QED
      BY <2>3, <2>4
  <1>2. Len(s) \in Nat /\ P(Len(s))
    BY <1>1
  <1> QED
    BY <1>2 DEF ValuesOf

LEMMA ValueIs ==
  ASSUME NEW s \in Seq(Nat), NEW base \in Nat
  PROVE  \E f : ValuesOf(f, s, base) /\ ValueOf(s, base) = f[Len(s)]
  <1> DEFINE g == CHOOSE f : f = [n \in 0..Len(s) |-> IF n = 0 THEN 0 ELSE f[n - 1] * base + s[n]]
  <1>1. ValueOf(s, base) = g[Len(s)]
    BY DEF ValueOf
  <1>2. \E f : f = [n \in 0..Len(s) |-> IF n = 0 THEN 0 ELSE f[n - 1] * base + s[n]]
    BY ValuesExist DEF ValuesOf
  <1>3. g = [n \in 0..Len(s) |-> IF n = 0 THEN 0 ELSE g[n - 1] * base + s[n]]
    BY <1>2
  <1> HIDE DEF g
  <1> QED
    BY <1>1, <1>3 DEF ValuesOf

LEMMA ValuesAre ==
  ASSUME NEW s \in Seq(Nat), NEW base \in Nat, NEW f, ValuesOf(f, s, base), NEW m \in 0..Len(s)
  PROVE  f[m] = IF m = 0 THEN 0 ELSE f[m - 1] * base + s[m]
  BY DEF ValuesOf

LEMMA DigitAdded ==
  ASSUME NEW a \in Nat, NEW b \in Nat, NEW c \in Nat
  PROVE  a * b + c \in Nat /\ (b # 0 => a <= a * b + c)
  <1>1. ASSUME b # 0 PROVE a <= a * b
    <2>1. PICK d \in Nat : b = d + 1
      <3>1. b - 1 \in Nat /\ b = (b - 1) + 1
        BY <1>1
      <3> QED
        BY <3>1
    <2>2. a * b = a * d + a /\ a * d \in Nat
      BY <2>1
    <2> QED
      BY <2>2
  <1>2. a * b \in Nat
    OBVIOUS
  <1> QED
    BY <1>1, <1>2

LEMMA ValuesNat ==
  ASSUME NEW s \in Seq(Nat), NEW base \in Nat, NEW f, ValuesOf(f, s, base)
  PROVE  \A m \in 0..Len(s) : f[m] \in Nat
  <1> DEFINE T == {m \in 0..Len(s) : f[m] \notin Nat}
  <1>1. ASSUME T # {} PROVE FALSE
    <2>1. PICK m \in T : \A k \in T : m <= k
      <3>1. T \in SUBSET Nat
        OBVIOUS
      <3> HIDE DEF T
      <3> QED
        BY <1>1, <3>1, LeastNat
    <2>2. m \in 0..Len(s) /\ f[m] \notin Nat /\ m \in Nat /\ Len(s) \in Nat
      OBVIOUS
    <2>3. m # 0
      BY <2>2, ValuesAre
    <2>4. m - 1 \in 0..Len(s) /\ ~ (m <= m - 1) /\ m \in 1..Len(s)
      BY <2>2, <2>3
    <2>5. f[m - 1] \in Nat /\ s[m] \in Nat
      BY <2>1, <2>4
    <2>6. f[m - 1] * base + s[m] \in Nat
      BY <2>5, DigitAdded
    <2> QED
      BY <2>2, <2>3, <2>6, ValuesAre
  <1> QED
    BY <1>1

LEMMA ValuesAgree ==
  ASSUME NEW s \in Seq(Nat), NEW t \in Seq(Nat), NEW base \in Nat,
         NEW f, ValuesOf(f, s, base), NEW g, ValuesOf(g, t, base),
         NEW n \in Nat, n <= Len(s), n <= Len(t), \A k \in 1..n : s[k] = t[k]
  PROVE  f[n] = g[n]
  <1> DEFINE T == {m \in 0..n : f[m] # g[m]}
  <1>1. ASSUME T # {} PROVE FALSE
    <2>1. PICK m \in T : \A k \in T : m <= k
      <3>1. T \in SUBSET Nat
        OBVIOUS
      <3> HIDE DEF T
      <3> QED
        BY <1>1, <3>1, LeastNat
    <2>2. m \in 0..n /\ f[m] # g[m] /\ m \in Nat /\ Len(s) \in Nat /\ Len(t) \in Nat
          /\ m \in 0..Len(s) /\ m \in 0..Len(t)
      OBVIOUS
    <2>3. /\ f[m] = IF m = 0 THEN 0 ELSE f[m - 1] * base + s[m]
          /\ g[m] = IF m = 0 THEN 0 ELSE g[m - 1] * base + t[m]
      BY <2>2, ValuesAre
    <2>4. m # 0
      BY <2>2, <2>3
    <2>5. m - 1 \in 0..n /\ ~ (m <= m - 1) /\ m \in 1..n
      BY <2>2, <2>4
    <2>6. f[m - 1] = g[m - 1] /\ s[m] = t[m]
      BY <2>1, <2>5
    <2> QED
      BY <2>2, <2>3, <2>6
  <1> QED
    BY <1>1

LEMMA ValueType ==
  ASSUME NEW s \in Seq(Nat), NEW base \in Nat
  PROVE  ValueOf(s, base) \in Nat
  <1>1. PICK f : ValuesOf(f, s, base) /\ ValueOf(s, base) = f[Len(s)]
    BY ValueIs
  <1>2. Len(s) \in 0..Len(s)
    OBVIOUS
  <1> QED
    BY <1>1, <1>2, ValuesNat

LEMMA ValueOfNone ==
  ASSUME NEW base \in Nat
  PROVE  ValueOf(<<>>, base) = 0
  <1> DEFINE s == <<>>
  <1>1. s \in Seq(Nat) /\ Len(s) = 0 /\ 0 \in 0..Len(s)
    OBVIOUS
  <1> HIDE DEF s
  <1>2. PICK f : ValuesOf(f, s, base) /\ ValueOf(s, base) = f[0]
    BY <1>1, ValueIs
  <1>3. \A m \in 0..Len(s) : f[m] = IF m = 0 THEN 0 ELSE f[m - 1] * base + s[m]
    BY <1>1, <1>2, ValuesAre
  <1>4. f[0] = 0
    BY <1>1, <1>3
  <1> QED
    BY <1>2, <1>4 DEF s

(* One more digit.                                                         *)
LEMMA ValueOfAppend ==
  ASSUME NEW s \in Seq(Nat), NEW x \in Nat, NEW base \in Nat
  PROVE  ValueOf(Append(s, x), base) = ValueOf(s, base) * base + x
  <1> DEFINE t == Append(s, x)
  <1>1. /\ t \in Seq(Nat) /\ Len(t) = Len(s) + 1 /\ t[Len(t)] = x /\ Len(s) \in Nat
        /\ \A k \in 1..Len(s) : s[k] = t[k]
    OBVIOUS
  <1> HIDE DEF t
  <1>2. PICK f : ValuesOf(f, s, base) /\ ValueOf(s, base) = f[Len(s)]
    BY ValueIs
  <1>3. PICK g : ValuesOf(g, t, base) /\ ValueOf(t, base) = g[Len(t)]
    BY <1>1, ValueIs
  <1>4. Len(t) \in 0..Len(t) /\ Len(t) # 0 /\ Len(t) - 1 = Len(s) /\ Len(s) <= Len(s) /\ Len(s) <= Len(t)
    BY <1>1
  <1>5. g[Len(t)] = g[Len(t) - 1] * base + t[Len(t)]
    <2>1. \A m \in 0..Len(t) : g[m] = IF m = 0 THEN 0 ELSE g[m - 1] * base + t[m]
      BY <1>3 DEF ValuesOf
    <2> QED
      BY <1>4, <2>1
  <1> DEFINE n == Len(s)
  <1>6. f[n] = g[n]
    <2>1. n \in Nat /\ n <= Len(s) /\ n <= Len(t) /\ \A k \in 1..n : s[k] = t[k]
      BY <1>1, <1>4
    <2> HIDE DEF n
    <2> QED
      BY <1>1, <1>2, <1>3, <2>1, ValuesAgree
  <1> QED
    BY <1>1, <1>2, <1>3, <1>4, <1>5, <1>6 DEF t

(* A sequence has at least the value of its first digits.                  *)
LEMMA ValueGrows ==
  ASSUME NEW s \in Seq(Nat), NEW base \in Nat \ {0}, NEW n \in 0..Len(s)
  PROVE  ValueOf(SubSeq(s, 1, n), base) <= ValueOf(s, base)
  <1> DEFINE t == SubSeq(s, 1, n)
  <1>1. PICK f : ValuesOf(f, s, base) /\ ValueOf(s, base) = f[Len(s)]
    BY ValueIs
  <1>2. /\ t \in Seq(Nat) /\ Len(t) = n /\ n \in Nat /\ Len(s) \in Nat
        /\ \A k \in 1..n : s[k] = t[k]
    OBVIOUS
  <1> HIDE DEF t
  <1>3. PICK g : ValuesOf(g, t, base) /\ ValueOf(t, base) = g[n]
    BY <1>2, ValueIs
  <1>4. f[n] = g[n]
    BY <1>1, <1>2, <1>3, ValuesAgree
  <1> DEFINE T == {m \in n..Len(s) : ~ (f[n] <= f[m])}
  <1>5. ASSUME T # {} PROVE FALSE
    <2>1. PICK m \in T : \A k \in T : m <= k
      <3>1. T \in SUBSET Nat
        OBVIOUS
      <3> HIDE DEF T
      <3> QED
        BY <1>5, <3>1, LeastNat
    <2>2. m \in n..Len(s) /\ ~ (f[n] <= f[m]) /\ m \in 0..Len(s) /\ n \in 0..Len(s)
      BY <1>2
    <2>3. f[n] \in Nat /\ f[m] \in Nat
      BY <1>1, <2>2, ValuesNat
    <2>4. m # n
      BY <2>2, <2>3
    <2>5. m - 1 \in n..Len(s) /\ ~ (m <= m - 1) /\ m # 0 /\ m \in 1..Len(s) /\ m - 1 \in 0..Len(s)
      BY <1>2, <2>2, <2>4
    <2>6. f[n] <= f[m - 1]
      BY <2>1, <2>5
    <2>7. f[m] = f[m - 1] * base + s[m] /\ s[m] \in Nat /\ f[m - 1] \in Nat
      BY <1>1, <2>2, <2>5, ValuesAre, ValuesNat
    <2>8. f[m - 1] <= f[m]
      <3>1. base \in Nat /\ base # 0
        OBVIOUS
      <3> QED
        BY <2>7, <3>1, DigitAdded, ZenonT(30)
    <2> QED
      BY <2>2, <2>3, <2>6, <2>7, <2>8
  <1>6. f[n] <= f[Len(s)]
    <2>1. Len(s) \in n..Len(s)
      BY <1>2
    <2> QED
      BY <1>5, <2>1
  <1> QED
    BY <1>1, <1>3, <1>4, <1>6 DEF t

(* The digits of a number and of all smaller ones.                         *)
SpelledBy(f, value, base) ==
  f = [v \in 0..value |-> IF v < base THEN <<v>> ELSE Append(f[v \div base], v % base)]

LEMMA QuotientShrinks ==
  ASSUME NEW v \in Nat, NEW base \in Nat, base >= 2, v >= base
  PROVE  /\ v \div base \in 0..(v - 1) /\ v % base \in 0..(base - 1)
         /\ v = (v \div base) * base + (v % base)
  <1> DEFINE q == v \div base
             r == v % base
  <1>1. q \in Nat /\ r \in 0..(base - 1) /\ v = q * base + r
    <2>1. v \in Int /\ base \in Nat \ {0}
      OBVIOUS
    <2>2. q \in Nat
      BY <2>1
    <2> QED
      BY <2>1, <2>2, DivisionInt
  <1> HIDE DEF q, r
  <1>2. PICK c \in Nat : base = c + 2
    <2>1. base - 2 \in Nat /\ base = (base - 2) + 2
      OBVIOUS
    <2> QED
      BY <2>1
  <1>3. q * base = q * c + q + q /\ q * c \in Nat
    BY <1>1, <1>2
  <1>4. q < v
    BY <1>1, <1>3
  <1> QED
    BY <1>1, <1>4 DEF q, r

LEMMA SpellingsExist ==
  ASSUME NEW value \in Nat, NEW base \in Nat, base >= 2
  PROVE  \E f : SpelledBy(f, value, base)
  <1> DEFINE P(m) == \E f : SpelledBy(f, m, base)
             T == {m \in Nat : ~P(m)}
  <1>1. ASSUME T # {} PROVE FALSE
    <2>1. PICK m \in T : \A k \in T : m <= k
      <3>1. T \in SUBSET Nat
        OBVIOUS
      <3> HIDE DEF T
      <3> QED
        BY <1>1, <3>1, LeastNat
    <2>2. m \in Nat /\ ~P(m)
      OBVIOUS
    <2>3. CASE m = 0
      <3>1. P(0)
        <4> DEFINE f == [v \in 0..0 |-> <<v>>]
        <4>1. f = [v \in 0..0 |-> IF v < base THEN <<v>> ELSE Append(f[v \div base], v % base)]
          OBVIOUS
        <4> HIDE DEF f
        <4> QED
          BY <4>1 DEF SpelledBy
      <3> QED
        BY <2>2, <2>3, <3>1
    <2>4. CASE m # 0
      <3>1. m - 1 \in Nat /\ ~ (m <= m - 1)
        BY <2>2, <2>4
      <3>2. m - 1 \notin T
        BY <2>1, <3>1
      <3>3. P(m - 1)
        BY <3>1, <3>2
      <3>4. PICK f : SpelledBy(f, m - 1, base)
        BY <3>3
      <3> DEFINE last == IF m < base THEN <<m>> ELSE Append(f[m \div base], m % base)
                 g == [v \in 0..m |-> IF v < m THEN f[v] ELSE last]
      <3>5. g = [v \in 0..m |-> IF v < base THEN <<v>> ELSE Append(g[v \div base], v % base)]
        <4> SUFFICES ASSUME NEW v \in 0..m
                     PROVE  g[v] = IF v < base THEN <<v>> ELSE Append(g[v \div base], v % base)
          OBVIOUS
        <4>0. v \in Nat /\ m \in Nat
          BY <2>2
        <4>1. v >= base => g[v \div base] = f[v \div base]
          <5> SUFFICES ASSUME v >= base PROVE g[v \div base] = f[v \div base]
            OBVIOUS
          <5>1. v \div base \in 0..(v - 1)
            BY <4>0, QuotientShrinks
          <5> DEFINE q == v \div base
          <5>2. q \in 0..m /\ q < m
            BY <4>0, <5>1
          <5> HIDE DEF q, last
          <5>3. g[q] = f[q]
            BY <5>2
          <5> QED
            BY <5>3 DEF q
        <4>2. CASE v < m
          <5>1. v \in 0..(m - 1)
            BY <4>0, <4>2
          <5>2. f[v] = IF v < base THEN <<v>> ELSE Append(f[v \div base], v % base)
            BY <3>4, <5>1 DEF SpelledBy
          <5>3. g[v] = f[v]
            BY <4>2
          <5> QED
            BY <4>0, <4>1, <5>2, <5>3
        <4>3. CASE v = m
          <5>1. g[v] = last
            BY <4>0, <4>3
          <5>2. last = IF v < base THEN <<v>> ELSE Append(f[v \div base], v % base)
            BY <4>3
          <5>3. v < base \/ v >= base
            BY <4>0
          <5> HIDE DEF g, last
          <5> QED
            BY <4>0, <4>1, <5>1, <5>2, <5>3
        <4> QED
          BY <4>0, <4>2, <4>3
      <3> HIDE DEF g
      <3>6. P(m)
        BY <3>5 DEF SpelledBy
      <3> QED
        BY <2>2, <3>6
    <2> QED
      BY <2>3, <2>4
  <1> QED
    BY <1>1

LEMMA DigitsAre ==
  ASSUME NEW value \in Nat, NEW base \in Nat, base >= 2
  PROVE  \E f : SpelledBy(f, value, base) /\ Digits(value, base) = f[value]
  <1> DEFINE g == CHOOSE f : f = [v \in 0..value |-> IF v < base THEN <<v>>
                                                   ELSE Append(f[v \div base], v % base)]
  <1>1. Digits(value, base) = g[value]
    BY DEF Digits
  <1>2. \E f : f = [v \in 0..value |-> IF v < base THEN <<v>> ELSE Append(f[v \div base], v % base)]
    BY SpellingsExist DEF SpelledBy
  <1>3. g = [v \in 0..value |-> IF v < base THEN <<v>> ELSE Append(g[v \div base], v % base)]
    BY <1>2
  <1> HIDE DEF g
  <1> QED
    BY <1>1, <1>3 DEF SpelledBy

(* The digits of a number have its value.                                  *)
LEMMA DigitsRead ==
  ASSUME NEW value \in Nat, NEW base \in Nat, base >= 2
  PROVE  /\ Digits(value, base) \in Seq(0..(base - 1))
         /\ Len(Digits(value, base)) > 0
         /\ ValueOf(Digits(value, base), base) = value
  <1>1. PICK f : SpelledBy(f, value, base) /\ Digits(value, base) = f[value]
    BY DigitsAre
  <1> DEFINE Reads(v) == f[v] \in Seq(0..(base - 1)) /\ Len(f[v]) > 0 /\ ValueOf(f[v], base) = v
             T == {v \in 0..value : ~Reads(v)}
  <1>2. ASSUME T # {} PROVE FALSE
    <2>1. PICK v \in T : \A k \in T : v <= k
      <3>1. T \in SUBSET Nat
        OBVIOUS
      <3> HIDE DEF T
      <3> QED
        BY <1>2, <3>1, LeastNat
    <2>2. v \in 0..value /\ ~Reads(v) /\ v \in Nat
      OBVIOUS
    <2>3. f[v] = IF v < base THEN <<v>> ELSE Append(f[v \div base], v % base)
      BY <1>1, <2>2 DEF SpelledBy
    <2>4. CASE v < base
      <3>1. f[v] = Append(<<>>, v) /\ f[v] \in Seq(0..(base - 1)) /\ Len(f[v]) > 0
        BY <2>2, <2>3, <2>4
      <3>2. ValueOf(Append(<<>>, v), base) = ValueOf(<<>>, base) * base + v
        <4>1. <<>> \in Seq(Nat)
          OBVIOUS
        <4> QED
          BY <2>2, <4>1, ValueOfAppend
      <3>3. ValueOf(<<>>, base) * base + v = v
        BY <2>2, ValueOfNone
      <3> QED
        BY <2>2, <3>1, <3>2, <3>3
    <2>5. CASE v >= base
      <3> DEFINE q == v \div base
                 r == v % base
      <3>1. q \in 0..(v - 1) /\ r \in 0..(base - 1) /\ v = q * base + r
        BY <2>2, <2>5, QuotientShrinks
      <3>2. f[v] = Append(f[q], r)
        BY <2>2, <2>3, <2>5
      <3> HIDE DEF q, r
      <3>3. q \in 0..value /\ ~ (v <= q) /\ r \in Nat
        BY <2>2, <3>1
      <3>4. Reads(q)
        BY <2>1, <3>3
      <3>5. f[v] \in Seq(0..(base - 1)) /\ Len(f[v]) > 0 /\ f[q] \in Seq(Nat)
        BY <3>1, <3>2, <3>4
      <3>6. ValueOf(f[v], base) = q * base + r
        BY <3>2, <3>3, <3>4, <3>5, ValueOfAppend
      <3> QED
        BY <2>2, <3>1, <3>5, <3>6
    <2> QED
      BY <2>2, <2>4, <2>5
  <1>3. Reads(value)
    BY <1>2
  <1> QED
    BY <1>1, <1>3

-----------------------------------------------------------------------------
(* Parsing.                                                                *)
IntegerFormats == {"unsigned", "signed"}

TextFormats == {"hex", "hex_padded", "double", "human", "duration", "escape"}

(* Nothing is said of the text that any other call has written.            *)
LEMMA NoText ==
  ASSUME call'.op \notin TextFormats
  PROVE  TextReads'
  BY DEF TextReads, TextFormats

LEMMA NoNumber ==
  ASSUME call'.op \notin Parses \cup NumberFormats
  PROVE  InvNumbers' /\ NumberCall(call')
  <1>1. TextReads'
    BY NoText DEF TextFormats, NumberFormats
  <1>2. InvWritten' /\ InvParse' /\ ParsedIsValue' /\ IntegersReadBack'
    BY DEF InvWritten, InvParse, ParsedIsValue, IntegersReadBack, Pending, Returned, Parses, NumberFormats
  <1>3. NumberCall(call')
    BY DEF NumberCall, Parses, NumberFormats
  <1> QED
    BY <1>1, <1>2, <1>3 DEF InvNumbers, FormattedReads

LEMMA NumberTypes ==
  UnsignedMax \in Nat /\ SignedMax \in Nat /\ UnsignedMax = 2 * SignedMax + 1
  BY NumbersAssumption

LEMMA TextOf ==
  ASSUME InvCall, call.op \in Parses
  PROVE  /\ call.text \in Seq(Nat) /\ Len(call.text) \in Nat
         /\ Prefix \in {0, 1} /\ Prefix \in 0..Len(call.text)
  BY DEF InvCall, NumberCall, Prefix

(* The digits that a number begins with end before the first character     *)
(* that is none.                                                           *)
LEMMA LeadingIs ==
  ASSUME InvCall, call.op \in Parses, NEW n \in Prefix..Len(call.text),
         \A k \in (Prefix + 1)..n : IsDigit(call.text[k]),
         n = Len(call.text) \/ ~IsDigit(call.text[n + 1])
  PROVE  LeadingDigits = SubSeq(call.text, Prefix + 1, n)
  <1> DEFINE L    == Len(call.text)
             ends == {m \in Prefix..L : \A k \in (Prefix + 1)..m : IsDigit(call.text[k])}
  <1>1. L \in Nat /\ Prefix \in Nat /\ n \in Nat /\ Prefix <= n /\ n <= L
    BY TextOf
  <1>2. n \in ends
    OBVIOUS
  <1>3. ASSUME NEW m \in ends PROVE m <= n
    <2>1. m \in Nat /\ m <= L /\ \A k \in (Prefix + 1)..m : IsDigit(call.text[k])
      BY <1>1, <1>3
    <2>2. ASSUME m > n PROVE FALSE
      <3>1. n + 1 \in (Prefix + 1)..m /\ n # L
        BY <1>1, <2>1, <2>2
      <3> QED
        BY <2>1, <3>1
    <2> QED
      BY <1>1, <2>1, <2>2
  <1>4. \A x \in ends : (\A m \in ends : m <= x) => x = n
    <2>1. ends \subseteq Int
      BY <1>1
    <2> HIDE DEF ends
    <2> QED
      BY <1>1, <1>2, <1>3, <2>1
  <1>5. (CHOOSE x \in ends : \A m \in ends : m <= x) = n
    <2> HIDE DEF ends
    <2> QED
      BY <1>2, <1>3, <1>4
  <1> QED
    BY <1>5 DEF LeadingDigits

(* They are at least as many as have been found to be digits.              *)
LEMMA LeadingAtLeast ==
  ASSUME InvCall, call.op \in Parses, NEW n \in Prefix..Len(call.text),
         \A k \in (Prefix + 1)..n : IsDigit(call.text[k])
  PROVE  \E m \in n..Len(call.text) : LeadingDigits = SubSeq(call.text, Prefix + 1, m)
  <1> DEFINE L == Len(call.text)
             T == {m \in n..L : m = L \/ ~IsDigit(call.text[m + 1])}
  <1>1. L \in Nat /\ Prefix \in Nat /\ n \in Nat /\ Prefix <= n /\ n <= L
    BY TextOf
  <1>2. L \in T
    BY <1>1
  <1>3. PICK m \in T : \A k \in T : m <= k
    <2>1. T \in SUBSET Nat
      BY <1>1
    <2> HIDE DEF T
    <2> QED
      BY <1>2, <2>1, LeastNat
  <1>4. m \in n..L /\ (m = L \/ ~IsDigit(call.text[m + 1])) /\ m \in Nat
    BY <1>1
  <1>5. ASSUME NEW k \in (Prefix + 1)..m, ~IsDigit(call.text[k]) PROVE FALSE
    <2>1. k \in Nat /\ k > n /\ k <= m
      <3>1. ~ (k <= n)
        BY <1>1, <1>4, <1>5
      <3> QED
        BY <1>1, <1>4, <3>1
    <2>2. k - 1 \in n..L /\ k - 1 + 1 = k /\ ~ (m <= k - 1)
      BY <1>1, <1>4, <2>1
    <2>3. k - 1 \in T
      BY <1>5, <2>2
    <2> QED
      BY <1>3, <2>2, <2>3
  <1>6. m \in Prefix..L /\ \A k \in (Prefix + 1)..m : IsDigit(call.text[k])
    BY <1>1, <1>4, <1>5
  <1>7. LeadingDigits = SubSeq(call.text, Prefix + 1, m)
    BY <1>4, <1>6, LeadingIs
  <1> QED
    BY <1>4, <1>7

(* The pieces of a text between two characters.                            *)
LEMMA PieceDigits ==
  ASSUME InvCall, call.op \in Parses, NEW n \in Prefix..Len(call.text)
  PROVE  LET piece == SubSeq(call.text, Prefix + 1, n)
         IN /\ piece \in Seq(Nat) /\ Len(piece) = n - Prefix
            /\ piece = <<>> <=> n = Prefix
            /\ \A k \in Prefix..n : SubSeq(piece, 1, k - Prefix) = SubSeq(call.text, Prefix + 1, k)
            /\ n < Len(call.text) =>
                 SubSeq(call.text, Prefix + 1, n + 1) = Append(piece, call.text[n + 1])
  <1> DEFINE piece == SubSeq(call.text, Prefix + 1, n)
             L == Len(call.text)
  <1>1. /\ call.text \in Seq(Nat) /\ L \in Nat /\ Prefix \in {0, 1} /\ n \in Nat /\ Prefix <= n /\ n <= L
    BY TextOf
  <1>2. piece \in Seq(Nat) /\ Len(piece) = n - Prefix
    <2>1. \A i \in (Prefix + 1)..n : call.text[i] \in Nat
      BY <1>1
    <2>2. Prefix + 1 \in Int /\ n \in Int
      BY <1>1
    <2>3. piece \in Seq(Nat) /\ Len(piece) = IF Prefix + 1 <= n THEN n - (Prefix + 1) + 1 ELSE 0
      BY <2>1, <2>2, SubSeqProperties
    <2> QED
      BY <1>1, <2>3
  <1>3. piece = <<>> <=> n = Prefix
    BY <1>1, <1>2
  <1>4. ASSUME NEW k \in Prefix..n
        PROVE  SubSeq(piece, 1, k - Prefix) = SubSeq(call.text, Prefix + 1, k)
    <2>1. CASE k = Prefix
      <3>1. 1 \in Int /\ k - Prefix \in Int /\ k - Prefix < 1 /\ Prefix + 1 \in Int /\ k \in Int /\ k < Prefix + 1
        BY <1>1, <2>1
      <3>2. SubSeq(piece, 1, k - Prefix) = <<>>
        BY <3>1, SubSeqEmpty
      <3>3. SubSeq(call.text, Prefix + 1, k) = <<>>
        BY <3>1, SubSeqEmpty
      <3> QED
        BY <3>2, <3>3
    <2>2. CASE k # Prefix
      <3>1. /\ Prefix + 1 \in 1..L /\ n \in 1..L
            /\ 1 \in 1..(n - (Prefix + 1) + 1) /\ k - Prefix \in 1..(n - (Prefix + 1) + 1)
            /\ Prefix + 1 + 1 - 1 = Prefix + 1 /\ Prefix + 1 + (k - Prefix) - 1 = k
        BY <1>1, <1>4, <2>2
      <3>2. SubSeq(SubSeq(call.text, Prefix + 1, n), 1, k - Prefix) =
              SubSeq(call.text, (Prefix + 1) + 1 - 1, (Prefix + 1) + (k - Prefix) - 1)
        BY <1>1, <3>1, SubSeqOfSubSeq
      <3> QED
        BY <3>1, <3>2
    <2> QED
      BY <2>1, <2>2
  <1>5. ASSUME n < L PROVE SubSeq(call.text, Prefix + 1, n + 1) = Append(piece, call.text[n + 1])
    <2>1. Prefix + 1 \in 1..L /\ n + 1 \in (Prefix + 1)..L /\ (n + 1) - 1 = n
      BY <1>1, <1>5
    <2>2. SubSeq(call.text, Prefix + 1, n + 1) =
            SubSeq(call.text, Prefix + 1, (n + 1) - 1) \o << call.text[n + 1] >>
      BY <1>1, <2>1, SubSeqRecursiveSecond
    <2>3. call.text[n + 1] \in Nat
      BY <1>1, <1>5
    <2> HIDE DEF piece
    <2>4. piece \o << call.text[n + 1] >> = Append(piece, call.text[n + 1])
      BY <1>2, <2>3
    <2> QED
      BY <2>1, <2>2, <2>4 DEF piece
  <1> QED
    BY <1>2, <1>3, <1>4, <1>5

LEMMA DecimalRead ==
  ASSUME NEW n \in Nat
  PROVE  /\ Digits(n, 10) \in Seq(0..9) /\ Digits(n, 10) \in Seq(Nat)
         /\ Len(Digits(n, 10)) > 0 /\ ValueOf(Digits(n, 10), 10) = n
  <1> DEFINE base == 10
  <1>1. base \in Nat /\ base >= 2 /\ base - 1 = 9
    OBVIOUS
  <1> HIDE DEF base
  <1>2. /\ Digits(n, base) \in Seq(0..(base - 1)) /\ Len(Digits(n, base)) > 0
        /\ ValueOf(Digits(n, base), base) = n
    BY <1>1, DigitsRead
  <1>3. Digits(n, base) \in Seq(0..9)
    BY <1>1, <1>2
  <1>4. Digits(n, base) \in Seq(Nat)
    BY <1>3
  <1> QED
    BY <1>2, <1>3, <1>4 DEF base

(* Characters that spell a number are its digits behind its sign.          *)
LEMMA SpelledIs ==
  ASSUME NEW n \in Int
  PROVE  /\ Spelled(n) \in Seq(Nat) /\ Len(Spelled(n)) > 0
         /\ n >= 0 => /\ Spelled(n) = Digits(n, 10) /\ Spelled(n) \in Seq(0..9)
                      /\ ValueOf(Spelled(n), 10) = n
         /\ n < 0 => /\ Spelled(n) = <<Minus>> \o Digits(-n, 10) /\ Digits(-n, 10) \in Seq(0..9)
                     /\ Digits(-n, 10) \in Seq(Nat) /\ Len(Digits(-n, 10)) > 0
                     /\ ValueOf(Digits(-n, 10), 10) = -n
  <1>1. CASE n >= 0
    <2>1. /\ Digits(n, 10) \in Seq(0..9) /\ Digits(n, 10) \in Seq(Nat) /\ Len(Digits(n, 10)) > 0
          /\ ValueOf(Digits(n, 10), 10) = n
      BY <1>1, DecimalRead
    <2>2. Spelled(n) = Digits(n, 10)
      BY <1>1 DEF Spelled
    <2> QED
      BY <1>1, <2>1, <2>2
  <1>2. CASE n < 0
    <2>1. -n \in Nat
      BY <1>2
    <2>2. /\ Digits(-n, 10) \in Seq(0..9) /\ Digits(-n, 10) \in Seq(Nat) /\ Len(Digits(-n, 10)) > 0
          /\ ValueOf(Digits(-n, 10), 10) = -n
      BY <2>1, DecimalRead
    <2>3. Spelled(n) = <<Minus>> \o Digits(-n, 10)
      BY <1>2 DEF Spelled
    <2>5. <<Minus>> \in Seq(Nat) /\ Len(<<Minus>>) = 1
      BY DEF Minus
    <2> DEFINE d == Digits(-n, 10)
               m == <<Minus>>
    <2>6. m \o d \in Seq(Nat) /\ Len(m \o d) > 0
      <3>1. m \in Seq(Nat) /\ Len(m) = 1 /\ d \in Seq(Nat) /\ Len(d) > 0
        BY <2>2, <2>5
      <3> HIDE DEF m, d
      <3> QED
        BY <3>1
    <2> QED
      BY <1>2, <2>2, <2>3, <2>6
  <1> QED
    BY <1>1, <1>2

(* What is parsed of a text that was formatted.                            *)
LEMMA SpelledLeads ==
  ASSUME InvCall, call.op \in Parses, "origin" \in DOMAIN call
  PROVE  LET negative == Prefix = 1 /\ Head(call.text) = Minus
             value    == ValueOf(LeadingDigits, 10)
         IN /\ LeadingDigits # <<>> /\ call.origin \in Int
            /\ negative <=> call.origin < 0
            /\ value = (IF negative THEN -call.origin ELSE call.origin)
            /\ value <= (IF call.op = "parse_unsigned" THEN UnsignedMax
                         ELSE IF negative THEN SignedMax + 1 ELSE SignedMax)
            /\ Prefix + Len(LeadingDigits) = Len(call.text)
  <1> DEFINE n == call.origin
             t == call.text
  <1>1. /\ t = Spelled(n) /\ n \in Int
        /\ call.op = "parse_unsigned" => n \in 0..UnsignedMax
        /\ call.op # "parse_unsigned" => n \in (-(SignedMax + 1))..SignedMax
    BY NumberTypes DEF InvCall, NumberCall, UnsignedIntegers, SignedIntegers
  <1>2. t \in Seq(Nat) /\ Len(t) \in Nat /\ Len(t) > 0 /\ Prefix \in {0, 1} /\ Prefix \in 0..Len(t)
    BY <1>1, TextOf, SpelledIs
  <1>3. CASE n >= 0
    <2>1. t \in Seq(0..9) /\ ValueOf(t, 10) = n
      BY <1>1, <1>3, SpelledIs
    <2>2. Head(t) \in 0..9
      BY <1>2, <2>1
    <2>3. Prefix = 0
      BY <2>2 DEF Prefix, Minus, Plus
    <2>4. Len(t) \in Prefix..Len(t) /\ \A k \in (Prefix + 1)..Len(t) : IsDigit(t[k])
      BY <1>2, <2>1, <2>3 DEF IsDigit
    <2>5. LeadingDigits = SubSeq(t, Prefix + 1, Len(t))
      BY <2>4, LeadingIs
    <2>6. LeadingDigits = t
      BY <1>2, <2>3, <2>5, SubSeqFull
    <2> QED
      BY <1>1, <1>2, <1>3, <2>1, <2>3, <2>6
  <1>4. CASE n < 0
    <2> DEFINE d == Digits(-n, 10)
    <2>1. /\ t = <<Minus>> \o d /\ d \in Seq(0..9) /\ d \in Seq(Nat) /\ Len(d) > 0
          /\ ValueOf(d, 10) = -n
      BY <1>1, <1>4, SpelledIs
    <2> HIDE DEF d
    <2>2. /\ Len(t) = Len(d) + 1 /\ Len(d) \in Nat /\ t[1] = Minus
          /\ \A k \in 1..Len(d) : t[k + 1] = d[k]
      BY <2>1 DEF Minus
    <2>3. Head(t) = Minus /\ t # <<>>
      BY <1>2, <2>2
    <2>4. call.op = "parse_signed"
      BY <1>1, <1>4, NumberTypes DEF Parses
    <2>5. Prefix = 1
      BY <2>3, <2>4 DEF Prefix
    <2>6. \A k \in (Prefix + 1)..Len(t) : IsDigit(t[k])
      <3> SUFFICES ASSUME NEW k \in 2..Len(t) PROVE t[k] \in 0..9
        BY <2>5 DEF IsDigit
      <3>1. k - 1 \in 1..Len(d) /\ k = (k - 1) + 1
        BY <2>2
      <3> QED
        BY <2>1, <2>2, <3>1
    <2>7. LeadingDigits = SubSeq(t, 2, Len(t))
      <3> DEFINE last == Len(t)
      <3>1. last \in Prefix..Len(t) /\ last = Len(t)
        BY <1>2
      <3> HIDE DEF last
      <3>2. \A k \in (Prefix + 1)..last : IsDigit(t[k])
        BY <2>6, <3>1
      <3>3. LeadingDigits = SubSeq(t, Prefix + 1, last)
        BY <3>1, <3>2, LeadingIs
      <3> QED
        BY <2>5, <3>1, <3>3
    <2>8. SubSeq(t, 2, Len(t)) = d
      <3> DEFINE e == SubSeq(t, 2, Len(t))
      <3>1. /\ e \in Seq(Nat) /\ Len(e) = Len(d)
            /\ \A k \in 1..(Len(t) - 2 + 1) : e[k] = t[2 + k - 1]
        <4>1. \A k \in 2..Len(t) : t[k] \in Nat
          BY <1>2
        <4>2. /\ e \in Seq(Nat) /\ Len(e) = IF 2 <= Len(t) THEN Len(t) - 2 + 1 ELSE 0
              /\ \A k \in 1..(Len(t) - 2 + 1) : e[k] = t[2 + k - 1]
          BY <1>2, <4>1, SubSeqProperties
        <4> QED
          BY <2>2, <4>2
      <3> HIDE DEF e
      <3>2. \A k \in 1..Len(e) : e[k] = d[k]
        <4> TAKE k \in 1..Len(e)
        <4>1. k \in 1..(Len(t) - 2 + 1) /\ 2 + k - 1 = k + 1 /\ k \in 1..Len(d)
          BY <2>2, <3>1
        <4> QED
          BY <2>2, <3>1, <4>1
      <3>3. d \in Seq(Nat)
        BY <2>1
      <3>4. e = d
        BY <3>1, <3>2, <3>3, SeqEqual
      <3> QED
        BY <3>4 DEF e
    <2>9. LeadingDigits = d
      BY <2>7, <2>8
    <2>10. /\ LeadingDigits # <<>> /\ Prefix + Len(LeadingDigits) = Len(t)
           /\ ValueOf(LeadingDigits, 10) = -n
      BY <2>1, <2>2, <2>5, <2>9
    <2>11. -n <= SignedMax + 1 /\ call.op # "parse_unsigned"
      BY <1>1, <2>4, NumberTypes
    <2> HIDE DEF n, t
    <2> QED
      BY <1>1, <1>4, <2>3, <2>5, <2>10, <2>11 DEF n, t
  <1> QED
    BY <1>1, <1>3, <1>4

(* The answer that a call should be given.                                 *)
Answered ==
  LET negative == Prefix = 1 /\ Head(call.text) = Minus
      value    == ValueOf(LeadingDigits, 10)
      largest  == IF call.op = "parse_unsigned" THEN UnsignedMax
                  ELSE IF negative THEN SignedMax + 1 ELSE SignedMax
  IN IF LeadingDigits = <<>> \/ value > largest
     THEN result' = "false" /\ output' = [value |-> 0, consumed |-> 0]
     ELSE /\ result' = "true"
          /\ output' = [value |-> IF negative THEN -value ELSE value,
                        consumed |-> Prefix + Len(LeadingDigits)]

LEMMA AnsweredKeeps ==
  ASSUME InvCall, call.op \in Parses, call' = call, result' # "pending", Answered
  PROVE  InvNumbers'
  <1>1. Prefix' = Prefix /\ LeadingDigits' = LeadingDigits
    BY DEF Prefix, LeadingDigits
  <1>2. ParsedIsValue'
    BY <1>1 DEF ParsedIsValue, Answered
  <1>3. IntegersReadBack'
    <2> SUFFICES ASSUME "origin" \in DOMAIN call
                 PROVE  result' = "true" /\ output' = [value |-> call.origin, consumed |-> Len(call.text)]
      BY DEF IntegersReadBack
    <2> DEFINE negative == Prefix = 1 /\ Head(call.text) = Minus
               value    == ValueOf(LeadingDigits, 10)
               largest  == IF call.op = "parse_unsigned" THEN UnsignedMax
                           ELSE IF negative THEN SignedMax + 1 ELSE SignedMax
    <2>1. /\ LeadingDigits # <<>> /\ call.origin \in Int
          /\ negative <=> call.origin < 0
          /\ value = (IF negative THEN -call.origin ELSE call.origin)
          /\ value <= largest
          /\ Prefix + Len(LeadingDigits) = Len(call.text)
      BY SpelledLeads
    <2>2. ~ (value > largest) /\ (IF negative THEN -value ELSE value) = call.origin
      <3>1. largest \in Int
        BY NumberTypes
      <3> HIDE DEF largest, negative, value
      <3>2. value \in Int
        BY <2>1
      <3> QED
        BY <2>1, <3>1, <3>2
    <2> HIDE DEF largest, negative, value
    <2>3. IF LeadingDigits = <<>> \/ value > largest
          THEN result' = "false" /\ output' = [value |-> 0, consumed |-> 0]
          ELSE /\ result' = "true"
               /\ output' = [value |-> IF negative THEN -value ELSE value,
                             consumed |-> Prefix + Len(LeadingDigits)]
      BY DEF Answered, largest, negative, value
    <2> QED
      BY <2>1, <2>2, <2>3
  <1>4. InvWritten' /\ InvParse' /\ TextReads'
    BY NoText DEF InvWritten, InvParse, Returned, Pending, Parses, TextFormats
  <1> QED
    BY <1>2, <1>3, <1>4 DEF InvNumbers, FormattedReads

LEMMA ParseNothingKeeps ==
  ASSUME InvCall, ParseNothing
  PROVE  InvNumbers'
  <1>1. /\ call.op \in Parses /\ call' = call /\ result' = "false"
        /\ output' = [value |-> 0, consumed |-> 0]
        /\ call.text = <<>> \/ Prefix = Len(call.text)
    BY DEF ParseNothing, Failed, Pending, Return, Parses
  <1>2. Prefix = Len(call.text) /\ Prefix \in Nat /\ Prefix \in Prefix..Len(call.text)
    BY <1>1, TextOf
  <1>3. LeadingDigits = SubSeq(call.text, Prefix + 1, Prefix)
    <2>1. \A k \in (Prefix + 1)..Prefix : IsDigit(call.text[k])
      BY <1>2
    <2> QED
      BY <1>1, <1>2, <2>1, LeadingIs
  <1>4. LeadingDigits = <<>>
    BY <1>1, <1>2, <1>3, PieceDigits
  <1> QED
    BY <1>1, <1>4, AnsweredKeeps DEF Answered

(* The digits passed so far.                                               *)
LEMMA PassedIs ==
  ASSUME InvCall, InvNumbers, Pending(Parses)
  PROVE  /\ call.op \in Parses /\ at \in Nat /\ Prefix + at \in Prefix..Len(call.text)
         /\ \A k \in (Prefix + 1)..(Prefix + at) : IsDigit(call.text[k])
         /\ Value = ValueOf(DigitsPassed, 10) /\ Value \in 0..UnsignedMax
         /\ DigitsPassed \in Seq(Nat) /\ DigitsPassed = SubSeq(call.text, Prefix + 1, Prefix + at)
         /\ Len(DigitsPassed) = at /\ (DigitsPassed = <<>> <=> at = 0)
  <1>1. /\ call.op \in Parses /\ at \in 0..(Len(call.text) - Prefix)
        /\ \A k \in (Prefix + 1)..(Prefix + at) : IsDigit(call.text[k])
        /\ Value = ValueOf(DigitsPassed, 10) /\ Value \in 0..UnsignedMax
    BY DEF InvNumbers, InvParse, Pending, UnsignedIntegers
  <1>2. Len(call.text) \in Nat /\ Prefix \in Nat
    BY <1>1, TextOf
  <1> DEFINE n == Prefix + at
  <1>3. n \in Prefix..Len(call.text) /\ at \in Nat /\ n - Prefix = at /\ (n = Prefix <=> at = 0)
    BY <1>1, <1>2
  <1>4. DigitsPassed = SubSeq(call.text, Prefix + 1, n)
    BY DEF DigitsPassed
  <1> HIDE DEF n
  <1>5. DigitsPassed \in Seq(Nat) /\ Len(DigitsPassed) = n - Prefix /\ (DigitsPassed = <<>> <=> n = Prefix)
    BY <1>1, <1>3, <1>4, PieceDigits
  <1> QED
    BY <1>1, <1>3, <1>4, <1>5 DEF n

LEMMA OverflowsIs ==
  ASSUME NEW v \in Nat, NEW d \in 0..9, NEW max \in Nat
  PROVE  v > (max - d) \div 10 <=> v * 10 + d > max
  <1>1. CASE d <= max
    BY <1>1
  <1>2. CASE d > max
    <2>1. (max - d) \div 10 = -1
      BY <1>2
    <2> QED
      BY <1>2, <2>1
  <1> QED
    BY <1>1, <1>2

LEMMA ParseDigitKeeps ==
  ASSUME InvCall, InvNumbers, ParseDigit
  PROVE  InvNumbers'
  <1> DEFINE n == Prefix + at
             d == NextDigit
             s == SubSeq(call.text, Prefix + 1, n + 1)
  <1>1. Pending(Parses) /\ call' = call /\ MoreDigits /\ Prefix' = Prefix
    BY DEF ParseDigit, Failed, Pending, Return, Go, Parses, Prefix
  <1>2. /\ call.op \in Parses /\ at \in Nat /\ n \in Prefix..Len(call.text) /\ n < Len(call.text)
        /\ \A k \in (Prefix + 1)..n : IsDigit(call.text[k])
        /\ Value = ValueOf(DigitsPassed, 10) /\ Value \in 0..UnsignedMax /\ Value \in Nat
        /\ DigitsPassed \in Seq(Nat) /\ DigitsPassed = SubSeq(call.text, Prefix + 1, n)
    BY <1>1, PassedIs, NumberTypes DEF MoreDigits
  <1>3. /\ Prefix \in Nat /\ Len(call.text) \in Nat /\ n \in Nat /\ n + 1 \in Prefix..Len(call.text)
        /\ (n + 1) - Prefix = at + 1 /\ UnsignedMax \in Nat
    <2>1. Prefix \in Nat /\ Len(call.text) \in Nat /\ UnsignedMax \in Nat
      <3> HIDE DEF n, d, s
      <3>1. Prefix \in {0, 1} /\ Len(call.text) \in Nat
        BY <1>2, TextOf
      <3>2. UnsignedMax \in Nat
        BY NumberTypes
      <3> QED
        BY <3>1, <3>2
    <2>2. n \in Nat /\ n + 1 \in Prefix..Len(call.text)
      <3> HIDE DEF n
      <3> QED
        BY <1>2, <2>1
    <2>3. (n + 1) - Prefix = at + 1
      BY <1>2, <2>1
    <2> QED
      BY <2>1, <2>2, <2>3
  <1>4. d = call.text[n + 1] /\ d \in 0..9
    BY <1>1 DEF NextDigit, MoreDigits, IsDigit
  <1>5. \A k \in (Prefix + 1)..(n + 1) : IsDigit(call.text[k])
    <2> SUFFICES ASSUME NEW k \in (Prefix + 1)..(n + 1), k # n + 1 PROVE IsDigit(call.text[k])
      BY <1>4 DEF IsDigit
    <2>1. k \in (Prefix + 1)..n
      BY <1>3
    <2> QED
      BY <1>2, <2>1
  <1> HIDE DEF n, d
  <1>6. s = Append(DigitsPassed, d)
    BY <1>2, <1>4, PieceDigits
  <1>7. ValueOf(s, 10) = Value * 10 + d /\ s \in Seq(Nat)
    <2>1. d \in Nat
      BY <1>4
    <2>2. 10 \in Nat
      OBVIOUS
    <2>3. ValueOf(Append(DigitsPassed, d), 10) = ValueOf(DigitsPassed, 10) * 10 + d
      BY <1>2, <2>1, <2>2, ValueOfAppend
    <2>4. Append(DigitsPassed, d) \in Seq(Nat)
      BY <1>2, <2>1
    <2> QED
      BY <1>2, <1>6, <2>3, <2>4
  <1>8. CASE Overflows(Value, d)
    <2>1. result' = "false" /\ output' = [value |-> 0, consumed |-> 0]
      BY <1>8 DEF ParseDigit, Failed, Return, d
    <2>2. Value * 10 + d > UnsignedMax
      BY <1>2, <1>3, <1>4, <1>8, OverflowsIs DEF Overflows
    <2>3. PICK m \in (n + 1)..Len(call.text) : LeadingDigits = SubSeq(call.text, Prefix + 1, m)
      BY <1>2, <1>3, <1>5, LeadingAtLeast
    <2>4. /\ m \in Prefix..Len(call.text) /\ n + 1 \in Prefix..m
          /\ (n + 1) - Prefix \in 0..(m - Prefix)
      BY <1>3
    <2>5. /\ LeadingDigits \in Seq(Nat) /\ Len(LeadingDigits) = m - Prefix
          /\ SubSeq(LeadingDigits, 1, (n + 1) - Prefix) = s
      BY <1>2, <2>3, <2>4, PieceDigits
    <2>6. ValueOf(s, 10) <= ValueOf(LeadingDigits, 10)
      <3>1. 10 \in Nat \ {0}
        OBVIOUS
      <3>2. (n + 1) - Prefix \in 0..Len(LeadingDigits)
        BY <2>4, <2>5
      <3>3. ValueOf(SubSeq(LeadingDigits, 1, (n + 1) - Prefix), 10) <= ValueOf(LeadingDigits, 10)
        BY <2>5, <3>1, <3>2, ValueGrows
      <3> QED
        BY <2>5, <3>3
    <2>7. ValueOf(LeadingDigits, 10) \in Nat
      <3>1. 10 \in Nat
        OBVIOUS
      <3> QED
        BY <2>5, <3>1, ValueType
    <2>8. ValueOf(LeadingDigits, 10) > UnsignedMax
      <3>1. ValueOf(s, 10) > UnsignedMax
        BY <1>7, <2>2
      <3>2. ValueOf(s, 10) \in Nat
        <4>1. 10 \in Nat
          OBVIOUS
        <4> HIDE DEF s
        <4> QED
          BY <1>7, <4>1, ValueType
      <3> QED
        BY <1>3, <2>6, <2>7, <3>1, <3>2
    <2>9. ValueOf(LeadingDigits, 10) > SignedMax /\ ValueOf(LeadingDigits, 10) > SignedMax + 1
      BY <2>7, <2>8, NumberTypes
    <2> QED
      BY <1>1, <1>2, <2>1, <2>8, <2>9, AnsweredKeeps DEF Answered
  <1>9. CASE ~Overflows(Value, d)
    <2>1. /\ at' = at + 1 /\ result' = "pending"
          /\ output' = <<(Value * 10 + d) % (UnsignedMax + 1)>>
      BY <1>1, <1>9 DEF ParseDigit, Go, Pending, d
    <2>2. Value * 10 + d \in 0..UnsignedMax
      <3>1. ~ (Value * 10 + d > UnsignedMax)
        BY <1>2, <1>3, <1>4, <1>9, OverflowsIs DEF Overflows
      <3>2. Value * 10 + d \in Nat
        <4>1. Value \in Nat
          BY <1>2
        <4>2. d \in Nat
          BY <1>4
        <4> QED
          BY <4>1, <4>2
      <3> QED
        BY <1>3, <3>1, <3>2
    <2>3. Value' = Value * 10 + d
      <3> DEFINE x == Value * 10 + d
      <3>1. x \in 0..UnsignedMax
        BY <2>2
      <3>2. Value' = x % (UnsignedMax + 1)
        BY <2>1 DEF Value
      <3> HIDE DEF x
      <3>3. x % (UnsignedMax + 1) = x
        BY <1>3, <3>1
      <3> QED
        BY <3>2, <3>3 DEF x
    <2>4. Prefix + at' = n + 1 /\ at' \in 0..(Len(call.text) - Prefix)
      BY <1>2, <1>3, <2>1 DEF n
    <2>5. DigitsPassed' = s
      BY <1>1, <2>4 DEF DigitsPassed
    <2> HIDE DEF s
    <2>6. InvParse'
      BY <1>1, <1>5, <1>7, <2>2, <2>3, <2>4, <2>5 DEF InvParse, UnsignedIntegers
    <2> QED
      <3>1. TextReads'
        BY <1>1, <1>2, NoText DEF Parses, TextFormats
      <3> QED
        BY <1>1, <1>2, <2>1, <2>6, <3>1
           DEF InvNumbers, InvWritten, ParsedIsValue, FormattedReads, IntegersReadBack, Returned
  <1> QED
    BY <1>8, <1>9

(* The value of the digits that the number turned out to have.             *)
LEMMA PassedAreLeading ==
  ASSUME InvCall, InvNumbers, Pending(Parses), ~MoreDigits
  PROVE  /\ call.op \in Parses /\ at \in Nat /\ Prefix \in {0, 1}
         /\ Value = ValueOf(LeadingDigits, 10) /\ Value \in Nat
         /\ Len(LeadingDigits) = at /\ (LeadingDigits = <<>> <=> at = 0)
         /\ Value <= UnsignedMax
  <1> DEFINE n == Prefix + at
  <1>1. /\ call.op \in Parses /\ at \in Nat /\ n \in Prefix..Len(call.text)
        /\ \A k \in (Prefix + 1)..n : IsDigit(call.text[k])
        /\ Value = ValueOf(DigitsPassed, 10) /\ Value \in 0..UnsignedMax
        /\ DigitsPassed = SubSeq(call.text, Prefix + 1, n)
        /\ Len(DigitsPassed) = at /\ (DigitsPassed = <<>> <=> at = 0)
    BY PassedIs
  <1>2. n = Len(call.text) \/ ~IsDigit(call.text[n + 1])
    <2>1. ~ (n < Len(call.text) /\ IsDigit(call.text[n + 1]))
      BY DEF MoreDigits, NextDigit
    <2>2. Len(call.text) \in Nat /\ Prefix \in {0, 1}
      BY <1>1, TextOf
    <2> HIDE DEF n
    <2> QED
      BY <1>1, <2>1, <2>2
  <1> HIDE DEF n
  <1>3. LeadingDigits = DigitsPassed
    BY <1>1, <1>2, LeadingIs
  <1>4. Value \in Nat /\ Value <= UnsignedMax
    <2>1. Value \in 0..UnsignedMax /\ UnsignedMax \in Nat
      BY <1>1, NumberTypes
    <2> QED
      BY <2>1
  <1>5. Prefix \in {0, 1}
    BY <1>1, TextOf
  <1> QED
    BY <1>1, <1>3, <1>4, <1>5

LEMMA ParseUnsignedEndKeeps ==
  ASSUME InvCall, InvNumbers, ParseUnsignedEnd
  PROVE  InvNumbers'
  <1>1. /\ Pending(Parses) /\ call.op = "parse_unsigned" /\ ~MoreDigits /\ call' = call
        /\ result' # "pending" /\ Prefix = 0
    BY DEF ParseUnsignedEnd, Failed, Pending, Return, Parses, Prefix
  <1>2. /\ call.op \in Parses /\ at \in Nat /\ Value = ValueOf(LeadingDigits, 10) /\ Value \in Nat
        /\ Len(LeadingDigits) = at /\ (LeadingDigits = <<>> <=> at = 0) /\ Value <= UnsignedMax
    BY <1>1, PassedAreLeading
  <1>3. Answered
    <2>1. CASE at = 0
      BY <1>2, <2>1 DEF Answered, ParseUnsignedEnd, Failed, Return
    <2>2. CASE at # 0
      <3>1. result' = "true" /\ output' = [value |-> Value, consumed |-> at]
        BY <2>2 DEF ParseUnsignedEnd, Return
      <3>2. ~ (Value > UnsignedMax) /\ Prefix + at = at
        BY <1>1, <1>2, NumberTypes
      <3> QED
        BY <1>1, <1>2, <2>2, <3>1, <3>2 DEF Answered
    <2> QED
      BY <2>1, <2>2
  <1> QED
    BY <1>1, <1>2, <1>3, AnsweredKeeps

LEMMA ParseSignedEndKeeps ==
  ASSUME InvCall, InvNumbers, ParseSignedEnd
  PROVE  InvNumbers'
  <1> DEFINE negative == Head(call.text) = Minus
             most     == IF negative THEN SignedMax + 1 ELSE SignedMax
  <1>1. /\ Pending(Parses) /\ call.op = "parse_signed" /\ ~MoreDigits /\ call' = call
        /\ result' # "pending" /\ call.text # <<>> /\ (negative => Prefix = 1)
    BY DEF ParseSignedEnd, Failed, Pending, Return, Parses, Prefix
  <1>2. /\ call.op \in Parses /\ Value = ValueOf(LeadingDigits, 10)
        /\ Len(LeadingDigits) = at /\ (LeadingDigits = <<>> <=> at = 0)
    BY <1>1, PassedAreLeading
  <1>3. IF at = 0 \/ Value > most
        THEN result' = "false" /\ output' = [value |-> 0, consumed |-> 0]
        ELSE /\ result' = "true"
             /\ output' = [value |-> IF negative THEN -Value ELSE Value, consumed |-> Prefix + at]
    BY DEF ParseSignedEnd, Failed, Return
  <1>4. Answered
    BY <1>1, <1>2, <1>3 DEF Answered
  <1> QED
    BY <1>1, <1>2, <1>4, AnsweredKeeps

(* Formatting.                                                             *)
LEMMA FormatKeeps ==
  ASSUME InvCall, FormatUnsigned \/ FormatSigned
  PROVE  InvNumbers'
  <1>1. /\ call.op \in IntegerFormats /\ call' = call /\ result' # "pending"
        /\ result' = "true" => output' = Spelled(Arg)
    <2>1. CASE FormatUnsigned
      <3>1. call.op = "unsigned" /\ call' = call
        BY <2>1 DEF FormatUnsigned, Pending, Write, Return
      <3>2. Arg \in Int /\ Arg >= 0
        BY <3>1, NumberTypes DEF InvCall, NumberCall, UnsignedIntegers, Arg
      <3>3. Digits(Arg, 10) = Spelled(Arg)
        BY <3>2 DEF Spelled
      <3>4. result' # "pending" /\ (result' = "true" => output' = Digits(Arg, 10))
        BY <2>1 DEF FormatUnsigned, Write, Return
      <3> QED
        BY <3>1, <3>3, <3>4 DEF IntegerFormats
    <2>2. CASE FormatSigned
      BY <2>2 DEF FormatSigned, Pending, Write, Return, IntegerFormats
    <2> QED
      BY <2>1, <2>2
  <1>2. InvWritten'
    BY <1>1 DEF InvWritten, Arg
  <1>3. TextReads'
    BY <1>1, NoText DEF IntegerFormats, TextFormats
  <1> QED
    BY <1>1, <1>2, <1>3 DEF InvNumbers, InvParse, ParsedIsValue, FormattedReads, IntegersReadBack,
                            Pending, Returned, Parses, IntegerFormats

LEMMA ParseFormattedKeeps ==
  ASSUME InvCall, InvNumbers, ParseFormatted
  PROVE  InvNumbers' /\ NumberCall(call') /\ call'.op \in Parses /\ "op" \in DOMAIN call'
  <1> DEFINE reads == IF call.op = "unsigned" THEN "parse_unsigned" ELSE "parse_signed"
  <1>1. /\ call.op \in IntegerFormats /\ output = Spelled(Arg)
        /\ call' = [op |-> reads, text |-> output, origin |-> Arg]
        /\ at' = 0 /\ output' = <<>> /\ result' = "pending"
    BY DEF ParseFormatted, InvNumbers, InvWritten, Returned, IntegerFormats, CallNext
  <1>2. Arg \in (IF reads = "parse_unsigned" THEN UnsignedIntegers ELSE SignedIntegers) /\ Arg \in Int
    BY <1>1, NumberTypes DEF InvCall, NumberCall, Arg, IntegerFormats, UnsignedIntegers, SignedIntegers
  <1>3. output \in Seq(Nat) /\ Len(output) > 0
    BY <1>1, <1>2, SpelledIs
  <1>4. /\ call'.op = reads /\ call'.text = output /\ call'.origin = Arg /\ reads \in Parses
        /\ reads # "unsigned" /\ reads # "signed" /\ "op" \in DOMAIN call'
    BY <1>1 DEF Parses
  <1>5. NumberCall(call')
    BY <1>1, <1>2, <1>3, <1>4 DEF NumberCall
  <1>6. Value' = 0 /\ Prefix' \in {0, 1}
    BY <1>1 DEF Value, Prefix
  <1>7. Prefix' <= Len(output)
    BY <1>3, <1>6
  <1>8. DigitsPassed' = <<>>
    <2>1. DigitsPassed' = SubSeq(output, Prefix' + 1, Prefix' + 0)
      BY <1>1, <1>4 DEF DigitsPassed
    <2>2. Prefix' + 1 \in Int /\ Prefix' + 0 \in Int /\ Prefix' + 0 < Prefix' + 1
      <3>1. \A p \in {0, 1} : p + 1 \in Int /\ p + 0 \in Int /\ p + 0 < p + 1
        OBVIOUS
      <3>2. Prefix' \in {0, 1}
        BY <1>6
      <3> QED
        BY <3>1, <3>2
    <2> QED
      BY <2>1, <2>2, SubSeqEmpty
  <1>9. ValueOf(DigitsPassed', 10) = 0
    <2>1. 10 \in Nat
      OBVIOUS
    <2> QED
      BY <1>8, <2>1, ValueOfNone
  <1>10. InvParse'
    <2>1. at' \in 0..(Len(call'.text) - Prefix')
      BY <1>1, <1>3, <1>4, <1>6, <1>7
    <2>2. \A k \in (Prefix' + 1)..(Prefix' + at') : FALSE
      <3>1. \A p \in {0, 1} : (p + 1)..(p + 0) = {}
        OBVIOUS
      <3>2. Prefix' \in {0, 1} /\ at' = 0
        BY <1>1, <1>6
      <3> QED
        BY <3>1, <3>2
    <2>3. Value' \in 0..UnsignedMax
      BY <1>6, NumberTypes
    <2> QED
      BY <1>6, <1>9, <2>1, <2>2, <2>3 DEF InvParse, UnsignedIntegers
  <1>11. TextReads'
    BY <1>4, NoText DEF Parses, TextFormats
  <1> QED
    BY <1>1, <1>4, <1>5, <1>10, <1>11
       DEF InvNumbers, InvWritten, ParsedIsValue, FormattedReads, IntegersReadBack, Returned

-----------------------------------------------------------------------------
(* Dumps.  The length of the pieces so far, and what they show.            *)
LengthsOf(f, pieces) ==
  f = [n \in 0..Len(pieces) |-> IF n = 0 THEN 0 ELSE f[n - 1] + PieceLength(pieces[n])]

LEMMA LengthsExist ==
  ASSUME NEW s \in Seq(Pieces)
  PROVE  \E f : LengthsOf(f, s)
  <1> DEFINE P(m) == \E f : f = [n \in 0..m |-> IF n = 0 THEN 0 ELSE f[n - 1] + PieceLength(s[n])]
             T == {m \in Nat : ~P(m)}
  <1>1. ASSUME T # {} PROVE FALSE
    <2>1. PICK m \in T : \A k \in T : m <= k
      <3>1. T \in SUBSET Nat
        OBVIOUS
      <3> HIDE DEF T
      <3> QED
        BY <1>1, <3>1, LeastNat
    <2>2. m \in Nat /\ ~P(m)
      OBVIOUS
    <2>3. CASE m = 0
      <3>1. P(0)
        <4> DEFINE f == [n \in 0..0 |-> 0]
        <4>1. f = [n \in 0..0 |-> IF n = 0 THEN 0 ELSE f[n - 1] + PieceLength(s[n])]
          OBVIOUS
        <4> HIDE DEF f
        <4> QED
          BY <4>1
      <3> QED
        BY <2>2, <2>3, <3>1
    <2>4. CASE m # 0
      <3>1. m - 1 \in Nat /\ ~ (m <= m - 1)
        BY <2>2, <2>4
      <3>2. m - 1 \notin T
        BY <2>1, <3>1
      <3>3. P(m - 1)
        BY <3>1, <3>2
      <3>4. PICK f : f = [n \in 0..(m - 1) |-> IF n = 0 THEN 0 ELSE f[n - 1] + PieceLength(s[n])]
        BY <3>3
      <3> DEFINE g == [n \in 0..m |-> IF n < m THEN f[n] ELSE f[m - 1] + PieceLength(s[m])]
      <3>5. g = [n \in 0..m |-> IF n = 0 THEN 0 ELSE g[n - 1] + PieceLength(s[n])]
        <4> SUFFICES ASSUME NEW n \in 0..m
                     PROVE  g[n] = IF n = 0 THEN 0 ELSE g[n - 1] + PieceLength(s[n])
          OBVIOUS
        <4>1. CASE n = 0
          BY <2>2, <2>4, <3>4, <4>1
        <4>2. CASE n # 0 /\ n < m
          <5>1. n \in 0..(m - 1) /\ n - 1 \in 0..m /\ n - 1 < m
            BY <2>2, <4>2
          <5>2. g[n] = f[n] /\ g[n - 1] = f[n - 1]
            BY <4>2, <5>1
          <5>3. f[n] = f[n - 1] + PieceLength(s[n])
            BY <3>4, <4>2, <5>1
          <5> QED
            BY <4>2, <5>2, <5>3
        <4>3. CASE n = m
          <5>1. m - 1 \in 0..m /\ m - 1 < m /\ ~ (m < m)
            BY <2>2, <2>4
          <5>2. g[m - 1] = f[m - 1] /\ g[m] = f[m - 1] + PieceLength(s[m])
            BY <2>2, <5>1
          <5> QED
            BY <2>4, <4>3, <5>2
        <4> QED
          BY <2>2, <4>1, <4>2, <4>3
      <3> HIDE DEF g
      <3>6. P(m)
        BY <3>5
      <3> QED
        BY <2>2, <3>6
    <2> QED
      BY <2>3, <2>4
  <1>2. Len(s) \in Nat /\ P(Len(s))
    BY <1>1
  <1> QED
    BY <1>2 DEF LengthsOf

LEMMA PieceType ==
  ASSUME NEW p \in Pieces
  PROVE  PieceLength(p) \in Nat /\ PieceLength(p) > 0 /\ p.shows \in Seq(Nat)
  <1>1. p.kind \in {"offset", "byte", "blank", "separator", "ascii", "newline"}
        /\ p.shows \in Seq(Nat) /\ Len(p.shows) \in Nat
    BY DEF Pieces
  <1> QED
    BY <1>1 DEF PieceLength

LEMMA LengthIs ==
  ASSUME NEW s \in Seq(Pieces)
  PROVE  \E f : LengthsOf(f, s) /\ PiecesLength(s) = f[Len(s)]
  <1> DEFINE g == CHOOSE f : f = [n \in 0..Len(s) |-> IF n = 0 THEN 0 ELSE f[n - 1] + PieceLength(s[n])]
  <1>1. PiecesLength(s) = g[Len(s)]
    BY DEF PiecesLength
  <1>2. \E f : f = [n \in 0..Len(s) |-> IF n = 0 THEN 0 ELSE f[n - 1] + PieceLength(s[n])]
    BY LengthsExist DEF LengthsOf
  <1>3. g = [n \in 0..Len(s) |-> IF n = 0 THEN 0 ELSE g[n - 1] + PieceLength(s[n])]
    BY <1>2
  <1> HIDE DEF g
  <1> QED
    BY <1>1, <1>3 DEF LengthsOf

LEMMA LengthsAre ==
  ASSUME NEW s \in Seq(Pieces), NEW f, LengthsOf(f, s), NEW m \in 0..Len(s)
  PROVE  f[m] = IF m = 0 THEN 0 ELSE f[m - 1] + PieceLength(s[m])
  BY DEF LengthsOf

LEMMA LengthsNat ==
  ASSUME NEW s \in Seq(Pieces), NEW f, LengthsOf(f, s)
  PROVE  \A m \in 0..Len(s) : f[m] \in Nat
  <1> DEFINE T == {m \in 0..Len(s) : f[m] \notin Nat}
  <1>1. ASSUME T # {} PROVE FALSE
    <2>1. PICK m \in T : \A k \in T : m <= k
      <3>1. T \in SUBSET Nat
        OBVIOUS
      <3> HIDE DEF T
      <3> QED
        BY <1>1, <3>1, LeastNat
    <2>2. m \in 0..Len(s) /\ f[m] \notin Nat /\ m \in Nat /\ Len(s) \in Nat
      OBVIOUS
    <2>3. m # 0
      BY <2>2, LengthsAre
    <2>4. m - 1 \in 0..Len(s) /\ ~ (m <= m - 1) /\ m \in 1..Len(s)
      BY <2>2, <2>3
    <2>5. f[m - 1] \in Nat /\ PieceLength(s[m]) \in Nat
      BY <2>1, <2>4, PieceType
    <2> QED
      BY <2>2, <2>3, <2>5, LengthsAre
  <1> QED
    BY <1>1

LEMMA LengthType ==
  ASSUME NEW s \in Seq(Pieces)
  PROVE  PiecesLength(s) \in Nat
  <1>1. PICK f : LengthsOf(f, s) /\ PiecesLength(s) = f[Len(s)]
    BY LengthIs
  <1>2. Len(s) \in 0..Len(s)
    OBVIOUS
  <1> QED
    BY <1>1, <1>2, LengthsNat

(* Pieces in a row have the sum of their lengths.                          *)
LEMMA LengthOfJoined ==
  ASSUME NEW s \in Seq(Pieces), NEW t \in Seq(Pieces)
  PROVE  PiecesLength(s \o t) = PiecesLength(s) + PiecesLength(t)
  <1> DEFINE u == s \o t
             L == Len(s)
             M == Len(t)
  <1>1. /\ u \in Seq(Pieces) /\ Len(u) = L + M /\ L \in Nat /\ M \in Nat
        /\ \A k \in 1..L : u[k] = s[k]
        /\ \A k \in 1..M : u[L + k] = t[k]
    OBVIOUS
  <1>2. PICK f : LengthsOf(f, s) /\ PiecesLength(s) = f[L]
    BY LengthIs
  <1>3. PICK g : LengthsOf(g, t) /\ PiecesLength(t) = g[M]
    BY LengthIs
  <1> HIDE DEF u
  <1>4. PICK h : LengthsOf(h, u) /\ PiecesLength(u) = h[L + M]
    BY <1>1, LengthIs
  <1> HIDE DEF L, M
  <1>5. /\ \A m \in 0..L : f[m] = IF m = 0 THEN 0 ELSE f[m - 1] + PieceLength(s[m])
        /\ \A m \in 0..M : g[m] = IF m = 0 THEN 0 ELSE g[m - 1] + PieceLength(t[m])
        /\ \A m \in 0..(L + M) : h[m] = IF m = 0 THEN 0 ELSE h[m - 1] + PieceLength(u[m])
    <2>1. \A m \in 0..L : f[m] = IF m = 0 THEN 0 ELSE f[m - 1] + PieceLength(s[m])
      BY <1>2, LengthsAre DEF L
    <2>2. \A m \in 0..M : g[m] = IF m = 0 THEN 0 ELSE g[m - 1] + PieceLength(t[m])
      BY <1>3, LengthsAre DEF M
    <2>3. \A m \in 0..(L + M) : h[m] = IF m = 0 THEN 0 ELSE h[m - 1] + PieceLength(u[m])
      <3>1. \A m \in 0..Len(u) : h[m] = IF m = 0 THEN 0 ELSE h[m - 1] + PieceLength(u[m])
        BY <1>1, <1>4, LengthsAre
      <3> QED
        BY <1>1, <3>1 DEF L, M
    <2> QED
      BY <2>1, <2>2, <2>3
  <1>6. /\ \A m \in 0..L : f[m] \in Nat
        /\ \A m \in 0..M : g[m] \in Nat
    BY <1>2, <1>3, LengthsNat DEF L, M
  <1> DEFINE T == {m \in 0..L : h[m] # f[m]}
  <1>7. ASSUME T # {} PROVE FALSE
    <2>1. PICK m \in T : \A k \in T : m <= k
      <3>1. T \in SUBSET Nat
        OBVIOUS
      <3> HIDE DEF T
      <3> QED
        BY <1>7, <3>1, LeastNat
    <2>2. m \in 0..L /\ h[m] # f[m] /\ m \in Nat /\ m \in 0..(L + M)
      BY <1>1
    <2>3. m # 0
      BY <1>5, <2>2
    <2>4. m - 1 \in 0..L /\ ~ (m <= m - 1) /\ m \in 1..L
      BY <1>1, <2>2, <2>3
    <2>5. h[m - 1] = f[m - 1] /\ u[m] = s[m]
      BY <1>1, <2>1, <2>4
    <2> QED
      BY <1>5, <2>2, <2>3, <2>5
  <1>8. h[L] = f[L]
    <2>1. L \in 0..L
      BY <1>1
    <2> QED
      BY <1>7, <2>1
  <1> HIDE DEF T
  <1> DEFINE R == {m \in 0..M : h[L + m] # f[L] + g[m]}
  <1>9. ASSUME R # {} PROVE FALSE
    <2>1. PICK m \in R : \A k \in R : m <= k
      <3>1. R \in SUBSET Nat
        OBVIOUS
      <3> HIDE DEF R
      <3> QED
        BY <1>9, <3>1, LeastNat
    <2>2. m \in 0..M /\ h[L + m] # f[L] + g[m] /\ m \in Nat /\ L + m \in 0..(L + M) /\ f[L] \in Nat
      BY <1>1, <1>6
    <2>3. m # 0
      <3>1. ASSUME m = 0 PROVE FALSE
        <4>1. L + m = L /\ g[m] = 0
          BY <1>1, <1>5, <2>2, <3>1
        <4> QED
          BY <1>8, <2>2, <4>1
      <3> QED
        BY <3>1
    <2>4. m - 1 \in 0..M /\ ~ (m <= m - 1) /\ m \in 1..M /\ L + m # 0 /\ L + m - 1 = L + (m - 1)
      BY <1>1, <2>2, <2>3
    <2>5. h[L + (m - 1)] = f[L] + g[m - 1] /\ u[L + m] = t[m]
      BY <1>1, <2>1, <2>4
    <2>6. h[L + m] = h[L + m - 1] + PieceLength(u[L + m])
      <3>1. PICK i \in 0..(L + M) : i = L + m /\ i # 0
        BY <2>2, <2>4
      <3>2. h[i] = h[i - 1] + PieceLength(u[i])
        BY <1>5, <3>1
      <3>3. h[L + m] = h[i] /\ h[L + m - 1] = h[i - 1] /\ u[L + m] = u[i]
        <4>1. L + m - 1 = i - 1
          BY <1>1, <2>2, <3>1
        <4> QED
          BY <3>1, <4>1
      <3> QED
        BY <3>2, <3>3
    <2>7. h[L + m] = (f[L] + g[m - 1]) + PieceLength(t[m])
      BY <2>4, <2>5, <2>6
    <2>8. g[m] = g[m - 1] + PieceLength(t[m])
      BY <1>5, <2>2, <2>3
    <2>9. g[m - 1] \in Nat /\ PieceLength(t[m]) \in Nat
      <3>1. t[m] \in Pieces
        BY <2>4 DEF M
      <3> QED
        BY <1>6, <2>4, <3>1, PieceType
    <2> QED
      BY <2>2, <2>7, <2>8, <2>9
  <1>10. h[L + M] = f[L] + g[M]
    <2>1. M \in 0..M
      BY <1>1
    <2> QED
      BY <1>9, <2>1
  <1> QED
    BY <1>2, <1>3, <1>4, <1>10 DEF u

LEMMA LengthOfNone == PiecesLength(<<>>) = 0
  <1> DEFINE s == <<>>
  <1>1. s \in Seq(Pieces) /\ Len(s) = 0 /\ 0 \in 0..Len(s)
    OBVIOUS
  <1> HIDE DEF s
  <1>2. PICK f : LengthsOf(f, s) /\ PiecesLength(s) = f[0]
    BY <1>1, LengthIs
  <1>3. \A m \in 0..Len(s) : f[m] = IF m = 0 THEN 0 ELSE f[m - 1] + PieceLength(s[m])
    BY <1>1, <1>2, LengthsAre
  <1>4. f[0] = 0
    BY <1>1, <1>3
  <1> QED
    BY <1>2, <1>4 DEF s

LEMMA LengthOfEqual ==
  ASSUME NEW s \in Seq(Pieces), NEW c \in Nat, \A k \in 1..Len(s) : PieceLength(s[k]) = c
  PROVE  PiecesLength(s) = c * Len(s)
  <1>1. PICK f : LengthsOf(f, s) /\ PiecesLength(s) = f[Len(s)]
    BY LengthIs
  <1> DEFINE T == {m \in 0..Len(s) : f[m] # c * m}
  <1>2. ASSUME T # {} PROVE FALSE
    <2>1. PICK m \in T : \A k \in T : m <= k
      <3>1. T \in SUBSET Nat
        OBVIOUS
      <3> HIDE DEF T
      <3> QED
        BY <1>2, <3>1, LeastNat
    <2>2. m \in 0..Len(s) /\ f[m] # c * m /\ m \in Nat /\ Len(s) \in Nat
      OBVIOUS
    <2>3. m # 0
      BY <1>1, <2>2, LengthsAre
    <2>4. m - 1 \in 0..Len(s) /\ ~ (m <= m - 1) /\ m \in 1..Len(s)
      BY <2>2, <2>3
    <2>5. f[m - 1] = c * (m - 1) /\ PieceLength(s[m]) = c
      BY <2>1, <2>4
    <2>6. f[m] = c * (m - 1) + c
      BY <1>1, <2>2, <2>3, <2>5, LengthsAre
    <2>7. c * (m - 1) + c = c * m
      BY <2>2
    <2> QED
      BY <2>2, <2>6, <2>7
  <1>3. f[Len(s)] = c * Len(s)
    <2>1. Len(s) \in 0..Len(s)
      OBVIOUS
    <2> QED
      BY <1>2, <2>1
  <1> QED
    BY <1>1, <1>3

LEMMA LengthOfOne ==
  ASSUME NEW p \in Pieces
  PROVE  PiecesLength(<<p>>) = PieceLength(p) /\ <<p>> \in Seq(Pieces)
  <1> DEFINE s == <<p>>
             c == PieceLength(p)
  <1>1. s \in Seq(Pieces) /\ Len(s) = 1 /\ c \in Nat /\ \A k \in 1..Len(s) : PieceLength(s[k]) = c
    BY PieceType
  <1> HIDE DEF s, c
  <1>2. PiecesLength(s) = c * Len(s)
    BY <1>1, LengthOfEqual
  <1>3. c * Len(s) = c
    BY <1>1
  <1> QED
    BY <1>1, <1>2, <1>3 DEF s, c

Grown(shown, piece, kind) == shown \o (IF piece.kind = kind THEN piece.shows ELSE <<>>)

ShownsOf(f, pieces, kind) ==
  f = [n \in 0..Len(pieces) |-> IF n = 0 THEN <<>> ELSE Grown(f[n - 1], pieces[n], kind)]

LEMMA ShownsExist ==
  ASSUME NEW s \in Seq(Pieces), NEW kind
  PROVE  \E f : ShownsOf(f, s, kind)
  <1> DEFINE P(m) == \E f : f = [n \in 0..m |-> IF n = 0 THEN <<>> ELSE Grown(f[n - 1], s[n], kind)]
             T == {m \in Nat : ~P(m)}
  <1>1. ASSUME T # {} PROVE FALSE
    <2>1. PICK m \in T : \A k \in T : m <= k
      <3>1. T \in SUBSET Nat
        OBVIOUS
      <3> HIDE DEF T
      <3> QED
        BY <1>1, <3>1, LeastNat
    <2>2. m \in Nat /\ ~P(m)
      OBVIOUS
    <2>3. CASE m = 0
      <3>1. P(0)
        <4> DEFINE f == [n \in 0..0 |-> <<>>]
        <4>1. f = [n \in 0..0 |-> IF n = 0 THEN <<>> ELSE Grown(f[n - 1], s[n], kind)]
          OBVIOUS
        <4> HIDE DEF f
        <4> QED
          BY <4>1
      <3> QED
        BY <2>2, <2>3, <3>1
    <2>4. CASE m # 0
      <3>1. m - 1 \in Nat /\ ~ (m <= m - 1)
        BY <2>2, <2>4
      <3>2. m - 1 \notin T
        BY <2>1, <3>1
      <3>3. P(m - 1)
        BY <3>1, <3>2
      <3>4. PICK f : f = [n \in 0..(m - 1) |-> IF n = 0 THEN <<>> ELSE Grown(f[n - 1], s[n], kind)]
        BY <3>3
      <3> DEFINE g == [n \in 0..m |-> IF n < m THEN f[n] ELSE Grown(f[m - 1], s[m], kind)]
      <3>5. g = [n \in 0..m |-> IF n = 0 THEN <<>> ELSE Grown(g[n - 1], s[n], kind)]
        <4> SUFFICES ASSUME NEW n \in 0..m
                     PROVE  g[n] = IF n = 0 THEN <<>> ELSE Grown(g[n - 1], s[n], kind)
          OBVIOUS
        <4>1. CASE n = 0
          BY <2>2, <2>4, <3>4, <4>1
        <4>2. CASE n # 0 /\ n < m
          <5>1. n \in 0..(m - 1) /\ n - 1 \in 0..m /\ n - 1 < m
            BY <2>2, <4>2
          <5>2. g[n] = f[n] /\ g[n - 1] = f[n - 1]
            BY <4>2, <5>1
          <5>3. f[n] = Grown(f[n - 1], s[n], kind)
            BY <3>4, <4>2, <5>1
          <5> QED
            BY <4>2, <5>2, <5>3
        <4>3. CASE n = m
          <5>1. m - 1 \in 0..m /\ m - 1 < m /\ ~ (m < m)
            BY <2>2, <2>4
          <5>2. g[m - 1] = f[m - 1] /\ g[m] = Grown(f[m - 1], s[m], kind)
            BY <2>2, <5>1
          <5> QED
            BY <2>4, <4>3, <5>2
        <4> QED
          BY <2>2, <4>1, <4>2, <4>3
      <3> HIDE DEF g
      <3>6. P(m)
        BY <3>5
      <3> QED
        BY <2>2, <3>6
    <2> QED
      BY <2>3, <2>4
  <1>2. Len(s) \in Nat /\ P(Len(s))
    BY <1>1
  <1> QED
    BY <1>2 DEF ShownsOf

LEMMA GrownIs ==
  ASSUME NEW a \in Seq(Nat), NEW p \in Pieces, NEW kind
  PROVE  /\ Grown(a, p, kind) \in Seq(Nat)
         /\ \A b \in Seq(Nat) : Grown(b \o a, p, kind) = b \o Grown(a, p, kind)
         /\ Grown(a, p, kind) = a \o (IF p.kind = kind THEN p.shows ELSE <<>>)
  <1> DEFINE c == IF p.kind = kind THEN p.shows ELSE <<>>
  <1>1. c \in Seq(Nat)
    BY PieceType
  <1>2. Grown(a, p, kind) = a \o c
    BY DEF Grown
  <1>3. ASSUME NEW b \in Seq(Nat) PROVE Grown(b \o a, p, kind) = (b \o a) \o c
    BY DEF Grown
  <1> HIDE DEF c
  <1>4. ASSUME NEW b \in Seq(Nat) PROVE (b \o a) \o c = b \o (a \o c)
    BY <1>1, ConcatAssociative, SMTT(30)
  <1>5. a \o c \in Seq(Nat)
    BY <1>1
  <1> QED
    BY <1>2, <1>3, <1>4, <1>5 DEF c

LEMMA ShownIs ==
  ASSUME NEW s \in Seq(Pieces), NEW kind
  PROVE  \E f : ShownsOf(f, s, kind) /\ ShownBy(s, kind) = f[Len(s)]
  <1> DEFINE g == CHOOSE f : f = [n \in 0..Len(s) |-> IF n = 0 THEN <<>> ELSE Grown(f[n - 1], s[n], kind)]
  <1>1. ShownBy(s, kind) = g[Len(s)]
    BY DEF ShownBy, Grown
  <1>2. \E f : f = [n \in 0..Len(s) |-> IF n = 0 THEN <<>> ELSE Grown(f[n - 1], s[n], kind)]
    BY ShownsExist DEF ShownsOf
  <1>3. g = [n \in 0..Len(s) |-> IF n = 0 THEN <<>> ELSE Grown(g[n - 1], s[n], kind)]
    BY <1>2
  <1> HIDE DEF g
  <1> QED
    BY <1>1, <1>3 DEF ShownsOf

LEMMA ShownsAre ==
  ASSUME NEW s \in Seq(Pieces), NEW kind, NEW f, ShownsOf(f, s, kind), NEW m \in 0..Len(s)
  PROVE  f[m] = IF m = 0 THEN <<>> ELSE Grown(f[m - 1], s[m], kind)
  BY DEF ShownsOf

LEMMA ShownsSeq ==
  ASSUME NEW s \in Seq(Pieces), NEW kind, NEW f, ShownsOf(f, s, kind)
  PROVE  \A m \in 0..Len(s) : f[m] \in Seq(Nat)
  <1> DEFINE T == {m \in 0..Len(s) : f[m] \notin Seq(Nat)}
  <1>1. ASSUME T # {} PROVE FALSE
    <2>1. PICK m \in T : \A k \in T : m <= k
      <3>1. T \in SUBSET Nat
        OBVIOUS
      <3> HIDE DEF T
      <3> QED
        BY <1>1, <3>1, LeastNat
    <2>2. m \in 0..Len(s) /\ f[m] \notin Seq(Nat) /\ m \in Nat /\ Len(s) \in Nat
      OBVIOUS
    <2>3. m # 0
      <3>1. <<>> \in Seq(Nat)
        OBVIOUS
      <3>2. \A i \in 0..Len(s) : f[i] = IF i = 0 THEN <<>> ELSE Grown(f[i - 1], s[i], kind)
        BY ShownsAre
      <3> QED
        BY <2>2, <3>1, <3>2
    <2>4. m - 1 \in 0..Len(s) /\ ~ (m <= m - 1) /\ m \in 1..Len(s)
      BY <2>2, <2>3
    <2>5. Grown(f[m - 1], s[m], kind) \in Seq(Nat)
      <3>1. f[m - 1] \in Seq(Nat) /\ s[m] \in Pieces
        BY <2>1, <2>4
      <3> QED
        BY <3>1, GrownIs
    <2> QED
      BY <2>2, <2>3, <2>5, ShownsAre
  <1> QED
    BY <1>1

LEMMA ShownType ==
  ASSUME NEW s \in Seq(Pieces), NEW kind
  PROVE  ShownBy(s, kind) \in Seq(Nat)
  <1>1. PICK f : ShownsOf(f, s, kind) /\ ShownBy(s, kind) = f[Len(s)]
    BY ShownIs
  <1>2. Len(s) \in 0..Len(s)
    OBVIOUS
  <1> QED
    BY <1>1, <1>2, ShownsSeq

(* Pieces in a row show one after the other what each of them shows.       *)
LEMMA ShownOfJoined ==
  ASSUME NEW s \in Seq(Pieces), NEW t \in Seq(Pieces), NEW kind
  PROVE  ShownBy(s \o t, kind) = ShownBy(s, kind) \o ShownBy(t, kind)
  <1> DEFINE u == s \o t
             L == Len(s)
             M == Len(t)
  <1>1. /\ u \in Seq(Pieces) /\ Len(u) = L + M /\ L \in Nat /\ M \in Nat
        /\ \A k \in 1..L : u[k] = s[k]
        /\ \A k \in 1..M : u[L + k] = t[k]
    OBVIOUS
  <1>2. PICK f : ShownsOf(f, s, kind) /\ ShownBy(s, kind) = f[L]
    BY ShownIs
  <1>3. PICK g : ShownsOf(g, t, kind) /\ ShownBy(t, kind) = g[M]
    BY ShownIs
  <1> HIDE DEF u
  <1>4. PICK h : ShownsOf(h, u, kind) /\ ShownBy(u, kind) = h[L + M]
    BY <1>1, ShownIs
  <1> HIDE DEF L, M
  <1>5. /\ \A m \in 0..L : f[m] = IF m = 0 THEN <<>> ELSE Grown(f[m - 1], s[m], kind)
        /\ \A m \in 0..M : g[m] = IF m = 0 THEN <<>> ELSE Grown(g[m - 1], t[m], kind)
        /\ \A m \in 0..(L + M) : h[m] = IF m = 0 THEN <<>> ELSE Grown(h[m - 1], u[m], kind)
    <2>1. \A m \in 0..L : f[m] = IF m = 0 THEN <<>> ELSE Grown(f[m - 1], s[m], kind)
      BY <1>2, ShownsAre DEF L
    <2>2. \A m \in 0..M : g[m] = IF m = 0 THEN <<>> ELSE Grown(g[m - 1], t[m], kind)
      BY <1>3, ShownsAre DEF M
    <2>3. \A m \in 0..(L + M) : h[m] = IF m = 0 THEN <<>> ELSE Grown(h[m - 1], u[m], kind)
      <3>1. \A m \in 0..Len(u) : h[m] = IF m = 0 THEN <<>> ELSE Grown(h[m - 1], u[m], kind)
        BY <1>1, <1>4, ShownsAre
      <3> QED
        BY <1>1, <3>1 DEF L, M
    <2> QED
      BY <2>1, <2>2, <2>3
  <1>6. /\ \A m \in 0..L : f[m] \in Seq(Nat)
        /\ \A m \in 0..M : g[m] \in Seq(Nat)
    BY <1>2, <1>3, ShownsSeq DEF L, M
  <1> DEFINE T == {m \in 0..L : h[m] # f[m]}
  <1>7. ASSUME T # {} PROVE FALSE
    <2>1. PICK m \in T : \A k \in T : m <= k
      <3>1. T \in SUBSET Nat
        OBVIOUS
      <3> HIDE DEF T
      <3> QED
        BY <1>7, <3>1, LeastNat
    <2>2. m \in 0..L /\ h[m] # f[m] /\ m \in Nat /\ m \in 0..(L + M)
      BY <1>1
    <2>3. m # 0
      BY <1>5, <2>2
    <2>4. m - 1 \in 0..L /\ ~ (m <= m - 1) /\ m \in 1..L
      BY <1>1, <2>2, <2>3
    <2>5. h[m - 1] = f[m - 1] /\ u[m] = s[m]
      BY <1>1, <2>1, <2>4
    <2> QED
      BY <1>5, <2>2, <2>3, <2>5
  <1>8. h[L] = f[L]
    <2>1. L \in 0..L
      BY <1>1
    <2> QED
      BY <1>7, <2>1
  <1> HIDE DEF T
  <1> DEFINE both(m) == f[L] \o g[m]
             R == {m \in 0..M : h[L + m] # both(m)}
  <1> HIDE DEF both
  <1>9. ASSUME R # {} PROVE FALSE
    <2>1. PICK m \in R : \A k \in R : m <= k
      <3>1. R \in SUBSET Nat
        OBVIOUS
      <3> HIDE DEF R
      <3> QED
        BY <1>9, <3>1, LeastNat
    <2>2. m \in 0..M /\ h[L + m] # both(m) /\ m \in Nat /\ L + m \in 0..(L + M)
      BY <1>1
    <2>3. f[L] \in Seq(Nat) /\ g[m] \in Seq(Nat)
      <3>1. L \in 0..L
        BY <1>1
      <3> QED
        BY <1>6, <2>2, <3>1
    <2>4. CASE m = 0
      <3>1. L + m = L /\ g[m] = <<>>
        BY <1>1, <1>5, <2>2, <2>4
      <3>2. both(m) = f[L]
        BY <2>3, <3>1 DEF both
      <3> QED
        BY <1>8, <2>2, <3>1, <3>2
    <2>5. CASE m # 0
      <3>1. m - 1 \in 0..M /\ ~ (m <= m - 1) /\ m \in 1..M /\ L + m # 0 /\ L + m - 1 = L + (m - 1)
        BY <1>1, <2>2, <2>5
      <3>2. h[L + (m - 1)] = both(m - 1) /\ u[L + m] = t[m] /\ t[m] \in Pieces
        BY <1>1, <2>1, <3>1 DEF M
      <3>3. h[L + m] = Grown(h[L + m - 1], u[L + m], kind)
        <4>1. PICK i \in 0..(L + M) : i = L + m /\ i # 0
          BY <2>2, <3>1
        <4>2. h[i] = Grown(h[i - 1], u[i], kind)
          BY <1>5, <4>1
        <4>3. L + m - 1 = i - 1
          BY <1>1, <2>2, <4>1
        <4> QED
          BY <4>1, <4>2, <4>3
      <3>4. h[L + m] = Grown(both(m - 1), t[m], kind)
        BY <3>1, <3>2, <3>3
      <3>5. g[m] = Grown(g[m - 1], t[m], kind) /\ g[m - 1] \in Seq(Nat)
        BY <1>5, <1>6, <2>2, <2>5, <3>1
      <3>6. Grown(f[L] \o g[m - 1], t[m], kind) = f[L] \o Grown(g[m - 1], t[m], kind)
        <4>1. \A a, b \in Seq(Nat), p \in Pieces : Grown(b \o a, p, kind) = b \o Grown(a, p, kind)
          BY GrownIs
        <4> QED
          BY <2>3, <3>2, <3>5, <4>1
      <3>7. h[L + m] = both(m)
        BY <3>4, <3>5, <3>6 DEF both
      <3> QED
        BY <2>2, <3>7
    <2> QED
      BY <2>4, <2>5
  <1>10. h[L + M] = both(M)
    <2>1. M \in 0..M
      BY <1>1
    <2> QED
      BY <1>9, <2>1
  <1> QED
    BY <1>2, <1>3, <1>4, <1>10 DEF u, both

LEMMA ShownOfNone ==
  ASSUME NEW kind
  PROVE  ShownBy(<<>>, kind) = <<>>
  <1> DEFINE s == <<>>
  <1>1. s \in Seq(Pieces) /\ Len(s) = 0 /\ 0 \in 0..Len(s)
    OBVIOUS
  <1> HIDE DEF s
  <1>2. PICK f : ShownsOf(f, s, kind) /\ ShownBy(s, kind) = f[0]
    BY <1>1, ShownIs
  <1>3. \A m \in 0..Len(s) : f[m] = IF m = 0 THEN <<>> ELSE Grown(f[m - 1], s[m], kind)
    BY <1>1, <1>2, ShownsAre
  <1>4. f[0] = <<>>
    BY <1>1, <1>3
  <1> QED
    BY <1>2, <1>4 DEF s

LEMMA ShownOfOne ==
  ASSUME NEW p \in Pieces, NEW kind
  PROVE  ShownBy(<<p>>, kind) = IF p.kind = kind THEN p.shows ELSE <<>>
  <1> DEFINE s == <<p>>
             c == IF p.kind = kind THEN p.shows ELSE <<>>
  <1>1. s \in Seq(Pieces) /\ Len(s) = 1 /\ s[1] = p /\ 1 \in 0..Len(s) /\ 0 \in 0..Len(s) /\ 1 - 1 = 0
    OBVIOUS
  <1> HIDE DEF s
  <1>2. PICK f : ShownsOf(f, s, kind) /\ ShownBy(s, kind) = f[1]
    BY <1>1, ShownIs
  <1>3. \A m \in 0..Len(s) : f[m] = IF m = 0 THEN <<>> ELSE Grown(f[m - 1], s[m], kind)
    BY <1>1, <1>2, ShownsAre
  <1>4. f[1] = Grown(<<>>, p, kind)
    BY <1>1, <1>3
  <1>5. <<>> \in Seq(Nat) /\ c \in Seq(Nat)
    BY PieceType
  <1>6. Grown(<<>>, p, kind) = <<>> \o c
    BY DEF Grown
  <1> HIDE DEF c
  <1>7. <<>> \o c = c
    BY <1>5
  <1> QED
    BY <1>2, <1>4, <1>6, <1>7 DEF s, c

(* The bytes of a line in hexadecimal digits, with blanks up to its width. *)
Row(bytes, n) ==
  [k \in 1..n |-> IF k <= Len(bytes) THEN [kind |-> "byte", shows |-> <<bytes[k]>>]
                                     ELSE [kind |-> "blank", shows |-> <<>>]]

LEMMA RowType ==
  ASSUME NEW bytes \in Seq(Nat), NEW n \in Nat
  PROVE  /\ Row(bytes, n) \in Seq(Pieces) /\ Len(Row(bytes, n)) = n
         /\ PiecesLength(Row(bytes, n)) = 3 * n
         /\ \A k \in 1..n : Row(bytes, n)[k].kind # "ascii"
  <1> DEFINE row == Row(bytes, n)
  <1>1. ASSUME NEW k \in 1..n
        PROVE  row[k] \in Pieces /\ PieceLength(row[k]) = 3 /\ row[k].kind # "ascii"
    <2>1. CASE k <= Len(bytes)
      <3>1. bytes[k] \in Nat
        BY <2>1
      <3>2. row[k] = [kind |-> "byte", shows |-> <<bytes[k]>>] /\ <<bytes[k]>> \in Seq(Nat)
        BY <2>1, <3>1 DEF Row
      <3> HIDE DEF row
      <3> QED
        BY <3>2 DEF Pieces, PieceLength
    <2>2. CASE ~ (k <= Len(bytes))
      <3>1. row[k] = [kind |-> "blank", shows |-> <<>>]
        BY <2>2 DEF Row
      <3> HIDE DEF row
      <3> QED
        BY <3>1 DEF Pieces, PieceLength
    <2> QED
      BY <2>1, <2>2
  <1>2. row \in [1..n -> Pieces]
    <2>1. row = [k \in 1..n |-> row[k]]
      BY DEF Row
    <2> HIDE DEF row
    <2> QED
      BY <1>1, <2>1
  <1> HIDE DEF row
  <1>3. row \in Seq(Pieces) /\ Len(row) = n
    BY <1>2
  <1>4. PiecesLength(row) = 3 * Len(row)
    <2> DEFINE c == 3
    <2>1. c \in Nat /\ \A k \in 1..Len(row) : PieceLength(row[k]) = c
      BY <1>1, <1>3
    <2> HIDE DEF c
    <2>2. PiecesLength(row) = c * Len(row)
      BY <1>3, <2>1, LengthOfEqual
    <2> QED
      BY <2>2 DEF c
  <1> QED
    BY <1>1, <1>3, <1>4 DEF row

LEMMA RowShowsBytes ==
  ASSUME NEW bytes \in Seq(Nat), NEW n \in Nat, Len(bytes) <= n
  PROVE  ShownBy(Row(bytes, n), "byte") = bytes
  <1> DEFINE row      == Row(bytes, n)
             L        == Len(bytes)
             first(m) == SubSeq(bytes, 1, IF m <= L THEN m ELSE L)
             kind     == "byte"
             T(f)     == {m \in 0..n : f[m] # first(m)}
  <1>1. row \in Seq(Pieces) /\ Len(row) = n /\ L \in Nat /\ L <= n
    BY RowType
  <1>2. ASSUME NEW k \in 1..n
        PROVE  row[k] = IF k <= L THEN [kind |-> kind, shows |-> <<bytes[k]>>]
                                  ELSE [kind |-> "blank", shows |-> <<>>]
    BY DEF Row
  <1> HIDE DEF row
  <1>3. PICK f : ShownsOf(f, row, kind) /\ ShownBy(row, kind) = f[n]
    BY <1>1, ShownIs
  <1>4. \A m \in 0..n : f[m] = IF m = 0 THEN <<>> ELSE Grown(f[m - 1], row[m], kind)
    BY <1>1, <1>3, ShownsAre
  <1>5. ASSUME NEW m \in 1..n PROVE Grown(first(m - 1), row[m], kind) = first(m)
    <2>1. CASE m <= L
      <3>1. first(m - 1) = SubSeq(bytes, 1, m - 1) /\ first(m) = SubSeq(bytes, 1, m)
        BY <1>1, <2>1
      <3>2. 1 \in 1..L /\ m \in 1..L
        BY <1>1, <2>1
      <3>3. SubSeq(bytes, 1, m) = SubSeq(bytes, 1, m - 1) \o <<bytes[m]>>
        BY <3>2, SubSeqRecursiveSecond
      <3>4. row[m].kind = kind /\ row[m].shows = <<bytes[m]>>
        <4>1. row[m] = [kind |-> kind, shows |-> <<bytes[m]>>]
          BY <1>2, <2>1
        <4> QED
          BY <4>1
      <3> QED
        BY <3>1, <3>3, <3>4 DEF Grown
    <2>2. CASE ~ (m <= L)
      <3>1. first(m - 1) = SubSeq(bytes, 1, L) /\ first(m) = SubSeq(bytes, 1, L)
        BY <1>1, <2>2
      <3>2. row[m].kind # kind
        <4>1. row[m] = [kind |-> "blank", shows |-> <<>>]
          BY <1>2, <2>2
        <4> QED
          BY <4>1
      <3>3. SubSeq(bytes, 1, L) = bytes
        BY SubSeqFull
      <3>4. bytes \o <<>> = bytes
        OBVIOUS
      <3> QED
        BY <3>1, <3>2, <3>3, <3>4 DEF Grown
    <2> QED
      BY <2>1, <2>2
  <1>6. first(0) = <<>> /\ first(n) = bytes
    <2>1. first(0) = SubSeq(bytes, 1, 0)
      BY <1>1
    <2>2. SubSeq(bytes, 1, 0) = <<>>
      BY SubSeqEmpty
    <2>3. first(n) = SubSeq(bytes, 1, L)
      BY <1>1
    <2> QED
      BY <2>1, <2>2, <2>3, SubSeqFull
  <1> HIDE DEF first
  <1>7. ASSUME T(f) # {} PROVE FALSE
    <2>1. PICK m \in T(f) : \A k \in T(f) : m <= k
      <3>1. T(f) \in SUBSET Nat
        OBVIOUS
      <3> HIDE DEF T
      <3> QED
        BY <1>7, <3>1, LeastNat
    <2>2. m \in 0..n /\ f[m] # first(m) /\ m \in Nat
      OBVIOUS
    <2>3. m # 0
      BY <1>4, <1>6, <2>2
    <2>4. m - 1 \in 0..n /\ ~ (m <= m - 1) /\ m \in 1..n
      BY <2>2, <2>3
    <2>5. f[m - 1] = first(m - 1)
      BY <2>1, <2>4
    <2>6. f[m] = Grown(first(m - 1), row[m], kind)
      BY <1>4, <2>2, <2>3, <2>5
    <2> QED
      BY <1>5, <2>2, <2>4, <2>6
  <1>8. f[n] = first(n)
    BY <1>7
  <1> QED
    BY <1>3, <1>6, <1>8 DEF row

LEMMA NothingShown ==
  ASSUME NEW s \in Seq(Pieces), NEW kind, \A k \in 1..Len(s) : s[k].kind # kind
  PROVE  ShownBy(s, kind) = <<>>
  <1>1. PICK f : ShownsOf(f, s, kind) /\ ShownBy(s, kind) = f[Len(s)]
    BY ShownIs
  <1>2. \A m \in 0..Len(s) : f[m] = IF m = 0 THEN <<>> ELSE Grown(f[m - 1], s[m], kind)
    BY <1>1, ShownsAre
  <1> DEFINE T == {m \in 0..Len(s) : f[m] # <<>>}
  <1>3. ASSUME T # {} PROVE FALSE
    <2>1. PICK m \in T : \A k \in T : m <= k
      <3>1. T \in SUBSET Nat
        OBVIOUS
      <3> HIDE DEF T
      <3> QED
        BY <1>3, <3>1, LeastNat
    <2>2. m \in 0..Len(s) /\ f[m] # <<>> /\ m \in Nat /\ Len(s) \in Nat
      OBVIOUS
    <2>3. m # 0
      BY <1>2, <2>2
    <2>4. m - 1 \in 0..Len(s) /\ ~ (m <= m - 1) /\ m \in 1..Len(s)
      BY <2>2, <2>3
    <2>5. f[m - 1] = <<>>
      BY <2>1, <2>4
    <2>6. f[m] = Grown(<<>>, s[m], kind)
      BY <1>2, <2>2, <2>3, <2>5
    <2>7. Grown(<<>>, s[m], kind) = <<>> \o <<>>
      BY <2>4 DEF Grown
    <2>8. <<>> \o <<>> = <<>>
      OBVIOUS
    <2> QED
      BY <2>2, <2>6, <2>7, <2>8
  <1>4. f[Len(s)] = <<>>
    BY <1>3
  <1> QED
    BY <1>1, <1>4

After(s, t) == s \o t

JoinOf(u, s, t) == u = s \o t

LEMMA Joined ==
  ASSUME NEW s \in Seq(Pieces), NEW t \in Seq(Pieces), NEW u, JoinOf(u, s, t)
  PROVE  /\ u \in Seq(Pieces)
         /\ PiecesLength(u) = PiecesLength(s) + PiecesLength(t)
         /\ \A kind : ShownBy(u, kind) = After(ShownBy(s, kind), ShownBy(t, kind))
  <1>0. u = s \o t
    BY DEF JoinOf
  <1>1. ASSUME NEW kind PROVE ShownBy(u, kind) = After(ShownBy(s, kind), ShownBy(t, kind))
    <2> DEFINE x == ShownBy(s \o t, kind)
               y == ShownBy(s, kind) \o ShownBy(t, kind)
    <2>1. x = y
      BY ShownOfJoined
    <2>2. x = ShownBy(u, kind)
      BY <1>0
    <2>3. y = After(ShownBy(s, kind), ShownBy(t, kind))
      BY DEF After
    <2> HIDE DEF x, y
    <2> QED
      BY <2>1, <2>2, <2>3
  <1>2. u \in Seq(Pieces)
    BY <1>0
  <1>3. PiecesLength(u) = PiecesLength(s) + PiecesLength(t)
    BY <1>0, LengthOfJoined
  <1> QED
    BY <1>1, <1>2, <1>3

RowOf(line, a, b, c, d, e) == line = a \o b \o c \o d \o e

LEMMA FiveJoined ==
  ASSUME NEW a \in Seq(Pieces), NEW b \in Seq(Pieces), NEW c \in Seq(Pieces),
         NEW d \in Seq(Pieces), NEW e \in Seq(Pieces), NEW line,
         RowOf(line, a, b, c, d, e)
  PROVE  /\ line \in Seq(Pieces)
         /\ PiecesLength(line) =
              PiecesLength(a) + PiecesLength(b) + PiecesLength(c) + PiecesLength(d) + PiecesLength(e)
         /\ \A kind : ShownBy(line, kind) =
              After(After(After(After(ShownBy(a, kind), ShownBy(b, kind)), ShownBy(c, kind)),
                          ShownBy(d, kind)), ShownBy(e, kind))
  <1>1. PICK ab : ab = a \o b /\ JoinOf(ab, a, b)
    BY DEF JoinOf
  <1>2. PICK abc : abc = ab \o c /\ JoinOf(abc, ab, c)
    BY DEF JoinOf
  <1>3. PICK abcd : abcd = abc \o d /\ JoinOf(abcd, abc, d)
    BY DEF JoinOf
  <1>4. JoinOf(line, abcd, e)
    BY <1>1, <1>2, <1>3 DEF JoinOf, RowOf
  <1>5. /\ ab \in Seq(Pieces) /\ PiecesLength(ab) = PiecesLength(a) + PiecesLength(b)
        /\ \A kind : ShownBy(ab, kind) = After(ShownBy(a, kind), ShownBy(b, kind))
    BY <1>1, Joined
  <1>6. /\ abc \in Seq(Pieces) /\ PiecesLength(abc) = PiecesLength(ab) + PiecesLength(c)
        /\ \A kind : ShownBy(abc, kind) = After(ShownBy(ab, kind), ShownBy(c, kind))
    BY <1>2, <1>5, Joined
  <1>7. /\ abcd \in Seq(Pieces) /\ PiecesLength(abcd) = PiecesLength(abc) + PiecesLength(d)
        /\ \A kind : ShownBy(abcd, kind) = After(ShownBy(abc, kind), ShownBy(d, kind))
    BY <1>3, <1>6, Joined
  <1>8. /\ line \in Seq(Pieces) /\ PiecesLength(line) = PiecesLength(abcd) + PiecesLength(e)
        /\ \A kind : ShownBy(line, kind) = After(ShownBy(abcd, kind), ShownBy(e, kind))
    BY <1>4, <1>7, Joined
  <1>9. PiecesLength(line) =
          PiecesLength(a) + PiecesLength(b) + PiecesLength(c) + PiecesLength(d) + PiecesLength(e)
    BY <1>5, <1>6, <1>7, <1>8
  <1> QED
    BY <1>5, <1>6, <1>7, <1>8, <1>9

LEMMA OptionTypes ==
  ASSUME DumpCall(call), call.op \in Dumps
  PROVE  /\ Options.bytes_per_line \in Nat /\ Options.show_offset \in BOOLEAN
         /\ Options.show_ascii \in BOOLEAN /\ call.text \in Seq(Nat) /\ Len(call.text) \in Nat
         /\ call.offset \in Nat /\ call.capacity \in Nat
  BY DEF DumpCall, Options

(* A line shows its bytes in every column and is not longer than a full one.*)
LEMMA LineIs ==
  ASSUME DumpCall(call), call.op \in Dumps, NEW first \in Nat, NEW bytes \in Seq(Nat),
         Len(bytes) <= Options.bytes_per_line
  PROVE  /\ Line(first, bytes) \in Seq(Pieces)
         /\ PiecesLength(Line(first, bytes)) <= LineLength /\ LineLength \in Nat
         /\ ShownBy(Line(first, bytes), "byte") = bytes
         /\ Options.show_ascii => ShownBy(Line(first, bytes), "ascii") = bytes
  <1> DEFINE w  == Options.bytes_per_line
             p1 == [kind |-> "offset", shows |-> <<first % OffsetModulus>>]
             p2 == [kind |-> "separator", shows |-> <<>>]
             p3 == [kind |-> "ascii", shows |-> bytes]
             p4 == [kind |-> "newline", shows |-> <<>>]
             a  == IF Options.show_offset THEN <<p1>> ELSE <<>>
             b  == Row(bytes, w)
             c  == <<p2>>
             d  == IF Options.show_ascii THEN <<p3>> ELSE <<>>
             e  == <<p4>>
  <1>1. w \in Nat /\ Len(bytes) \in Nat /\ Options.show_offset \in BOOLEAN /\ Options.show_ascii \in BOOLEAN
    BY OptionTypes
  <1>2. Line(first, bytes) = a \o b \o c \o d \o e
    BY DEF Line, Row
  <1>3. /\ p1 \in Pieces /\ p2 \in Pieces /\ p3 \in Pieces /\ p4 \in Pieces
    <2>1. first % OffsetModulus \in Nat
      BY OffsetAssumption
    <2>2. <<first % OffsetModulus>> \in Seq(Nat) /\ <<>> \in Seq(Nat)
      BY <2>1
    <2> QED
      BY <2>2 DEF Pieces
  <1>4. /\ PieceLength(p1) = 10 /\ PieceLength(p2) = 1 /\ PieceLength(p4) = 1
        /\ PieceLength(p3) = 1 + Len(bytes) + 1
    BY DEF PieceLength
  <1>5. /\ p1.kind = "offset" /\ p2.kind = "separator" /\ p3.kind = "ascii" /\ p4.kind = "newline"
        /\ p3.shows = bytes
    OBVIOUS
  <1> HIDE DEF p1, p2, p3, p4
  <1>6. /\ a \in Seq(Pieces)
        /\ PiecesLength(a) = IF Options.show_offset THEN 8 + 2 ELSE 0
        /\ ShownBy(a, "byte") = <<>> /\ ShownBy(a, "ascii") = <<>>
    BY <1>1, <1>3, <1>4, <1>5, LengthOfOne, LengthOfNone, ShownOfOne, ShownOfNone
  <1>7. /\ c \in Seq(Pieces) /\ PiecesLength(c) = 1
        /\ ShownBy(c, "byte") = <<>> /\ ShownBy(c, "ascii") = <<>>
    BY <1>3, <1>4, <1>5, LengthOfOne, ShownOfOne
  <1>8. /\ d \in Seq(Pieces)
        /\ PiecesLength(d) = IF Options.show_ascii THEN 1 + Len(bytes) + 1 ELSE 0
        /\ ShownBy(d, "byte") = <<>>
        /\ Options.show_ascii => ShownBy(d, "ascii") = bytes
    BY <1>1, <1>3, <1>4, <1>5, LengthOfOne, LengthOfNone, ShownOfOne, ShownOfNone
  <1>9. /\ e \in Seq(Pieces) /\ PiecesLength(e) = 1
        /\ ShownBy(e, "byte") = <<>> /\ ShownBy(e, "ascii") = <<>>
    BY <1>3, <1>4, <1>5, LengthOfOne, ShownOfOne
  <1>10. /\ b \in Seq(Pieces) /\ PiecesLength(b) = 3 * w
         /\ ShownBy(b, "byte") = bytes /\ ShownBy(b, "ascii") = <<>>
    <2>1. /\ b \in Seq(Pieces) /\ Len(b) = w /\ PiecesLength(b) = 3 * w
          /\ \A k \in 1..w : b[k].kind # "ascii"
      BY <1>1, RowType
    <2>2. ShownBy(b, "byte") = bytes
      BY <1>1, RowShowsBytes
    <2> HIDE DEF b
    <2>3. ShownBy(b, "ascii") = <<>>
      BY <2>1, NothingShown
    <2> QED
      BY <2>1, <2>2, <2>3
  <1> HIDE DEF a, b, c, d, e
  <1> DEFINE line == Line(first, bytes)
  <1>11. /\ line \in Seq(Pieces)
         /\ PiecesLength(line) =
              PiecesLength(a) + PiecesLength(b) + PiecesLength(c) + PiecesLength(d) + PiecesLength(e)
         /\ \A kind : ShownBy(line, kind) =
              After(After(After(After(ShownBy(a, kind), ShownBy(b, kind)), ShownBy(c, kind)),
                          ShownBy(d, kind)), ShownBy(e, kind))
    <2>1. RowOf(line, a, b, c, d, e)
      BY <1>2 DEF RowOf
    <2> HIDE DEF line
    <2> QED
      BY <1>6, <1>7, <1>8, <1>9, <1>10, <2>1, FiveJoined, SMTT(30)
  <1> HIDE DEF line
  <1>12. PiecesLength(line) <= LineLength /\ LineLength \in Nat
    <2> DEFINE o == IF Options.show_offset THEN 8 + 2 ELSE 0
               l == IF Options.show_ascii THEN 1 + Len(bytes) + 1 ELSE 0
               m == IF Options.show_ascii THEN 1 + w + 1 ELSE 0
    <2>1. LineLength = o + w * 3 + 1 + m + 1
      BY DEF LineLength
    <2>2. Len(bytes) <= w
      OBVIOUS
    <2>3. o \in Nat /\ l \in Nat /\ m \in Nat /\ l <= m
      BY <1>1, <2>2
    <2>4. PiecesLength(line) = o + 3 * w + 1 + l + 1
      BY <1>6, <1>7, <1>8, <1>9, <1>10, <1>11
    <2> HIDE DEF w, o, l, m
    <2> QED
      BY <1>1, <2>1, <2>3, <2>4
  <1>13. After(<<>>, <<>>) = <<>> /\ After(<<>>, bytes) = bytes /\ After(bytes, <<>>) = bytes
    BY DEF After
  <1>14. ShownBy(line, "byte") = bytes
    <2>1. ShownBy(line, "byte") = After(After(After(After(<<>>, bytes), <<>>), <<>>), <<>>)
      BY <1>6, <1>7, <1>8, <1>9, <1>10, <1>11
    <2> QED
      BY <1>13, <2>1
  <1>15. ASSUME Options.show_ascii PROVE ShownBy(line, "ascii") = bytes
    <2>1. ShownBy(line, "ascii") = After(After(After(After(<<>>, <<>>), <<>>), bytes), <<>>)
      BY <1>6, <1>7, <1>8, <1>9, <1>10, <1>11, <1>15
    <2> QED
      BY <1>13, <2>1
  <1> QED
    BY <1>11, <1>12, <1>14, <1>15 DEF line

LEMMA FirstPieces ==
  ASSUME NEW s \in Seq(Pieces), NEW n \in 0..Len(s)
  PROVE  SubSeq(s, 1, n) \in Seq(Pieces) /\ PiecesLength(SubSeq(s, 1, n)) <= PiecesLength(s)
  <1> DEFINE a == SubSeq(s, 1, n)
             b == SubSeq(s, n + 1, Len(s))
  <1>1. a \in Seq(Pieces) /\ b \in Seq(Pieces) /\ s = a \o b
    <2>1. 1 \in 1..(Len(s) + 1) /\ n \in (1 - 1)..Len(s) /\ Len(s) \in n..Len(s)
      OBVIOUS
    <2>2. a \o b = SubSeq(s, 1, Len(s))
      BY <2>1, ConcatAdjacentSubSeq
    <2>3. SubSeq(s, 1, Len(s)) = s
      BY SubSeqFull
    <2>4. a \in Seq(Pieces) /\ b \in Seq(Pieces)
      OBVIOUS
    <2> QED
      BY <2>2, <2>3, <2>4
  <1> HIDE DEF a, b
  <1>2. PiecesLength(s) = PiecesLength(a) + PiecesLength(b)
    BY <1>1, Joined DEF JoinOf
  <1>3. PiecesLength(a) \in Nat /\ PiecesLength(b) \in Nat
    BY <1>1, LengthType
  <1> QED
    BY <1>1, <1>2, <1>3 DEF a

(* One line more.                                                          *)
LEMMA OneLineMore ==
  ASSUME NEW x \in Nat, NEW w \in Nat \ {0}, x % w = 0, NEW r \in 1..w
  PROVE  /\ (x + (w - 1)) \div w \in Nat
         /\ (x + r + (w - 1)) \div w = (x + (w - 1)) \div w + 1
         /\ (x + w) % w = 0
  <1>1. PICK k \in Nat : x = k * w
    BY MultipleIs
  <1>2. (x + (w - 1)) \div w = k
    <2>1. x + (w - 1) \in Int /\ k \in Int /\ w - 1 \in 0..(w - 1) /\ x + (w - 1) = k * w + (w - 1)
      BY <1>1
    <2> DEFINE y == x + (w - 1)
               q == w - 1
    <2>2. y \in Int /\ q \in 0..(w - 1) /\ y = k * w + q
      BY <2>1
    <2> HIDE DEF y, q
    <2>3. y \div w = k
      BY <2>1, <2>2, DivisionIs
    <2> QED
      BY <2>3 DEF y
  <1>3. (x + r + (w - 1)) \div w = k + 1
    <2> DEFINE y == x + r + (w - 1)
               q == r - 1
               j == k + 1
    <2>1. y \in Int /\ q \in 0..(w - 1) /\ j \in Int
      OBVIOUS
    <2>2. j * w = k * w + w
      OBVIOUS
    <2>3. y = j * w + q
      BY <1>1, <2>2
    <2> HIDE DEF y, q, j
    <2>4. y \div w = j
      BY <2>1, <2>3, DivisionIs
    <2> QED
      BY <2>4 DEF y, j
  <1>4. (x + w) % w = 0
    <2>1. x + w = (k + 1) * w /\ k + 1 \in Nat /\ x + w \in Nat
      BY <1>1
    <2> QED
      BY <2>1, MultipleIs
  <1> QED
    BY <1>2, <1>3, <1>4

(* The next line: its bytes, and how many lines there are with it.         *)
LEMMA NextLineIs ==
  ASSUME InvCall, InvDump, DumpLine
  PROVE  LET next == at + Len(NextBytes)
         IN /\ NextBytes \in Seq(Nat) /\ Len(NextBytes) <= Options.bytes_per_line
            /\ next \in 0..Len(call.text)
            /\ next = Len(call.text) \/ next % Options.bytes_per_line = 0
            /\ SubSeq(call.text, 1, at) \o NextBytes = SubSeq(call.text, 1, next)
            /\ Lines(at) \in Nat /\ Lines(next) = Lines(at) + 1
            /\ Lines(Len(call.text)) \in Nat /\ Lines(at) + 1 <= Lines(Len(call.text))
  <1> DEFINE w    == Options.bytes_per_line
             L    == Len(call.text)
             last == IF at + w <= L THEN at + w ELSE L
             r    == last - at
  <1>1. /\ call.op \in Dumps /\ result = "pending" /\ w > 0 /\ at < L
        /\ DumpCall(call) /\ w \in Nat /\ L \in Nat /\ call.text \in Seq(Nat)
    BY OptionTypes DEF DumpLine, Pending, InvCall
  <1>2. at \in 0..L /\ at % w = 0 /\ at \in Nat
    BY <1>1 DEF InvDump
  <1> HIDE DEF w, L
  <1>3. last \in at..L /\ last \in Nat /\ r \in 1..w /\ last = at + r
    BY <1>1, <1>2
  <1>4. NextBytes = SubSeq(call.text, at + 1, last)
    BY DEF NextBytes, w, L
  <1>5. last = L \/ last = at + w
    OBVIOUS
  <1> HIDE DEF last, r
  <1>12. w \in Nat \ {0} /\ at \in Nat /\ at % w = 0 /\ r \in 1..w
    BY <1>1, <1>2, <1>3
  <1>13. /\ (at + (w - 1)) \div w \in Nat
         /\ (at + r + (w - 1)) \div w = (at + (w - 1)) \div w + 1
         /\ (at + w) % w = 0
    <2> DEFINE x == at
    <2>1. x \in Nat /\ x % w = 0
      BY <1>12
    <2> HIDE DEF x
    <2>2. /\ (x + (w - 1)) \div w \in Nat
          /\ (x + r + (w - 1)) \div w = (x + (w - 1)) \div w + 1
          /\ (x + w) % w = 0
      BY <1>12, <2>1, OneLineMore
    <2> QED
      BY <2>2 DEF x
  <1>6. NextBytes \in Seq(Nat) /\ Len(NextBytes) = r
    <2>1. \A i \in (at + 1)..last : call.text[i] \in Nat
      BY <1>1, <1>2, <1>3 DEF L
    <2>2. at + 1 \in Int /\ last \in Int
      BY <1>2, <1>3
    <2>3. /\ SubSeq(call.text, at + 1, last) \in Seq(Nat)
          /\ Len(SubSeq(call.text, at + 1, last)) = IF at + 1 <= last THEN last - (at + 1) + 1 ELSE 0
      BY <2>1, <2>2, SubSeqProperties
    <2> QED
      BY <1>2, <1>3, <1>4, <2>3
  <1>7. at + Len(NextBytes) = last
    BY <1>3, <1>6
  <1>8. SubSeq(call.text, 1, at) \o NextBytes = SubSeq(call.text, 1, last)
    <2>1. 1 \in 1..(Len(call.text) + 1) /\ at \in (1 - 1)..Len(call.text) /\ last \in at..Len(call.text)
      BY <1>1, <1>2, <1>3 DEF L
    <2> QED
      BY <1>1, <1>4, <2>1, ConcatAdjacentSubSeq
  <1>9. Lines(at) \in Nat /\ Lines(last) = Lines(at) + 1
    <2>1. Lines(at) = (at + (w - 1)) \div w /\ Lines(last) = (at + r + (w - 1)) \div w
      BY <1>3 DEF Lines, w
    <2> QED
      BY <1>13, <2>1
  <1>10. Lines(L) \in Nat /\ Lines(last) <= Lines(L)
    <2> DEFINE x == last + (w - 1)
               y == L + (w - 1)
    <2>1. x \in Nat /\ y \in Nat /\ x <= y /\ w \in Nat \ {0}
      BY <1>1, <1>3
    <2>2. Lines(last) = x \div w /\ Lines(L) = y \div w
      BY DEF Lines, w
    <2> HIDE DEF x, y
    <2> QED
      BY <2>1, <2>2, QuotientGrows
  <1>11. r <= w /\ last \in 0..L
    BY <1>1, <1>2, <1>3
  <1> QED
    BY <1>5, <1>13, <1>6, <1>7, <1>8, <1>9, <1>10, <1>11 DEF w, L

(* What InvDump asks of a step that goes on, and of one that returns.      *)
LEMMA DumpGoesOn ==
  ASSUME call' = call, call.op \in Dumps, result' = "pending",
         output' \in Seq(Pieces), PiecesLength(output') <= call.capacity,
         at' \in 0..Len(call.text),
         ShownBy(output', "byte") = SubSeq(call.text, 1, at'),
         Options.show_ascii => ShownBy(output', "ascii") = SubSeq(call.text, 1, at'),
         at' = Len(call.text) \/ at' % Options.bytes_per_line = 0,
         PiecesLength(output') <= Lines(at') * LineLength
  PROVE  InvDump'
  <1>1. Options' = Options /\ Lines(at)' = Lines(at') /\ LineLength' = LineLength
    BY DEF Options, Lines, LineLength
  <1>2. Shown("byte")' = ShownBy(output', "byte") /\ Shown("ascii")' = ShownBy(output', "ascii")
    BY DEF Shown
  <1>3. DumpFits'
    BY DEF DumpFits
  <1> QED
    BY <1>1, <1>2, <1>3 DEF InvDump

LEMMA DumpReturns ==
  ASSUME call' = call, call.op \in Dumps, result' # "pending",
         output' \in Seq(Pieces), PiecesLength(output') <= call.capacity,
         Options.bytes_per_line > 0 =>
           /\ call.capacity >= RequiredCapacity(Len(call.text)) => result' = "true"
           /\ result' = "true" =>
                /\ ShownBy(output', "byte") = call.text
                /\ Options.show_ascii => ShownBy(output', "ascii") = call.text
  PROVE  InvDump'
  <1>1. Options' = Options /\ LineLength' = LineLength
        /\ RequiredCapacity(Len(call.text))' = RequiredCapacity(Len(call.text))
    BY DEF Options, Lines, LineLength, RequiredCapacity
  <1>2. Shown("byte")' = ShownBy(output', "byte") /\ Shown("ascii")' = ShownBy(output', "ascii")
    BY DEF Shown
  <1>3. DumpFits'
    BY <1>1, <1>2 DEF DumpFits
  <1> QED
    BY <1>1, <1>2, <1>3 DEF InvDump

LEMMA DumpRefusedKeeps ==
  ASSUME InvCall, InvDump, DumpRefused
  PROVE  InvDump'
  <1>1. /\ call' = call /\ call.op \in Dumps /\ result' # "pending" /\ output' = output
        /\ Options.bytes_per_line = 0
    BY DEF DumpRefused, Pending, Return
  <1>2. output' \in Seq(Pieces) /\ PiecesLength(output') <= call.capacity
    BY <1>1 DEF InvDump
  <1>3. ~(Options.bytes_per_line > 0)
    BY <1>1
  <1> QED
    BY <1>1, <1>2, <1>3, DumpReturns

LEMMA DumpEndKeeps ==
  ASSUME InvCall, InvDump, DumpEnd
  PROVE  InvDump'
  <1>1. /\ call' = call /\ call.op \in Dumps /\ result' = "true" /\ output' = output
        /\ at = Len(call.text) /\ result = "pending"
    BY DEF DumpEnd, Pending, Return
  <1>2. call.text \in Seq(Nat)
    BY <1>1, OptionTypes DEF InvCall
  <1>3. SubSeq(call.text, 1, at) = call.text
    BY <1>1, <1>2, SubSeqFull
  <1>4. output' \in Seq(Pieces) /\ PiecesLength(output') <= call.capacity
    BY <1>1 DEF InvDump
  <1>5. /\ ShownBy(output', "byte") = call.text
        /\ Options.show_ascii => ShownBy(output', "ascii") = call.text
    BY <1>1, <1>3 DEF InvDump, Shown
  <1> QED
    BY <1>1, <1>4, <1>5, DumpReturns

(* There is a last piece for which there is room.                          *)
RoomFor(pieces, line, n, capacity) == PiecesLength(pieces \o SubSeq(line, 1, n)) <= capacity

LEMMA LastPieceIs ==
  ASSUME NEW s \in Seq(Pieces), NEW line \in Seq(Pieces), NEW capacity \in Nat,
         PiecesLength(s) <= capacity
  PROVE  \E n \in 0..Len(line) :
           /\ RoomFor(s, line, n, capacity)
           /\ n < Len(line) => ~RoomFor(s, line, n + 1, capacity)
  <1> DEFINE T == {n \in 0..Len(line) : n < Len(line) => ~RoomFor(s, line, n + 1, capacity)}
  <1>1. Len(line) \in Nat
    OBVIOUS
  <1>2. Len(line) \in T
    BY <1>1
  <1>3. PICK m \in T : \A k \in T : m <= k
    <2>1. T \in SUBSET Nat /\ T # {}
      BY <1>2
    <2> HIDE DEF T
    <2> QED
      BY <2>1, LeastNat
  <1>4. m \in 0..Len(line) /\ m \in Nat /\ (m < Len(line) => ~RoomFor(s, line, m + 1, capacity))
    OBVIOUS
  <1>5. RoomFor(s, line, m, capacity)
    <2>1. CASE m = 0
      <3>1. SubSeq(line, 1, 0) = <<>> /\ s \o <<>> = s
        BY SubSeqEmpty
      <3> QED
        BY <2>1, <3>1 DEF RoomFor
    <2>2. CASE m # 0
      <3>1. /\ m - 1 \in 0..Len(line) /\ m - 1 < Len(line) /\ ~(m <= m - 1)
            /\ (m - 1) + 1 = m
        BY <1>1, <1>4, <2>2
      <3>2. m - 1 \notin T
        BY <1>3, <3>1
      <3> QED
        BY <3>1, <3>2
    <2> QED
      BY <2>1, <2>2
  <1> QED
    BY <1>4, <1>5

(* One line more is written and shown; or there is no room for it, nor for *)
(* the whole dump.                                                         *)
LEMMA DumpLineKeeps ==
  ASSUME InvCall, InvDump, DumpLine
  PROVE  InvDump'
  <1> DEFINE L     == Len(call.text)
             line  == Line(call.offset + at, NextBytes)
             bytes == NextBytes
             next  == at + Len(bytes)
             fits(n) == PiecesLength(output \o SubSeq(line, 1, n)) <= call.capacity
             whole == CHOOSE n \in 0..Len(line) : fits(n) /\ (n < Len(line) => ~fits(n + 1))
             room(n) == RoomFor(output, line, n, call.capacity)
  <1>1. /\ call.op \in Dumps /\ result = "pending" /\ Options.bytes_per_line > 0 /\ at < L
        /\ DumpCall(call) /\ L \in Nat /\ call.capacity \in Nat /\ call.offset \in Nat
        /\ Options.show_ascii \in BOOLEAN /\ Options.bytes_per_line \in Nat
    BY OptionTypes DEF DumpLine, Pending, InvCall
  <1>2. /\ output \in Seq(Pieces) /\ PiecesLength(output) <= call.capacity /\ at \in Nat
        /\ ShownBy(output, "byte") = SubSeq(call.text, 1, at)
        /\ Options.show_ascii => ShownBy(output, "ascii") = SubSeq(call.text, 1, at)
        /\ PiecesLength(output) <= Lines(at) * LineLength
    BY <1>1 DEF InvDump, Shown
  <1>3. /\ bytes \in Seq(Nat) /\ Len(bytes) <= Options.bytes_per_line
        /\ next \in 0..L
        /\ next = L \/ next % Options.bytes_per_line = 0
        /\ SubSeq(call.text, 1, at) \o bytes = SubSeq(call.text, 1, next)
        /\ Lines(at) \in Nat /\ Lines(next) = Lines(at) + 1
        /\ Lines(L) \in Nat /\ Lines(at) + 1 <= Lines(L)
    BY NextLineIs
  <1>4. /\ line \in Seq(Pieces)
        /\ PiecesLength(line) <= LineLength /\ LineLength \in Nat
        /\ ShownBy(line, "byte") = bytes
        /\ Options.show_ascii => ShownBy(line, "ascii") = bytes
    <2> DEFINE first == call.offset + at
    <2>1. first \in Nat
      BY <1>1, <1>2
    <2> HIDE DEF first, bytes
    <2>2. /\ Line(first, bytes) \in Seq(Pieces)
          /\ PiecesLength(Line(first, bytes)) <= LineLength /\ LineLength \in Nat
          /\ ShownBy(Line(first, bytes), "byte") = bytes
          /\ Options.show_ascii => ShownBy(Line(first, bytes), "ascii") = bytes
      BY <1>1, <1>3, <2>1, LineIs
    <2> QED
      BY <2>2 DEF first, bytes
  <1>5. /\ whole \in 0..Len(line) /\ fits(whole) /\ (whole < Len(line) => ~fits(whole + 1))
    <2>1. \E n \in 0..Len(line) : room(n) /\ (n < Len(line) => ~room(n + 1))
      <3> HIDE DEF line
      <3> QED
        BY <1>1, <1>2, <1>4, LastPieceIs
    <2> HIDE DEF line
    <2>2. \A n : room(n) <=> fits(n)
      BY DEF RoomFor
    <2> HIDE DEF room, fits
    <2> QED
      BY <2>1, <2>2
  <1>6. IF whole = Len(line) THEN Go(next, output \o line)
                             ELSE Return(FALSE, output \o SubSeq(line, 1, whole))
    BY DEF DumpLine
  <1> HIDE DEF L, whole, line, bytes, next
  <1>7. CASE whole = Len(line)
    <2>1. call' = call /\ result' = "pending" /\ at' = next /\ output' = output \o line
      BY <1>1, <1>6, <1>7 DEF Go
    <2>2. SubSeq(line, 1, Len(line)) = line
      BY <1>4, SubSeqFull
    <2>3. PiecesLength(output') <= call.capacity
      BY <1>5, <1>7, <2>1, <2>2
    <2>4. /\ output' \in Seq(Pieces)
          /\ PiecesLength(output') = PiecesLength(output) + PiecesLength(line)
          /\ \A kind : ShownBy(output', kind) = After(ShownBy(output, kind), ShownBy(line, kind))
      <3>1. JoinOf(output', output, line)
        BY <2>1 DEF JoinOf
      <3> DEFINE u == output'
      <3>2. JoinOf(u, output, line)
        BY <3>1
      <3> HIDE DEF u
      <3>3. /\ u \in Seq(Pieces)
            /\ PiecesLength(u) = PiecesLength(output) + PiecesLength(line)
            /\ \A kind : ShownBy(u, kind) = After(ShownBy(output, kind), ShownBy(line, kind))
        BY <1>2, <1>4, <3>2, Joined
      <3> QED
        BY <3>3 DEF u
    <2>5. PiecesLength(output') <= Lines(at') * LineLength
      <3> DEFINE m == Lines(at)
                 a == PiecesLength(output)
                 b == PiecesLength(line)
                 c == LineLength
      <3>1. a \in Nat /\ b \in Nat /\ m \in Nat /\ c \in Nat /\ a <= m * c /\ b <= c
        BY <1>2, <1>3, <1>4, LengthType
      <3>2. Lines(at') = m + 1 /\ PiecesLength(output') = a + b
        BY <1>3, <2>1, <2>4
      <3> HIDE DEF m, a, b, c
      <3>3. a + b <= (m + 1) * c
        BY <3>1
      <3> QED
        BY <3>2, <3>3 DEF c
    <2>6. ShownBy(output', "byte") = SubSeq(call.text, 1, at')
      BY <1>2, <1>3, <1>4, <2>1, <2>4 DEF After
    <2>7. ASSUME Options.show_ascii PROVE ShownBy(output', "ascii") = SubSeq(call.text, 1, at')
      BY <1>2, <1>3, <1>4, <2>1, <2>4, <2>7 DEF After
    <2>8. at' \in 0..L /\ (at' = L \/ at' % Options.bytes_per_line = 0)
      BY <1>3, <2>1
    <2> QED
      BY <1>1, <2>1, <2>3, <2>4, <2>5, <2>6, <2>7, <2>8, DumpGoesOn DEF L
  <1>8. CASE whole # Len(line)
    <2>1. /\ call' = call /\ result' = "false"
          /\ output' = output \o SubSeq(line, 1, whole)
      BY <1>6, <1>8 DEF Return
    <2>2. output' \in Seq(Pieces) /\ PiecesLength(output') <= call.capacity
      <3>1. SubSeq(line, 1, whole) \in Seq(Pieces)
        BY <1>4, <1>5, FirstPieces
      <3> QED
        BY <1>2, <1>5, <2>1, <3>1
    <2>3. ~(call.capacity >= RequiredCapacity(L))
      <3> DEFINE some == SubSeq(line, 1, whole + 1)
                 m == Lines(at)
                 k == Lines(L)
                 a == PiecesLength(output)
                 b == PiecesLength(some)
                 c == LineLength
      <3>1. Len(line) \in Nat /\ whole < Len(line) /\ whole + 1 \in 0..Len(line)
        BY <1>4, <1>5, <1>8
      <3>2. some \in Seq(Pieces) /\ b <= PiecesLength(line)
        BY <1>4, <3>1, FirstPieces
      <3>3. ~(PiecesLength(output \o some) <= call.capacity)
        BY <1>5, <3>1
      <3> HIDE DEF some
      <3>4. PiecesLength(output \o some) = a + b
        BY <1>2, <3>2, LengthOfJoined
      <3>5. /\ a \in Nat /\ b \in Nat /\ m \in Nat /\ c \in Nat /\ k \in Nat
            /\ a <= m * c /\ b <= c /\ m + 1 <= k /\ ~(a + b <= call.capacity)
        <4>1. PiecesLength(line) \in Nat /\ b \in Nat /\ a \in Nat
          BY <1>2, <1>4, <3>2, LengthType
        <4>2. ~(a + b <= call.capacity)
          BY <3>3, <3>4, Zenon
        <4>3. a <= m * c /\ m \in Nat /\ k \in Nat /\ c \in Nat /\ m + 1 <= k
          BY <1>2, <1>3, <1>4
        <4>4. b <= c
          <5> DEFINE x == PiecesLength(line)
          <5>1. x \in Nat /\ x <= c /\ b <= x
            BY <1>4, <3>2, <4>1
          <5> HIDE DEF x, b, c
          <5> QED
            BY <4>1, <4>3, <5>1
        <4> QED
          BY <4>1, <4>2, <4>3, <4>4, Zenon
      <3>6. RequiredCapacity(L) = k * c
        BY <1>1 DEF RequiredCapacity
      <3> HIDE DEF m, k, a, b, c
      <3>7. (m + 1) * c <= k * c /\ k * c \in Nat
        <4>1. m + 1 \in Nat
          BY <3>5
        <4> QED
          BY <3>5, <4>1, ProductGrows
      <3>8. a + b <= (m + 1) * c /\ (m + 1) * c \in Nat
        BY <3>5
      <3> QED
        BY <1>1, <3>5, <3>6, <3>7, <3>8
    <2> QED
      BY <1>1, <2>1, <2>2, <2>3, DumpReturns DEF L
  <1> QED
    BY <1>7, <1>8

LEMMA NoDump ==
  ASSUME call'.op \notin Dumps
  PROVE  InvDump' /\ DumpCall(call')
  BY DEF InvDump, DumpCall
=============================================================================
