------------------------- MODULE Sha256StreamProofs -------------------------
(***************************************************************************)
(* However a message is cut into updates, bc_core_sha256_finalize writes   *)
(* the digest of the message, for any size of a block and of the length    *)
(* field, and so does bc_core_sha256; and the features of the processor    *)
(* that its constructor asks for are detected and published safely.        *)
(***************************************************************************)
EXTENDS Sha256Stream, CpuFeatures, FiniteSetTheorems, SequenceTheorems, TLAPS

-----------------------------------------------------------------------------
(* Arithmetic with the size of a block.                                    *)

LEMMA BlockSize == B \in Nat \ {0} /\ L \in Nat /\ L < B /\ B - L \in Nat \ {0}
  BY ShaAssumption

LEMMA PowerPositive ==
  ASSUME NEW n \in Nat
  PROVE  2 ^ n \in Nat \ {0}
  <1>1. IsFiniteSet(1..n) /\ Cardinality(1..n) = n
    BY FS_Interval
  <1>2. IsFiniteSet(SUBSET (1..n)) /\ Cardinality(SUBSET (1..n)) = 2 ^ n
    BY <1>1, FS_SUBSET
  <1>3. {} \in SUBSET (1..n)
    OBVIOUS
  <1> QED
    BY <1>2, <1>3, FS_CardinalityType, FS_EmptySet

LEMMA ProductGrows ==
  ASSUME NEW a \in Nat, NEW b \in Nat, NEW c \in Nat, a <= b
  PROVE  a * c \in Nat /\ b * c \in Nat /\ a * c <= b * c
  <1>1. PICK d \in Nat : b = a + d
    <2>1. b - a \in Nat /\ b = a + (b - a)
      OBVIOUS
    <2> QED
      BY <2>1
  <1>2. b * c = a * c + d * c /\ d * c \in Nat /\ a * c \in Nat
    BY <1>1
  <1> QED
    BY <1>2

(* One block more.                                                         *)
LEMMA NextBlock ==
  ASSUME NEW q \in Nat
  PROVE  q * B \in Nat /\ (q + 1) * B = q * B + B
  BY BlockSize

(* The quotient is where the number lies.                                  *)
LEMMA QuotientIs ==
  ASSUME NEW x \in Nat, NEW b \in Nat \ {0}, NEW q \in Nat, q * b <= x, x < (q + 1) * b
  PROVE  x \div b = q
  <1> DEFINE d == x \div b
  <1>1. d \in Nat /\ d * b <= x /\ x < (d + 1) * b
    OBVIOUS
  <1> HIDE DEF d
  <1>2. CASE d + 1 <= q
    BY <1>1, <1>2, ProductGrows
  <1>3. CASE q + 1 <= d
    BY <1>1, <1>3, ProductGrows
  <1> QED
    BY <1>1, <1>2, <1>3 DEF d

LEMMA QuotientType ==
  ASSUME NEW x \in Nat, NEW b \in Nat \ {0}
  PROVE  x \div b \in Nat /\ x % b \in Nat
  OBVIOUS

(* The padding takes a block, and another one if the mark and the length   *)
(* do not fit behind the remainder.                                        *)
LEMMA BlocksOfPadded ==
  ASSUME NEW q \in Nat, NEW r \in 0..(B - 1)
  PROVE  PaddedBlocks(q * B + r) = IF r >= B - L THEN q + 2 ELSE q + 1
  <1> DEFINE x == q * B + r + 1 + L + (B - 1)
  <1>1. r \in Nat /\ r < B /\ q * B \in Nat /\ x \in Nat /\ x = q * B + r + L + B
    BY BlockSize, NextBlock
  <1>2. (q + 1) * B = q * B + B /\ (q + 2) * B = q * B + 2 * B /\ (q + 3) * B = q * B + 3 * B
    BY BlockSize
  <1>3. CASE r >= B - L
    <2>1. (q + 2) * B <= x /\ x < ((q + 2) + 1) * B
      BY <1>1, <1>2, <1>3, BlockSize
    <2> QED
      BY <1>1, <1>3, <2>1, BlockSize, QuotientIs DEF PaddedBlocks
  <1>4. CASE ~(r >= B - L)
    <2>1. (q + 1) * B <= x /\ x < ((q + 1) + 1) * B
      BY <1>1, <1>2, <1>4, BlockSize
    <2> QED
      BY <1>1, <1>4, <2>1, BlockSize, QuotientIs DEF PaddedBlocks
  <1> QED
    BY <1>3, <1>4

-----------------------------------------------------------------------------
(* The types of cells and blocks.                                          *)
Values == {"byte", "mark", "zero", "length"} \X Nat

LEMMA DigitType ==
  ASSUME NEW n \in Nat, NEW k \in 1..L
  PROVE  Digit(n, k) \in Values
  <1>1. CellBits \in Nat /\ L - k \in Nat /\ CellBits * (L - k) \in Nat /\ 8 * n \in Nat
    BY ShaAssumption
  <1>2. 2 ^ (CellBits * (L - k)) \in Nat \ {0} /\ 2 ^ CellBits \in Nat \ {0}
    BY <1>1, PowerPositive
  <1>3. (8 * n) \div 2 ^ (CellBits * (L - k)) \in Nat
    BY <1>1, <1>2, QuotientType
  <1>4. ((8 * n) \div 2 ^ (CellBits * (L - k))) % 2 ^ CellBits \in Nat
    BY <1>2, <1>3, QuotientType
  <1> QED
    BY <1>4 DEF Digit, Values

LEMMA ByteType ==
  ASSUME NEW k \in Nat
  PROVE  MessageBlock(k) \in Cells /\ \A i \in 1..B : k + i - 1 \in Nat
  <1>1. \A i \in 1..B : k + i - 1 \in Nat
    BY BlockSize
  <1> QED
    BY <1>1 DEF MessageBlock, Cells, Byte

LEMMA PadType ==
  ASSUME NEW remainder \in Cells, NEW r \in 0..(B - 1), NEW n \in Nat
  PROVE  /\ Pad(remainder, r, n) \in Seq(Cells)
         /\ Marked(remainder, r) \in Cells
         /\ WithLength(Marked(remainder, r), n) \in Cells
         /\ WithLength([i \in 1..B |-> Zero], n) \in Cells
         /\ Len(Pad(remainder, r, n)) = IF r >= B - L THEN 2 ELSE 1
  <1>1. Marked(remainder, r) \in Cells
    <2>1. Mark \in Values /\ Zero \in Values /\ \A i \in 1..B : remainder[i] \in Values
      BY DEF Mark, Zero, Values, Cells
    <2> QED
      BY <2>1 DEF Marked, Cells, Values
  <1>2. ASSUME NEW block \in Cells PROVE WithLength(block, n) \in Cells
    <2>1. \A i \in 1..B : i > B - L => i - (B - L) \in 1..L
      BY BlockSize
    <2>2. \A i \in 1..B : i > B - L => Digit(n, i - (B - L)) \in Values
      BY <2>1, DigitType
    <2>3. \A i \in 1..B : block[i] \in Values
      BY DEF Cells, Values
    <2> QED
      BY <2>2, <2>3 DEF WithLength, Cells, Values
  <1>3. [i \in 1..B |-> Zero] \in Cells
    BY DEF Zero, Cells
  <1> QED
    BY <1>1, <1>2, <1>3 DEF Pad

-----------------------------------------------------------------------------
(* The cell at a place of a padded message that ends at a given place.     *)
PaddedCell(n, end, p) ==
  IF p <= n THEN Byte(p)
  ELSE IF p = n + 1 THEN Mark
  ELSE IF p > end - L THEN Digit(n, p - (end - L))
  ELSE Zero

(* The block behind p bytes of it.                                         *)
PaddedBlock(n, end, p) == [i \in 1..B |-> PaddedCell(n, end, p + i)]

NoBytes == [i \in 1..B |-> Zero]

LEMMA PaddedCells ==
  ASSUME NEW n \in Nat
  PROVE  Padded(n) = [k \in 1..PaddedBlocks(n) |->
                        PaddedBlock(n, PaddedBlocks(n) * B, (k - 1) * B)]
  BY DEF Padded, PaddedCell, PaddedBlock

(* The block that the remainder is marked in, with the length or without.  *)
LEMMA LastBlocks ==
  ASSUME NEW c \in Nat, NEW r \in 0..(B - 1), NEW remainder \in Cells,
         NEW n, n = c + r, NEW end,
         \A i \in 1..r : remainder[i] = Byte(c + i)
  PROVE  /\ r < B - L /\ end = c + B =>
              WithLength(Marked(remainder, r), n)
                = PaddedBlock(n, end, c)
         /\ r >= B - L /\ end = c + 2 * B =>
              /\ Marked(remainder, r) = PaddedBlock(n, end, c)
              /\ WithLength(NoBytes, n)
                   = PaddedBlock(n, end, c + B)
  <1>1. r \in Nat /\ r < B
    BY BlockSize
  <1>2. ASSUME r < B - L, end = c + B, NEW i \in 1..B
        PROVE  (IF i > B - L THEN Digit(n, i - (B - L))
                ELSE IF i <= r THEN remainder[i] ELSE IF i = r + 1 THEN Mark ELSE Zero)
               = PaddedCell(n, end, c + i)
    <2>1. /\ i <= r <=> c + i <= n
          /\ i = r + 1 <=> c + i = n + 1
          /\ i > B - L <=> c + i > end - L
          /\ (c + i) - (end - L) = i - (B - L)
          /\ i <= r => i \in 1..r
          /\ i > B - L => ~(i <= r) /\ i # r + 1
      BY <1>1, <1>2, BlockSize
    <2> QED
      BY <2>1 DEF PaddedCell
  <1>3. ASSUME r >= B - L, end = c + 2 * B, NEW i \in 1..B
        PROVE  /\ (IF i <= r THEN remainder[i] ELSE IF i = r + 1 THEN Mark ELSE Zero)
                    = PaddedCell(n, end, c + i)
               /\ (IF i > B - L THEN Digit(n, i - (B - L)) ELSE Zero)
                    = PaddedCell(n, end, c + B + i)
    <2>1. /\ i <= r <=> c + i <= n
          /\ i = r + 1 <=> c + i = n + 1
          /\ ~(c + i > end - L)
          /\ i <= r => i \in 1..r
      BY <1>1, <1>3, BlockSize
    <2>2. /\ ~(c + B + i <= n) /\ c + B + i # n + 1
          /\ i > B - L <=> c + B + i > end - L
          /\ (c + B + i) - (end - L) = i - (B - L)
      BY <1>1, <1>3, BlockSize
    <2> QED
      BY <2>1, <2>2 DEF PaddedCell
  <1>4. CASE r < B - L /\ end = c + B
    BY <1>1, <1>2, <1>4, BlockSize DEF WithLength, Marked, PaddedBlock, NoBytes
  <1>5. CASE r >= B - L /\ end = c + 2 * B
    <2>1. \A i \in 1..B :
            (IF i <= r THEN remainder[i] ELSE IF i = r + 1 THEN Mark ELSE Zero)
              = PaddedCell(n, end, c + i)
      BY <1>3, <1>5
    <2>2. \A i \in 1..B :
            (IF i > B - L THEN Digit(n, i - (B - L)) ELSE Zero) = PaddedCell(n, end, c + B + i)
      BY <1>3, <1>5
    <2>3. Marked(remainder, r) = PaddedBlock(n, end, c)
      BY <2>1 DEF Marked, PaddedBlock
    <2>4. WithLength(NoBytes, n) = PaddedBlock(n, end, c + B)
      BY <2>2 DEF WithLength, PaddedBlock, NoBytes
    <2>5. ~(r < B - L)
      BY <1>1, <1>5, BlockSize
    <2> QED
      BY <2>3, <2>4, <2>5
  <1> QED
    BY <1>4, <1>5

(* The blocks before hold the message only.                                *)
LEMMA FirstBlocks ==
  ASSUME NEW q \in Nat, NEW n \in Nat, NEW end, q * B <= n, NEW k \in 1..q
  PROVE  PaddedBlock(n, end, (k - 1) * B) = MessageBlock((k - 1) * B + 1)
  <1>1. k - 1 \in Nat /\ k \in Nat /\ (k - 1) + 1 = k
    OBVIOUS
  <1>2. (k - 1) * B \in Nat /\ k * B = (k - 1) * B + B /\ k * B <= q * B
    BY <1>1, NextBlock, ProductGrows, BlockSize
  <1>3. ASSUME NEW i \in 1..B
        PROVE  /\ (k - 1) * B + i <= n
               /\ (k - 1) * B + i = (k - 1) * B + 1 + i - 1
    BY <1>2, BlockSize, NextBlock
  <1> QED
    BY <1>3 DEF PaddedBlock, PaddedCell, MessageBlock

(* The blocks of a message, and its padding behind them.                   *)
LEMMA PadCompletes ==
  ASSUME NEW s \in Seq(Cells), NEW r \in 0..(B - 1), NEW remainder \in Cells, HoldsMessage(s),
         \A i \in 1..r : remainder[i] = Byte(Len(s) * B + i)
  PROVE  /\ s \o Pad(remainder, r, Len(s) * B + r) \in Seq(Cells)
         /\ s \o Pad(remainder, r, Len(s) * B + r) = Padded(Len(s) * B + r)
  <1>1. PICK q \in Nat : q = Len(s)
    BY LenProperties
  <1>2. PICK c \in Nat : c = q * B
    BY NextBlock
  <1>3. PICK n \in Nat : n = c + r
    BY BlockSize
  <1>4. PICK m \in {1, 2} : m = IF r >= B - L THEN 2 ELSE 1
    OBVIOUS
  <1>5. /\ PaddedBlocks(n) = q + m /\ (q + m) * B = c + m * B
        /\ (q + 1) * B = c + B
    <2>1. PaddedBlocks(n) = IF r >= B - L THEN q + 2 ELSE q + 1
      BY <1>2, <1>3, BlocksOfPadded
    <2>2. (q + 1) * B = c + B /\ (q + 2) * B = c + 2 * B /\ 1 * B = B
      BY <1>2, BlockSize
    <2> QED
      BY <1>4, <2>1, <2>2
  <1>0. \A i \in 1..r : remainder[i] = Byte(c + i)
    BY <1>1, <1>2
  <1>e. PICK end \in Nat : end = c + m * B
    BY BlockSize
  <1> DEFINE pads == Pad(remainder, r, n)
             cell(k) == PaddedBlock(n, end, (k - 1) * B)
  <1>6. /\ pads \in Seq(Cells) /\ Len(pads) = m
        /\ \A k \in 1..m : pads[k] = cell(q + k)
    <2>1. pads \in Seq(Cells) /\ Len(pads) = m
      BY <1>4, PadType
    <2>2. CASE r >= B - L
      <3>1. m = 2 /\ pads = <<Marked(remainder, r), WithLength(NoBytes, n)>>
        BY <1>4, <2>2 DEF Pad, NoBytes
      <3>2. pads[1] = Marked(remainder, r) /\ pads[2] = WithLength(NoBytes, n)
        BY <3>1
      <3>3. /\ Marked(remainder, r) = PaddedBlock(n, end, c)
            /\ WithLength(NoBytes, n)
                   = PaddedBlock(n, end, c + B)
        BY <1>0, <1>3, <1>e, <2>2, <3>1, LastBlocks
      <3>4. ((q + 1) - 1) * B = c /\ ((q + 2) - 1) * B = c + B
        BY <1>2, <1>5
      <3>5. pads[1] = cell(q + 1) /\ pads[2] = cell(q + 2)
        BY <3>1, <3>2, <3>3, <3>4
      <3> QED
        BY <2>1, <3>1, <3>5
    <2>3. CASE ~(r >= B - L)
      <3>1. m = 1 /\ pads = <<WithLength(Marked(remainder, r), n)>>
        BY <1>4, <2>3 DEF Pad
      <3>2. pads[1] = WithLength(Marked(remainder, r), n)
        BY <3>1
      <3>3. WithLength(Marked(remainder, r), n) = PaddedBlock(n, end, c)
        <4>1. r < B - L /\ end = c + B
          BY <1>e, <2>3, <3>1, BlockSize
        <4> QED
          BY <1>0, <1>3, <4>1, LastBlocks
      <3>4. ((q + 1) - 1) * B = c /\ end = c + B
        BY <1>2, <1>e, <3>1, BlockSize
      <3>5. pads[1] = cell(q + 1)
        BY <3>2, <3>3, <3>4
      <3> QED
        BY <2>1, <3>1, <3>5
    <2> QED
      BY <2>2, <2>3
  <1>7. \A k \in 1..q : s[k] = cell(k)
    <2> SUFFICES ASSUME NEW k \in 1..q PROVE s[k] = cell(k)
      OBVIOUS
    <2>1. q * B <= n
      BY <1>2, <1>3
    <2>2. cell(k) = MessageBlock((k - 1) * B + 1)
      BY <2>1, FirstBlocks
    <2> QED
      BY <1>1, <2>2 DEF HoldsMessage
  <1>8. Padded(n) = [k \in 1..(q + m) |-> cell(k)]
    BY <1>5, <1>e, PaddedCells
  <1> HIDE DEF pads, cell
  <1>9. /\ s \o pads \in Seq(Cells) /\ Len(s \o pads) = q + m
        /\ \A k \in 1..(q + m) : (s \o pads)[k] = IF k <= q THEN s[k] ELSE pads[k - q]
    BY <1>1, <1>6, ConcatProperties
  <1>10. \A k \in 1..(q + m) : (s \o pads)[k] = cell(k)
    <2> SUFFICES ASSUME NEW k \in 1..(q + m) PROVE (s \o pads)[k] = cell(k)
      OBVIOUS
    <2>1. CASE k <= q
      <3>1. k \in 1..q
        BY <2>1
      <3> QED
        BY <1>7, <1>9, <2>1, <3>1
    <2>2. CASE ~(k <= q)
      <3>1. k - q \in 1..m /\ q + (k - q) = k
        BY <2>2
      <3>2. pads[k - q] = cell(k)
        BY <1>6, <3>1
      <3> QED
        BY <1>9, <2>2, <3>2
    <2> QED
      BY <2>1, <2>2
  <1>11. s \o pads = Padded(n)
    <2>1. s \o pads = [k \in 1..(q + m) |-> (s \o pads)[k]]
      BY <1>9, LenProperties
    <2> QED
      BY <1>8, <1>10, <2>1
  <1> QED
    BY <1>1, <1>2, <1>3, <1>9, <1>11 DEF pads

-----------------------------------------------------------------------------
(* What the steps do to the state and the buffer.                          *)

LEMMA BlockAppended ==
  ASSUME NEW s \in Seq(Cells), NEW block \in Cells
  PROVE  /\ Append(s, block) \in Seq(Cells)
         /\ Len(s) \in Nat /\ Len(s) * B \in Nat
         /\ Len(Append(s, block)) * B = Len(s) * B + B
         /\ HoldsMessage(s) /\ block = MessageBlock(Len(s) * B + 1) => HoldsMessage(Append(s, block))
  <1>1. PICK q \in Nat : q = Len(s)
    BY LenProperties
  <1>2. /\ Append(s, block) \in Seq(Cells) /\ Len(Append(s, block)) = q + 1
        /\ \A k \in 1..q : Append(s, block)[k] = s[k]
        /\ Append(s, block)[q + 1] = block
    BY <1>1, AppendProperties
  <1>3. ASSUME HoldsMessage(s), block = MessageBlock(q * B + 1), NEW k \in 1..(q + 1)
        PROVE  Append(s, block)[k] = MessageBlock((k - 1) * B + 1)
    <2>1. CASE k = q + 1
      <3>1. (k - 1) = q
        BY <2>1
      <3> QED
        BY <1>2, <1>3, <2>1, <3>1
    <2>2. CASE k # q + 1
      <3>1. k \in 1..q
        BY <2>2
      <3> QED
        BY <1>1, <1>2, <1>3, <3>1 DEF HoldsMessage
    <2> QED
      BY <2>1, <2>2
  <1> QED
    BY <1>1, <1>2, <1>3, NextBlock DEF HoldsMessage

LEMMA StoredFacts ==
  ASSUME IInv, pc \in {"fill", "blocks"}, NEW n \in Nat, n <= left
  PROVE  /\ Stored(n) \in Cells
         /\ ~spent => \A i \in 1..B : i <= bufferLength + n => Stored(n)[i] = Byte(Len(state) * B + i)
  <1>1. /\ message \in Nat /\ left \in Nat /\ left <= message /\ bufferLength \in Nat
        /\ buffer \in Cells /\ state \in Seq(Cells)
    BY DEF IInv, TypeOK, InvLengths
  <1>2. ASSUME NEW i \in 1..B, i > bufferLength
        PROVE  NextByte + (i - bufferLength - 1) \in Nat
    BY <1>1, <1>2, BlockSize DEF NextByte
  <1>3. Stored(n) \in Cells
    <2>1. \A i \in 1..B : i > bufferLength => Byte(NextByte + (i - bufferLength - 1)) \in Values
      BY <1>2 DEF Byte, Values
    <2>2. \A i \in 1..B : buffer[i] \in Values
      BY <1>1 DEF Cells, Values
    <2> QED
      BY <2>1, <2>2 DEF Stored, Cells, Values
  <1>4. ASSUME ~spent, NEW i \in 1..B, i <= bufferLength + n
        PROVE  Stored(n)[i] = Byte(Len(state) * B + i)
    <2>1. PICK c \in Nat : c = Len(state) * B
      BY <1>1, LenProperties, NextBlock
    <2>2. c + bufferLength = message - left /\ \A k \in 1..bufferLength : buffer[k] = Byte(c + k)
      BY <1>4, <2>1 DEF IInv, InvContext
    <2>3. CASE i > bufferLength
      <3>1. NextByte + (i - bufferLength - 1) = c + i
        BY <1>1, <2>2, BlockSize DEF NextByte
      <3> QED
        BY <1>4, <2>1, <2>3, <3>1 DEF Stored
    <2>4. CASE ~(i > bufferLength)
      <3>1. i \in 1..bufferLength
        BY <1>1, <2>4, BlockSize
      <3> QED
        BY <2>1, <2>2, <2>4, <3>1 DEF Stored
    <2> QED
      BY <2>3, <2>4
  <1> QED
    BY <1>3, <1>4

-----------------------------------------------------------------------------
LEMMA InitHolds == Init => IInv
  <1> SUFFICES ASSUME Init PROVE IInv
    OBVIOUS
  <1>1. /\ state = <<>> /\ shot = <<>> /\ <<>> \in Seq(Cells) /\ Len(<<>>) = 0
    BY EmptySeq DEF Init
  <1>2. buffer \in Cells
    BY DEF Init, Zero, Cells
  <1>3. digest \in [blocks : Seq(Cells), length : Nat, valid : BOOLEAN] /\ ~digest.valid
    BY <1>1 DEF Init, NoDigest
  <1>4. TypeOK
    BY <1>1, <1>2, <1>3 DEF Init, TypeOK
  <1>5. InvLengths /\ InvShot /\ DigestIsOfMessage
    BY <1>3, BlockSize DEF Init, InvLengths, InvShot, DigestIsOfMessage
  <1>6. InvContext
    BY <1>1, BlockSize DEF Init, InvContext, HoldsMessage
  <1> QED
    BY <1>4, <1>5, <1>6 DEF IInv

LEMMA ContextInitKeeps == IInv /\ ContextInit => IInv'
  <1> SUFFICES ASSUME IInv, ContextInit PROVE IInv'
    OBVIOUS
  <1> USE DEF ContextInit, Return
  <1>1. /\ state' = <<>> /\ <<>> \in Seq(Cells) /\ Len(<<>>) = 0
    BY EmptySeq
  <1>2. digest' \in [blocks : Seq(Cells), length : Nat, valid : BOOLEAN] /\ ~digest'.valid
    BY <1>1 DEF NoDigest
  <1>3. TypeOK'
    BY <1>1, <1>2 DEF IInv, TypeOK
  <1>4. InvLengths' /\ InvShot' /\ DigestIsOfMessage'
    BY <1>2, BlockSize DEF IInv, InvLengths, InvShot, DigestIsOfMessage
  <1>5. InvContext'
    <2>1. left' = 0
      BY DEF IInv, InvLengths
    <2> QED
      BY <1>1, <2>1, BlockSize DEF InvContext, HoldsMessage
  <1> QED
    BY <1>3, <1>4, <1>5 DEF IInv

(* An update that is empty, or that the processor cannot do, and no step.  *)
LEMMA StandingKeeps ==
  ASSUME IInv, UNCHANGED <<available, context, message, spent, pc, left, shot, digest>>,
         result' \in BOOLEAN
  PROVE  IInv'
  BY DEF IInv, TypeOK, InvLengths, InvContext, InvShot, DigestIsOfMessage, context, HoldsMessage

LEMMA StartUpdateKeeps ==
  ASSUME IInv, NEW n \in Lengths, StartUpdate(n)
  PROVE  IInv'
  <1> USE DEF StartUpdate
  <1>1. n \in Nat /\ left = 0 /\ message \in Nat /\ totalLength \in Nat /\ bufferLength \in Nat
    BY ShaAssumption DEF IInv, TypeOK, InvLengths
  <1>2. digest' \in [blocks : Seq(Cells), length : Nat, valid : BOOLEAN] /\ ~digest'.valid
    BY EmptySeq DEF NoDigest
  <1>3. TypeOK'
    BY <1>1, <1>2 DEF IInv, TypeOK
  <1>4. InvLengths' /\ InvShot' /\ DigestIsOfMessage'
    BY <1>1, <1>2 DEF IInv, InvLengths, InvShot, DigestIsOfMessage
  <1>5. InvContext'
    <2> SUFFICES ASSUME ~spent PROVE InvContext'
      BY DEF InvContext
    <2>1. /\ totalLength = message /\ HoldsMessage(state)
          /\ Len(state) * B + bufferLength = message
          /\ \A i \in 1..bufferLength : buffer[i] = Byte(Len(state) * B + i)
      BY <1>1 DEF IInv, InvContext
    <2>2. (message + n) - n = message
      BY <1>1
    <2> QED
      BY <2>1, <2>2 DEF InvContext, HoldsMessage
  <1> QED
    BY <1>3, <1>4, <1>5 DEF IInv

(* What is left of an update goes into the buffer: the end of an update.   *)
LEMMA LeftStored ==
  ASSUME IInv, pc \in {"fill", "blocks"}, bufferLength + left < B,
         buffer' = Stored(left), bufferLength' = bufferLength + left, left' = 0, Return(TRUE),
         UNCHANGED <<available, state, totalLength, message, spent, shot, digest>>
  PROVE  IInv'
  <1> USE DEF Return
  <1>1. /\ bufferLength \in Nat /\ left \in Nat /\ left <= message /\ message \in Nat
        /\ Stored(left) \in Cells
    BY StoredFacts DEF IInv, TypeOK, InvLengths
  <1>2. TypeOK'
    BY <1>1 DEF IInv, TypeOK
  <1>3. InvLengths' /\ InvShot' /\ DigestIsOfMessage'
    BY DEF IInv, InvLengths, InvShot, DigestIsOfMessage
  <1>4. ASSUME ~spent PROVE InvContext'
    <2>1. PICK c \in Nat : c = Len(state) * B
      BY LenProperties, NextBlock DEF IInv, TypeOK
    <2>2. /\ totalLength = message /\ HoldsMessage(state)
          /\ c + bufferLength = message - left
      BY <1>4, <2>1 DEF IInv, InvContext
    <2>3. \A i \in 1..(bufferLength + left) : Stored(left)[i] = Byte(Len(state) * B + i)
      <3>1. \A i \in 1..(bufferLength + left) : i \in 1..B /\ i <= bufferLength + left
        BY <1>1, BlockSize
      <3> QED
        BY <1>1, <1>4, <3>1, StoredFacts
    <2>4. c + (bufferLength + left) = message - 0
      BY <1>1, <2>2
    <2> QED
      BY <2>1, <2>2, <2>3, <2>4 DEF InvContext, HoldsMessage
  <1> QED
    BY <1>2, <1>3, <1>4 DEF IInv, InvContext

LEMMA FillPartKeeps == IInv /\ FillPart => IInv'
  <1> SUFFICES ASSUME IInv, FillPart PROVE IInv'
    OBVIOUS
  <1>1. bufferLength + left < B
    BY BlockSize DEF FillPart, Needed, IInv, TypeOK
  <1> QED
    BY <1>1, LeftStored DEF FillPart

LEMMA RestKeeps == IInv /\ Rest => IInv'
  <1> SUFFICES ASSUME IInv, Rest PROVE IInv'
    OBVIOUS
  <1>1. bufferLength = 0 /\ left \in Nat
    BY DEF Rest, IInv, TypeOK, InvLengths
  <1>2. bufferLength + left < B /\ bufferLength' = bufferLength + left
    BY <1>1, BlockSize DEF Rest
  <1> QED
    BY <1>2, LeftStored DEF Rest

(* A block of the message is compressed, from the buffer or from the input.*)
LEMMA BlockCompressed ==
  ASSUME IInv, pc \in {"fill", "blocks"}, NEW block \in Cells, B <= bufferLength + left,
         ~spent => block = MessageBlock(Len(state) * B + 1),
         state' = Append(state, block), buffer' \in Cells, bufferLength' = 0,
         left' = left - (B - bufferLength), pc' = "blocks",
         UNCHANGED <<available, totalLength, message, spent, shot, digest, result>>
  PROVE  IInv'
  <1>1. /\ bufferLength \in Nat /\ left \in Nat /\ left <= message /\ message \in Nat
        /\ bufferLength < B /\ left' \in Nat /\ left' <= message
    BY BlockSize DEF IInv, TypeOK, InvLengths
  <1>2. /\ state' \in Seq(Cells) /\ Len(state) * B \in Nat
        /\ Len(state') * B = Len(state) * B + B
        /\ ~spent /\ HoldsMessage(state) => HoldsMessage(state')
    BY BlockAppended DEF IInv, TypeOK
  <1>3. TypeOK'
    BY <1>1, <1>2 DEF IInv, TypeOK
  <1>4. InvLengths' /\ InvShot' /\ DigestIsOfMessage'
    BY <1>1, BlockSize DEF IInv, InvLengths, InvShot, DigestIsOfMessage
  <1>5. ASSUME ~spent PROVE InvContext'
    <2>1. PICK c \in Nat : c = Len(state) * B
      BY <1>2
    <2>2. /\ totalLength = message /\ HoldsMessage(state)
          /\ c + bufferLength = message - left
      BY <1>5, <2>1 DEF IInv, InvContext
    <2>3. (c + B) + 0 = message - (left - (B - bufferLength))
      BY <1>1, <2>2, BlockSize
    <2> QED
      BY <1>2, <1>5, <2>1, <2>2, <2>3 DEF InvContext, HoldsMessage
  <1> QED
    BY <1>3, <1>4, <1>5 DEF IInv, InvContext

LEMMA FillBlockKeeps == IInv /\ FillBlock => IInv'
  <1> SUFFICES ASSUME IInv, FillBlock PROVE IInv'
    OBVIOUS
  <1>1. /\ bufferLength \in Nat /\ left \in Nat /\ bufferLength < B /\ pc = "fill"
        /\ Needed \in Nat /\ Needed <= left /\ bufferLength + Needed = B
    BY BlockSize DEF FillBlock, Needed, IInv, TypeOK, InvLengths
  <1>2. /\ Stored(Needed) \in Cells
        /\ ~spent => \A i \in 1..B : i <= bufferLength + Needed =>
                       Stored(Needed)[i] = Byte(Len(state) * B + i)
    BY <1>1, StoredFacts
  <1>3. ASSUME ~spent PROVE Stored(Needed) = MessageBlock(Len(state) * B + 1)
    <2>1. PICK c \in Nat : c = Len(state) * B
      BY LenProperties, NextBlock DEF IInv, TypeOK
    <2>2. \A i \in 1..B : Stored(Needed)[i] = Byte(c + 1 + i - 1)
      <3>1. \A i \in 1..B : i <= bufferLength + Needed /\ c + 1 + i - 1 = c + i
        BY <1>1, BlockSize
      <3> QED
        BY <1>2, <1>3, <2>1, <3>1
    <2> QED
      BY <1>2, <2>1, <2>2 DEF MessageBlock, Cells
  <1> QED
    BY <1>1, <1>2, <1>3, BlockSize, BlockCompressed DEF FillBlock, Needed

LEMMA BlockKeeps == IInv /\ Block => IInv'
  <1> SUFFICES ASSUME IInv, Block PROVE IInv'
    OBVIOUS
  <1>1. /\ bufferLength = 0 /\ left \in Nat /\ message \in Nat /\ left <= message /\ B <= left
        /\ pc = "blocks" /\ NextByte = message - left + 1 /\ buffer \in Cells
    BY DEF Block, IInv, TypeOK, InvLengths, NextByte
  <1>2. MessageBlock(NextByte) \in Cells
    BY <1>1, ByteType
  <1>3. ~spent => NextByte = Len(state) * B + 1
    <2>1. PICK c \in Nat : c = Len(state) * B
      BY LenProperties, NextBlock DEF IInv, TypeOK
    <2>2. ~spent => c + bufferLength = message - left
      BY <1>1, <2>1 DEF IInv, InvContext
    <2> QED
      BY <1>1, <2>1, <2>2
  <1>4. B <= bufferLength + left /\ left - B = left - (B - bufferLength)
    BY <1>1, BlockSize
  <1> QED
    BY <1>1, <1>2, <1>3, <1>4, BlockCompressed DEF Block

(* The padding completes the message, if the context holds one.            *)
LEMMA FinalizeKeeps == IInv /\ Finalize => IInv'
  <1> SUFFICES ASSUME IInv, Finalize PROVE IInv'
    OBVIOUS
  <1> USE DEF Finalize, Return
  <1>1. /\ bufferLength \in 0..(B - 1) /\ buffer \in Cells /\ state \in Seq(Cells)
        /\ totalLength \in Nat /\ message \in Nat /\ left = 0
    BY BlockSize DEF IInv, TypeOK, InvLengths
  <1>2. state' \in Seq(Cells)
    <2>1. Pad(buffer, bufferLength, totalLength) \in Seq(Cells)
      BY <1>1, PadType
    <2> QED
      BY <1>1, <2>1, ConcatProperties
  <1>3. /\ digest' \in [blocks : Seq(Cells), length : Nat, valid : BOOLEAN]
        /\ digest'.blocks = state' /\ digest'.length = message /\ digest'.valid = ~spent
    BY <1>1, <1>2 DEF IInv, TypeOK
  <1>4. TypeOK'
    BY <1>1, <1>2, <1>3 DEF IInv, TypeOK
  <1>5. DigestIsOfMessage'
    <2>1. ASSUME ~spent PROVE state' = Padded(message)
      <3>1. PICK c \in Nat : c = Len(state) * B
        BY <1>1, LenProperties, NextBlock
      <3>2. /\ totalLength = message /\ HoldsMessage(state)
            /\ c + bufferLength = message - left
            /\ \A i \in 1..bufferLength : buffer[i] = Byte(Len(state) * B + i)
        BY <2>1, <3>1 DEF IInv, InvContext
      <3>3. totalLength = Len(state) * B + bufferLength
        BY <1>1, <3>1, <3>2
      <3>4. state \o Pad(buffer, bufferLength, Len(state) * B + bufferLength)
              = Padded(Len(state) * B + bufferLength)
        BY <1>1, <3>2, PadCompletes
      <3>5. state' = state \o Pad(buffer, bufferLength, totalLength)
        OBVIOUS
      <3> QED
        BY <3>2, <3>3, <3>4, <3>5
    <2> QED
      BY <1>3, <2>1 DEF DigestIsOfMessage
  <1>6. InvLengths' /\ InvShot' /\ InvContext'
    BY <1>1 DEF IInv, InvLengths, InvShot, InvContext
  <1> QED
    BY <1>4, <1>5, <1>6 DEF IInv

-----------------------------------------------------------------------------
LEMMA StartHashKeeps ==
  ASSUME IInv, NEW n \in Lengths, StartHash(n)
  PROVE  IInv'
  <1> USE DEF StartHash
  <1>1. n \in Nat /\ shot' \in Seq(Cells) /\ Len(shot') = 0
    BY ShaAssumption, EmptySeq
  <1>2. digest' \in [blocks : Seq(Cells), length : Nat, valid : BOOLEAN]
        /\ ~digest'.valid /\ digest'.length = n
    BY <1>1, EmptySeq DEF NoDigest
  <1>3. TypeOK'
    BY <1>1, <1>2 DEF IInv, TypeOK, context
  <1>4. InvLengths' /\ DigestIsOfMessage'
    BY <1>2 DEF IInv, InvLengths, DigestIsOfMessage, context
  <1>5. InvShot'
    BY <1>1, <1>2, BlockSize DEF InvShot, HoldsMessage
  <1>6. InvContext'
    BY DEF IInv, InvContext, InvLengths, HoldsMessage, TypeOK, context
  <1> QED
    BY <1>3, <1>4, <1>5, <1>6 DEF IInv

LEMMA HashBlockKeeps == IInv /\ HashBlock => IInv'
  <1> SUFFICES ASSUME IInv, HashBlock PROVE IInv'
    OBVIOUS
  <1>1. /\ left \in Nat /\ B <= left /\ shot \in Seq(Cells) /\ HoldsMessage(shot)
        /\ Len(shot) * B + left = digest.length /\ digest.length \in Nat /\ left' = left - B
        /\ left' \in Nat /\ pc = "hash"
        /\ UNCHANGED <<available, context, message, spent, pc, digest, result>>
    BY BlockSize DEF HashBlock, IInv, TypeOK, InvShot
  <1>2. PICK c \in Nat : c = Len(shot) * B
    BY <1>1, LenProperties, NextBlock
  <1>3. Offset = c
    BY <1>1, <1>2 DEF Offset
  <1>4. MessageBlock(c + 1) \in Cells
    BY <1>2, ByteType
  <1>5. /\ shot' \in Seq(Cells) /\ Len(shot') * B = c + B /\ HoldsMessage(shot')
    BY <1>1, <1>2, <1>3, <1>4, BlockAppended DEF HashBlock
  <1>6. (c + B) + (left - B) = digest.length
    BY <1>1, <1>2, BlockSize
  <1>7. TypeOK'
    BY <1>1, <1>5 DEF IInv, TypeOK, context
  <1>8. InvLengths' /\ DigestIsOfMessage'
    BY <1>1 DEF IInv, InvLengths, DigestIsOfMessage, context
  <1>9. InvShot'
    BY <1>1, <1>5, <1>6 DEF InvShot, HoldsMessage
  <1>10. InvContext'
    BY <1>1 DEF IInv, InvContext, HoldsMessage, context
  <1> QED
    BY <1>7, <1>8, <1>9, <1>10 DEF IInv

LEMMA HashEndKeeps == IInv /\ HashEnd => IInv'
  <1> SUFFICES ASSUME IInv, HashEnd PROVE IInv'
    OBVIOUS
  <1>1. /\ left \in Nat /\ left < B /\ left \in 0..(B - 1) /\ shot \in Seq(Cells)
        /\ HoldsMessage(shot) /\ pc = "hash" /\ pc' = "idle" /\ left' = 0 /\ shot' = <<>>
        /\ Len(shot) * B + left = digest.length /\ digest.length \in Nat /\ result' = TRUE
        /\ digest \in [blocks : Seq(Cells), length : Nat, valid : BOOLEAN]
        /\ UNCHANGED <<available, context, message, spent>>
    BY BlockSize DEF HashEnd, IInv, TypeOK, InvShot, Return
  <1>2. PICK c \in Nat : c = Len(shot) * B
    BY <1>1, LenProperties, NextBlock
  <1>3. Offset = c /\ digest.length = c + left
    BY <1>1, <1>2 DEF Offset
  <1>4. MessageBlock(c + 1) \in Cells /\ \A i \in 1..left : MessageBlock(c + 1)[i] = Byte(c + i)
    <2>1. \A i \in 1..left : i \in 1..B /\ c + 1 + i - 1 = c + i
      BY <1>1, <1>2, BlockSize
    <2>2. c + 1 \in Nat
      BY <1>2
    <2>3. \A i \in 1..left : MessageBlock(c + 1)[i] = Byte(c + i)
      BY <2>1 DEF MessageBlock
    <2> QED
      BY <2>2, <2>3, ByteType
  <1>5. PICK blocks \in Seq(Cells) :
          /\ blocks = shot \o Pad(MessageBlock(c + 1), left, c + left)
          /\ blocks = Padded(c + left)
    BY <1>1, <1>2, <1>4, PadCompletes
  <1>6. digest' = [digest EXCEPT !.blocks = blocks, !.valid = TRUE]
    BY <1>3, <1>5 DEF HashEnd
  <1>7. /\ digest' \in [blocks : Seq(Cells), length : Nat, valid : BOOLEAN]
        /\ digest'.blocks = blocks /\ digest'.length = c + left
    BY <1>1, <1>3, <1>6
  <1>8. TypeOK'
    BY <1>1, <1>7, EmptySeq DEF IInv, TypeOK, context
  <1>9. DigestIsOfMessage'
    BY <1>5, <1>7 DEF DigestIsOfMessage
  <1>10. InvLengths' /\ InvShot'
    BY <1>1 DEF IInv, InvLengths, InvShot, context
  <1>11. InvContext'
    <2>1. left' = 0 /\ pc' # "hash" /\ message \in Nat /\ message - 0 = message
      BY <1>1 DEF IInv, TypeOK
    <2> QED
      BY <1>1, <2>1 DEF IInv, InvContext, HoldsMessage, context
  <1> QED
    BY <1>8, <1>9, <1>10, <1>11 DEF IInv

-----------------------------------------------------------------------------
LEMMA StepKeeps == IInv /\ [Next]_vars => IInv'
  <1> SUFFICES ASSUME IInv, [Next]_vars PROVE IInv'
    OBVIOUS
  <1>1. CASE UpdateNothing \/ Unavailable \/ UNCHANGED vars
    <2>1. UNCHANGED <<available, context, message, spent, pc, left, shot, digest>>
          /\ result' \in BOOLEAN
      BY <1>1 DEF UpdateNothing, Unavailable, vars, Return, IInv, TypeOK
    <2> QED
      BY <2>1, StandingKeeps
  <1>2. CASE \E n \in Lengths : StartUpdate(n) \/ StartHash(n)
    BY <1>2, StartUpdateKeeps, StartHashKeeps
  <1>3. CASE ContextInit \/ Finalize \/ Working
    BY <1>3, ContextInitKeeps, FinalizeKeeps, FillPartKeeps, FillBlockKeeps, BlockKeeps,
       RestKeeps, HashBlockKeeps, HashEndKeeps DEF Working
  <1> QED
    BY <1>1, <1>2, <1>3 DEF Next

(* What an update has consumed lies in the hash state and, behind it, in   *)
(* the buffer, which is never full.                                        *)
THEOREM Inductive == Spec => []IInv
  BY InitHolds, StepKeeps, PTL DEF Spec

(* The lengths and the buffer of a context keep their ranges, and a hash   *)
(* state is made of whole blocks.                                          *)
THEOREM TypeCorrect == Spec => []TypeOK
  <1>1. IInv => TypeOK
    BY DEF IInv
  <1> QED
    BY <1>1, Inductive, PTL

(* However the calls of bc_core_sha256_update cut a message, the digest of *)
(* bc_core_sha256_finalize is that of its padded blocks, and so is that of *)
(* bc_core_sha256, for blocks of any size.                                 *)
THEOREM DigestCorrect == Spec => []DigestIsOfMessage
  <1>1. IInv => DigestIsOfMessage
    BY DEF IInv
  <1> QED
    BY <1>1, Inductive, PTL

-----------------------------------------------------------------------------
(* What the detection of the processor's features guarantees, for any      *)
(* number of threads and of fields.                                        *)

(* Nothing is published and nobody runs.                                   *)
LEMMA InitDetect == DetectInit => InvDetect
  <1> SUFFICES ASSUME DetectInit PROVE InvDetect
    OBVIOUS
  <1> USE DEF DetectInit
  <1>1. Unknown \in [Fields -> BOOLEAN]
    BY DEF Unknown
  <1>2. DetectTypeOK
    BY <1>1 DEF DetectTypeOK
  <1>3. \A t \in Threads : stage[t] = "idle"
    OBVIOUS
  <1>4. InvWriter /\ InvOneWriter /\ InvReader /\ InvPublished /\ NoTornResult
    BY <1>3 DEF InvWriter, InvOneWriter, InvReader, InvPublished, NoTornResult
  <1> QED
    BY <1>2, <1>4 DEF InvDetect

(* Every step of a thread keeps the invariant.                             *)
LEMMA StepDetects ==
  ASSUME InvDetect, NEW t \in Threads, Call(t) \/ ThreadStep(t)
  PROVE  InvDetect'
  <1> USE DEF InvDetect, ToStage
  <1>1. CASE Call(t)
    BY <1>1 DEF Call, Unknown, DetectTypeOK, InvWriter, InvOneWriter, InvReader, InvPublished,
       NoTornResult
  <1>2. CASE LoadPublished(t)
    BY <1>2 DEF LoadPublished, DetectTypeOK, InvWriter, InvOneWriter, InvReader, InvPublished,
       NoTornResult
  <1>3. ASSUME NEW f \in Fields, CopyField(t, f) PROVE InvDetect'
    BY <1>3 DEF CopyField, DetectTypeOK, InvWriter, InvOneWriter, InvReader, InvPublished,
       NoTornResult
  <1>4. CASE Copied(t)
    <2>1. out_features[t] = hardware
      BY <1>4 DEF Copied, DetectTypeOK, InvReader
    <2> QED
      BY <1>4, <2>1 DEF Copied, DetectTypeOK, InvWriter, InvOneWriter, InvReader, InvPublished,
         NoTornResult
  <1>5. CASE Detect(t)
    BY <1>5 DEF Detect, DetectTypeOK, InvWriter, InvOneWriter, InvReader, InvPublished,
       NoTornResult
  <1>6. CASE Claim(t)
    BY <1>6 DEF Claim, DetectTypeOK, InvWriter, InvOneWriter, InvReader, InvPublished,
       NoTornResult
  <1>7. CASE Lose(t)
    BY <1>7 DEF Lose, DetectTypeOK, InvWriter, InvOneWriter, InvReader, InvPublished,
       NoTornResult
  <1>8. ASSUME NEW f \in Fields, WriteField(t, f) PROVE InvDetect'
    BY <1>8 DEF WriteField, DetectTypeOK, InvWriter, InvOneWriter, InvReader, InvPublished,
       NoTornResult
  <1>9. CASE Publish(t)
    <2>1. cache = hardware
      BY <1>9 DEF Publish, DetectTypeOK, InvWriter
    <2> QED
      BY <1>9, <2>1 DEF Publish, DetectTypeOK, InvWriter, InvOneWriter, InvReader, InvPublished,
         NoTornResult
  <1> QED
    BY <1>1, <1>2, <1>3, <1>4, <1>5, <1>6, <1>7, <1>8, <1>9 DEF ThreadStep

(* A step, or none, keeps the invariant.                                   *)
LEMMA NextDetect == InvDetect /\ [DetectNext]_detectVars => InvDetect'
  <1>1. InvDetect /\ UNCHANGED detectVars => InvDetect'
    BY DEF detectVars, InvDetect, DetectTypeOK, InvWriter, InvOneWriter, InvReader, InvPublished,
       NoTornResult
  <1> QED
    BY <1>1, StepDetects DEF DetectNext

(* The inductive invariant, for any threads and any fields.                *)
THEOREM DetectInductive == DetectSpec => []InvDetect
  BY InitDetect, NextDetect, PTL DEF DetectSpec

(* No call of any thread ever returns a torn or a stale structure.         *)
THEOREM NeverTorn == DetectSpec => []NoTornResult
  BY DetectInductive, PTL DEF InvDetect

(* The plain accesses to the cache are ordered by the two atomic flags.    *)
THEOREM RaceFree == DetectSpec => []NoDataRace
  <1>1. InvDetect => NoDataRace
    BY DEF InvDetect, InvWriter, InvOneWriter, InvReader, NoDataRace
  <1> QED
    BY <1>1, DetectInductive, PTL

(* What is published stays published and stays what it is.                 *)
THEOREM OncePublished == DetectSpec => PublishedOnce
  <1>1. InvDetect /\ [DetectNext]_detectVars => [published => published' /\ cache' = cache]_detectVars
    <2> SUFFICES ASSUME InvDetect, DetectNext, published PROVE published' /\ cache' = cache
      OBVIOUS
    <2>1. PICK t \in Threads : Call(t) \/ ThreadStep(t)
      BY DEF DetectNext
    <2>2. ~(stage[t] = "write")
      BY DEF InvDetect, InvWriter
    <2> QED
      BY <2>1, <2>2 DEF Call, ThreadStep, LoadPublished, CopyField, Copied, Detect, Claim, Lose,
         WriteField, Publish
  <1> QED
    BY <1>1, DetectInductive, PTL DEF DetectSpec, PublishedOnce
=============================================================================
