----------------------------- MODULE CountProofs -----------------------------
(***************************************************************************)
(* The functions of bc_core_count.c count every byte, every line with a    *)
(* pattern and every word once, in every text, for vectors of any width.   *)
(***************************************************************************)
EXTENDS Count, FiniteSetTheorems, SequenceTheorems, TLAPS

(* Sets that share nothing add up.                                         *)
LEMMA DisjointCount ==
  ASSUME NEW S, IsFiniteSet(S), NEW T, IsFiniteSet(T), S \cap T = {}
  PROVE  /\ IsFiniteSet(S \cup T)
         /\ Cardinality(S \cup T) = Cardinality(S) + Cardinality(T)
         /\ Cardinality(S) \in Nat /\ Cardinality(T) \in Nat
  <1>1. Cardinality(S) \in Nat /\ Cardinality(T) \in Nat /\ Cardinality({}) = 0
    BY FS_CardinalityType, FS_EmptySet
  <1>2. /\ IsFiniteSet(S \cup T)
        /\ Cardinality(S \cup T) = Cardinality(S) + Cardinality(T) - Cardinality(S \cap T)
    BY FS_Union
  <1>3. Cardinality(S \cup T) = Cardinality(S) + Cardinality(T) - 0
    BY <1>1, <1>2
  <1> QED
    BY <1>1, <1>2, <1>3

(* What is renamed one to one counts the same.                             *)
LEMMA SameCount ==
  ASSUME NEW S, IsFiniteSet(S), NEW T, NEW f \in [S -> T],
         \A x, y \in S : f[x] = f[y] => x = y,
         \A z \in T : \E x \in S : f[x] = z
  PROVE  IsFiniteSet(T) /\ Cardinality(T) = Cardinality(S)
  <1>1. f \in Bijection(S, T)
    BY DEF Bijection, Injection, Surjection, IsInjective
  <1> QED
    BY <1>1, FS_Bijection DEF ExistsBijection

(* A set of numbers of an interval is finite.                              *)
LEMMA PartCount ==
  ASSUME NEW a \in Int, NEW b \in Int, NEW S, S \subseteq a..b
  PROVE  IsFiniteSet(S) /\ Cardinality(S) \in Nat
  <1>1. IsFiniteSet(a..b)
    BY FS_Interval
  <1>2. IsFiniteSet(S)
    BY <1>1, FS_Subset
  <1> QED
    BY <1>2, FS_CardinalityType

-----------------------------------------------------------------------------
(* Counting bytes.                                                         *)

(* The bytes of a vector, and those of a step.                             *)
LEMMA StepSizes ==
  ASSUME kernel \in {"avx2", "avx512", "matching"}
  PROVE  /\ VectorBytes \in Nat \ {0}
         /\ StepBytes \in Nat \ {0}
         /\ kernel = "avx2" => StepBytes = Vectors * W
  <1>1. VectorBytes \in Nat \ {0}
    BY TextAssumption DEF TextAssumption, VectorBytes
  <1>2. Vectors \in Nat \ {0}
    BY ByteAssumption DEF ByteAssumption
  <1>3. \A a, b \in Nat \ {0} : a * b \in Nat \ {0}
    OBVIOUS
  <1>4. StepBytes \in Nat \ {0}
    BY <1>1, <1>2, <1>3 DEF StepBytes
  <1> QED
    BY <1>1, <1>4 DEF StepBytes, VectorBytes

(* The matches among n more bytes.                                         *)
LEMMA HitsAdd ==
  ASSUME offset \in Nat, NEW n \in Nat
  PROVE  /\ HitsBefore(offset) \in Nat /\ Hits(n) \in Nat
         /\ HitsBefore(offset + n) = HitsBefore(offset) + Hits(n)
  <1> DEFINE S == {p \in 0..(offset - 1) : Hit(p)}
             T == {p \in offset..(offset + n - 1) : Hit(p)}
             U == {p \in 0..(offset + n - 1) : Hit(p)}
  <1>1. IsFiniteSet(S) /\ IsFiniteSet(T)
    BY PartCount
  <1>2. S \cap T = {}
    OBVIOUS
  <1>3. S \cup T = U
    <2>1. \A p : p \in 0..(offset + n - 1) <=> p \in 0..(offset - 1) \/ p \in offset..(offset + n - 1)
      OBVIOUS
    <2> QED
      BY <2>1
  <1>4. /\ HitsBefore(offset) = Cardinality(S)
        /\ Hits(n) = Cardinality(T)
        /\ HitsBefore(offset + n) = Cardinality(U)
    BY DEF HitsBefore, Hits
  <1> HIDE DEF S, T, U
  <1> QED
    BY <1>1, <1>2, <1>3, <1>4, DisjointCount

(* The lanes that count a step, beside those that counted the steps before.*)
LEMMA LanesAdd ==
  ASSUME offset \in Nat, kernel = "avx2", lane \in [Lanes -> 0..LaneMax],
         \A l \in Lanes : lane[l] < LaneMax,
         lane' = [l \in Lanes |->
                    IF Hit(offset + l) THEN (lane[l] + 1) % (LaneMax + 1) ELSE lane[l]]
  PROVE  /\ lane' \in [Lanes -> 0..LaneMax]
         /\ \A l \in Lanes : lane'[l] <= lane[l] + 1
         /\ LaneSum \in Nat
         /\ LaneSum' = LaneSum + Hits(StepBytes)
  <1>0. LaneMax \in Nat \ {0} /\ StepBytes = Vectors * W /\ StepBytes \in Nat
    BY StepSizes, ByteAssumption DEF ByteAssumption
  <1>1. \A v \in 0..LaneMax : v < LaneMax => (v + 1) % (LaneMax + 1) = v + 1
    BY <1>0
  <1>2. \A l \in Lanes : lane'[l] = IF Hit(offset + l) THEN lane[l] + 1 ELSE lane[l]
    BY <1>1
  <1>3. lane' \in [Lanes -> 0..LaneMax]
    <2>1. \A v \in 0..LaneMax : v < LaneMax => v + 1 \in 0..LaneMax
      BY <1>0
    <2>2. \A l \in Lanes : lane[l] \in 0..LaneMax
      OBVIOUS
    <2>3. \A l \in Lanes : lane'[l] \in 0..LaneMax
      BY <1>2, <2>1, <2>2
    <2> QED
      BY <2>3
  <1>4. \A l \in Lanes : lane'[l] <= lane[l] + 1
    BY <1>0, <1>2
  <1> DEFINE P == Lanes \X (1..LaneMax)
             S == {x \in P : x[2] <= lane[x[1]]}
             T == {x \in P : x[2] = lane[x[1]] + 1 /\ Hit(offset + x[1])}
             H == {p \in offset..(offset + StepBytes - 1) : Hit(p)}
             f == [p \in H |-> <<p - offset, lane[p - offset] + 1>>]
  <1>5. LaneSum = Cardinality(S)
    BY DEF LaneSum
  <1>6. LaneSum' = Cardinality(S \cup T)
    <2>1. S \cup T = {x \in P : x[2] <= lane'[x[1]]}
      <3>1. ASSUME NEW l \in Lanes, NEW k \in 1..LaneMax
            PROVE  k <= lane'[l] <=> k <= lane[l] \/ (k = lane[l] + 1 /\ Hit(offset + l))
        BY <1>0, <1>2
      <3> QED
        BY <3>1
    <2> QED
      BY <2>1 DEF LaneSum
  <1>7. IsFiniteSet(P)
    <2>1. IsFiniteSet(Lanes) /\ IsFiniteSet(1..LaneMax)
      BY <1>0, FS_Interval DEF Lanes
    <2> QED
      BY <2>1, FS_Product
  <1>8. IsFiniteSet(S) /\ IsFiniteSet(T)
    BY <1>7, FS_Subset
  <1>9. S \cap T = {}
    <2> SUFFICES ASSUME NEW l \in Lanes, NEW k \in 1..LaneMax,
                        k <= lane[l], k = lane[l] + 1
                 PROVE  FALSE
      OBVIOUS
    <2>1. lane[l] \in 0..LaneMax
      OBVIOUS
    <2> QED
      BY <1>0, <2>1
  <1>10. IsFiniteSet(H) /\ Hits(StepBytes) = Cardinality(H)
    BY <1>0, PartCount DEF Hits
  <1>11. \A p \in H : p \in Int /\ p - offset \in Lanes /\ offset + (p - offset) = p
    BY <1>0 DEF Lanes
  <1>12. f \in [H -> T]
    <2> SUFFICES ASSUME NEW p \in H PROVE f[p] \in T
      OBVIOUS
    <2>1. lane[p - offset] + 1 \in 1..LaneMax
      <3>1. lane[p - offset] \in 0..LaneMax /\ lane[p - offset] < LaneMax
        BY <1>11
      <3> QED
        BY <1>0, <3>1
    <2> QED
      BY <1>11, <2>1
  <1>13. \A p, q \in H : f[p] = f[q] => p = q
    <2> SUFFICES ASSUME NEW p \in H, NEW q \in H, f[p] = f[q] PROVE p = q
      OBVIOUS
    <2>1. p - offset = q - offset
      OBVIOUS
    <2> QED
      BY <1>11, <2>1
  <1>14. \A x \in T : \E p \in H : f[p] = x
    <2> SUFFICES ASSUME NEW x \in T PROVE \E p \in H : f[p] = x
      OBVIOUS
    <2>1. x[1] \in Lanes /\ x[2] = lane[x[1]] + 1 /\ Hit(offset + x[1]) /\ x = <<x[1], x[2]>>
      OBVIOUS
    <2>2. /\ offset + x[1] \in offset..(offset + StepBytes - 1)
          /\ (offset + x[1]) - offset = x[1]
      BY <1>0, <2>1 DEF Lanes
    <2>3. offset + x[1] \in H /\ f[offset + x[1]] = x
      BY <2>1, <2>2
    <2> QED
      BY <2>3
  <1> HIDE DEF S, T, H, P, f
  <1>15. Cardinality(T) = Cardinality(H)
    BY <1>10, <1>12, <1>13, <1>14, SameCount
  <1> QED
    BY <1>3, <1>4, <1>5, <1>6, <1>8, <1>9, <1>10, <1>15, DisjointCount

(* The iterations of a batch fit the text and the lanes.                   *)
LEMMA BatchFits ==
  ASSUME NEW n \in Nat, offset \in 0..n, n = Len(text),
         kernel \in {"avx2", "avx512", "matching"}
  PROVE  /\ BatchSteps \in 0..LaneMax
         /\ offset + BatchSteps * StepBytes <= n
  <1>0. LaneMax \in Nat /\ StepBytes \in Nat \ {0}
    BY StepSizes, ByteAssumption DEF ByteAssumption
  <1> DEFINE b == StepBytes
             q == (n - offset) \div b
  <1>1. n - offset \in Nat /\ b \in Nat \ {0}
    BY <1>0
  <1>2. ASSUME NEW x \in Nat, NEW c \in Nat \ {0}
        PROVE  x \div c \in Nat /\ (x \div c) * c <= x
    OBVIOUS
  <1>3. q \in Nat /\ q * b <= n - offset
    BY <1>1, <1>2
  <1>4. StepsLeft = q
    BY DEF StepsLeft
  <1> HIDE DEF q, b
  <1>5. ASSUME NEW k \in Nat, k <= q PROVE k * b <= q * b /\ k * b \in Nat /\ q * b \in Nat
    <2>1. PICK d \in Nat : q = k + d
      <3>1. q - k \in Nat /\ q = k + (q - k)
        BY <1>3, <1>5
      <3> QED
        BY <3>1
    <2>2. q * b = k * b + d * b
      BY <1>1, <2>1
    <2>3. k * b \in Nat /\ d * b \in Nat
      BY <1>1, <2>1
    <2> QED
      BY <2>2, <2>3
  <1>6. BatchSteps \in 0..LaneMax /\ BatchSteps \in Nat /\ BatchSteps <= q
    BY <1>0, <1>3, <1>4 DEF BatchSteps
  <1>7. BatchSteps * b <= n - offset /\ BatchSteps * b \in Nat
    BY <1>1, <1>3, <1>5, <1>6
  <1> QED
    BY <1>1, <1>6, <1>7 DEF b

(* Taking n bytes whose matches are added to the count.                    *)
LEMMA TakeBytes ==
  ASSUME InvByte, function = "byte", pc \in {"step", "vectors", "bytes"},
         NEW n \in Nat, offset + n <= Len(text),
         count' = count + Hits(n), offset' = offset + n, Unchanged,
         UNCHANGED <<pc, iterations, lane>>
  PROVE  InvByte'
  <1>1. UNCHANGED <<function, text, kernel>> /\ function' = "byte"
    BY DEF Unchanged
  <1>2. /\ text \in Seq(Bytes) /\ offset \in 0..Len(text) /\ count \in Nat
        /\ count = HitsBefore(offset)
    BY DEF InvByte
  <1>3. Len(text) \in Nat
    BY <1>2, LenProperties
  <1>4. /\ HitsBefore(offset) \in Nat /\ Hits(n) \in Nat
        /\ HitsBefore(offset + n) = HitsBefore(offset) + Hits(n)
    BY <1>2, <1>3, HitsAdd
  <1>5. offset' \in 0..Len(text)' /\ count' \in Nat
    BY <1>1, <1>2, <1>3, <1>4
  <1>6. count' = HitsBefore(offset)'
    <2>1. HitsBefore(offset)' = HitsBefore(offset + n)
      BY <1>1 DEF HitsBefore, Hit
    <2> QED
      BY <1>2, <1>4, <2>1
  <1>7. Lanes' = Lanes
    BY DEF Lanes
  <1> QED
    BY <1>1, <1>5, <1>6, <1>7 DEF InvByte

(* Every step of counting bytes keeps its part of the invariant.           *)
LEMMA ByteKeeps ==
  ASSUME InvByte, function = "byte", ByteNext
  PROVE  InvByte'
  <1>1. /\ kernel \in {"avx2", "avx512", "matching"}
        /\ text \in Seq(Bytes) /\ offset \in 0..Len(text) /\ count \in Nat
        /\ iterations \in Nat /\ lane \in [Lanes -> 0..LaneMax]
    BY DEF InvByte
  <1>2. PICK n \in Nat : n = Len(text)
    BY <1>1, LenProperties
  <1>3. /\ VectorBytes \in Nat \ {0} /\ StepBytes \in Nat \ {0} /\ LaneMax \in Nat \ {0}
        /\ W \in Nat
    BY <1>1, StepSizes, ByteAssumption, TextAssumption DEF ByteAssumption, TextAssumption
  <1>4. Lanes' = Lanes
    BY DEF Lanes
  <1>5. UNCHANGED <<function, text, kernel>> /\ function' = "byte" /\ Len(text)' = Len(text)
    BY DEF ByteNext, StartBatch, BatchStep, EndBatch, MaskStep, EndSteps, VectorStep,
           EndVectors, TailStep, EndBytes, Unchanged
  <1>6. VectorBytes' = VectorBytes /\ StepBytes' = StepBytes
        /\ \A m \in Int : HitsBefore(m)' = HitsBefore(m)
    BY <1>5 DEF VectorBytes, StepBytes, HitsBefore, Hit
  <1>7. CASE StartBatch
    <2>1. /\ pc = "step" /\ kernel = "avx2" /\ iterations' = BatchSteps
          /\ lane' = [l \in Lanes |-> 0] /\ pc' = "batch" /\ UNCHANGED <<offset, count>>
      BY <1>7 DEF StartBatch
    <2>2. iterations' \in 0..LaneMax /\ offset + iterations' * StepBytes <= n
      BY <1>1, <1>2, <2>1, BatchFits
    <2>3. lane' \in [Lanes -> 0..LaneMax] /\ \A l \in Lanes : lane'[l] = 0
      BY <1>3, <2>1
    <2>4. \A l \in Lanes : lane'[l] + iterations' <= LaneMax
      BY <1>3, <2>2, <2>3
    <2>5. LaneSum' = 0
      <3>1. {unit \in Lanes \X (1..LaneMax) : unit[2] <= lane'[unit[1]]} = {}
        BY <1>3, <2>3
      <3> QED
        BY <1>4, <3>1, FS_EmptySet DEF LaneSum
    <2>6. count = HitsBefore(offset) /\ HitsBefore(offset)' = HitsBefore(offset)
      BY <1>1, <1>2, <1>6, <2>1 DEF InvByte
    <2>7. iterations' \in Nat
      BY <1>3, <2>2
    <2> QED
      BY <1>1, <1>2, <1>4, <1>5, <1>6, <2>1, <2>2, <2>3, <2>4, <2>5, <2>6, <2>7 DEF InvByte
  <1>8. CASE BatchStep
    <2>1. /\ pc = "batch" /\ pc' = "batch" /\ iterations > 0 /\ iterations' = iterations - 1
          /\ offset' = offset + StepBytes /\ count' = count
          /\ lane' = [l \in Lanes |->
                        IF Hit(offset + l) THEN (lane[l] + 1) % (LaneMax + 1) ELSE lane[l]]
      BY <1>8 DEF BatchStep
    <2>2. /\ kernel = "avx2" /\ \A l \in Lanes : lane[l] + iterations <= LaneMax
          /\ offset + iterations * StepBytes <= n
          /\ count + LaneSum = HitsBefore(offset)
      BY <1>2, <2>1 DEF InvByte
    <2>3. \A l \in Lanes : lane[l] \in Nat /\ lane[l] < LaneMax
      BY <1>1, <1>3, <2>1, <2>2
    <2>4. /\ lane' \in [Lanes -> 0..LaneMax]
          /\ \A l \in Lanes : lane'[l] <= lane[l] + 1
          /\ LaneSum \in Nat
          /\ LaneSum' = LaneSum + Hits(StepBytes)
      BY <1>1, <1>2, <2>1, <2>2, <2>3, LanesAdd
    <2>5. \A l \in Lanes : lane'[l] + iterations' <= LaneMax
      <3>1. \A l \in Lanes : lane'[l] \in Nat
        BY <1>3, <2>4
      <3> QED
        BY <1>1, <1>3, <2>1, <2>2, <2>3, <2>4, <3>1
    <2>6. iterations' \in Nat /\ offset' + iterations' * StepBytes <= n /\ offset' \in 0..n
      <3>1. ASSUME NEW i \in Nat, i > 0, NEW b \in Nat, NEW o \in Nat, o + i * b <= n
            PROVE  i - 1 \in Nat /\ (o + b) + (i - 1) * b <= n /\ o + b <= n
        <4>1. PICK j \in Nat : i = j + 1
          <5>1. i - 1 \in Nat /\ i = (i - 1) + 1
            BY <3>1
          <5> QED
            BY <5>1
        <4>2. i * b = j * b + b /\ j * b \in Nat
          BY <4>1
        <4> QED
          BY <3>1, <4>1, <4>2
      <3> QED
        BY <1>1, <1>2, <1>3, <2>1, <2>2, <3>1
    <2>7. count' + LaneSum' = HitsBefore(offset)'
      <3>1. HitsBefore(offset + StepBytes) = HitsBefore(offset) + Hits(StepBytes)
            /\ HitsBefore(offset) \in Nat /\ Hits(StepBytes) \in Nat
        <4>1. offset \in Nat /\ StepBytes \in Nat
          BY <1>1, <1>2, <1>3
        <4> HIDE DEF StepBytes
        <4> QED
          BY <4>1, HitsAdd
      <3>2. HitsBefore(offset)' = HitsBefore(offset + StepBytes)
        BY <1>5, <2>1 DEF HitsBefore, Hit
      <3> QED
        BY <1>1, <2>1, <2>2, <2>4, <3>1, <3>2
    <2> QED
      BY <1>1, <1>2, <1>4, <1>5, <1>6, <2>1, <2>2, <2>4, <2>5, <2>6, <2>7 DEF InvByte
  <1>9. CASE EndBatch
    <2>1. /\ pc = "batch" /\ pc' = "step" /\ count' = count + LaneSum
          /\ UNCHANGED <<offset, iterations, lane>>
      BY <1>9 DEF EndBatch
    <2>2. count + LaneSum = HitsBefore(offset)
      BY <2>1 DEF InvByte
    <2>3. HitsBefore(offset) \in Nat /\ HitsBefore(offset)' = HitsBefore(offset)
      BY <1>1, <1>2, <1>6, <2>1, HitsAdd
    <2> QED
      BY <1>1, <1>4, <1>5, <2>1, <2>2, <2>3 DEF InvByte
  <1>10. CASE MaskStep
    BY <1>1, <1>2, <1>3, <1>10, TakeBytes DEF MaskStep
  <1>11. CASE VectorStep
    BY <1>1, <1>2, <1>3, <1>11, TakeBytes DEF VectorStep
  <1>12. CASE TailStep
    <2>1. PICK m \in Nat : /\ offset + m <= Len(text)
                           /\ count' = count + Hits(m) /\ offset' = offset + m
      <3>1. CASE kernel = "avx512"
        <4>1. n - offset \in Nat /\ offset + (n - offset) <= n
          BY <1>1, <1>2
        <4> QED
          BY <1>2, <1>12, <3>1, <4>1 DEF TailStep
      <3>2. CASE kernel # "avx512"
        <4>1. 1 \in Nat /\ offset + 1 <= n
          BY <1>1, <1>2, <1>12 DEF TailStep
        <4> QED
          BY <1>2, <1>12, <3>2, <4>1 DEF TailStep
      <3> QED
        BY <3>1, <3>2
    <2> QED
      BY <1>12, <2>1, TakeBytes DEF TailStep
  <1>13. CASE EndSteps \/ EndVectors \/ EndBytes
    <2>1. /\ pc \in {"step", "vectors", "bytes"} /\ pc' \in {"vectors", "bytes", "done"}
          /\ UNCHANGED <<offset, iterations, lane, count>>
          /\ pc' = "done" => offset = Len(text)
      BY <1>13 DEF EndSteps, EndVectors, EndBytes
    <2>2. HitsBefore(offset)' = HitsBefore(offset)
      BY <1>1, <1>2, <1>6, <2>1
    <2> QED
      BY <1>1, <1>4, <1>5, <2>1, <2>2 DEF InvByte
  <1> QED
    BY <1>7, <1>8, <1>9, <1>10, <1>11, <1>12, <1>13 DEF ByteNext

(* Nothing is counted at first.                                            *)
LEMMA ByteBegins == ByteInit => InvByte
  <1> SUFFICES ASSUME ByteInit PROVE InvByte
    OBVIOUS
  <1>1. text \in Seq(Bytes) /\ Len(text) \in Nat /\ (text = <<>> => Len(text) = 0)
    BY ByteAssumption, LenProperties DEF ByteInit, ByteAssumption
  <1>2. HitsBefore(0) = 0
    <2>1. {p \in 0..(0 - 1) : Hit(p)} = {}
      OBVIOUS
    <2> QED
      BY <2>1, FS_EmptySet DEF HitsBefore
  <1>3. LaneMax \in Nat
    BY ByteAssumption DEF ByteAssumption
  <1> QED
    BY <1>1, <1>2, <1>3 DEF ByteInit, InvByte

(* When all bytes are taken every match is counted.                        *)
LEMMA EveryHitIn == InvByte => EveryHitCounted
  <1> SUFFICES ASSUME InvByte, function = "byte", pc = "done"
               PROVE  count = Cardinality({p \in DOMAIN text : text[p] \in Targets})
    BY DEF EveryHitCounted
  <1>1. text \in Seq(Bytes) /\ count \in Nat /\ offset = Len(text) /\ count = HitsBefore(offset)
    BY DEF InvByte
  <1>2. PICK n \in Nat : n = Len(text) /\ DOMAIN text = 1..n
    BY <1>1, LenProperties
  <1> DEFINE S == {p \in 0..(n - 1) : Hit(p)}
             T == {p \in 1..n : text[p] \in Targets}
             f == [p \in S |-> p + 1]
  <1>3. IsFiniteSet(S)
    BY PartCount
  <1>4. f \in [S -> T]
    BY DEF Hit
  <1>5. \A p, q \in S : f[p] = f[q] => p = q
    OBVIOUS
  <1>6. \A z \in T : \E p \in S : f[p] = z
    <2> SUFFICES ASSUME NEW z \in T PROVE \E p \in S : f[p] = z
      OBVIOUS
    <2>1. z - 1 \in 0..(n - 1) /\ (z - 1) + 1 = z
      OBVIOUS
    <2>2. z - 1 \in S
      BY <2>1 DEF Hit
    <2> QED
      BY <2>1, <2>2
  <1>7. HitsBefore(offset) = Cardinality(S)
    BY <1>1, <1>2 DEF HitsBefore
  <1> HIDE DEF S, T, f
  <1>8. Cardinality(T) = Cardinality(S)
    BY <1>3, <1>4, <1>5, <1>6, SameCount
  <1> QED
    BY <1>1, <1>2, <1>7, <1>8 DEF T

-----------------------------------------------------------------------------
(* Counting lines with a pattern.                                          *)

(* The lines go up with the bytes, at the newlines.                        *)
LEMMA LineGrows ==
  ASSUME NEW p \in Nat, NEW q \in Nat, p <= q
  PROVE  /\ LineOf(p) \in Nat /\ LineOf(q) \in Nat
         /\ LineOf(p) <= LineOf(q)
         /\ LineOf(p) = LineOf(q) <=> \A k \in (p + 1)..q : text[k] # Newline
  <1> DEFINE S == {k \in 1..p : text[k] = Newline}
             T == {k \in 1..q : text[k] = Newline}
  <1>1. IsFiniteSet(S) /\ Cardinality(S) \in Nat /\ IsFiniteSet(T) /\ Cardinality(T) \in Nat
    BY PartCount
  <1>2. S \subseteq T
    OBVIOUS
  <1>3. S = T <=> \A k \in (p + 1)..q : text[k] # Newline
    <2>1. ASSUME S = T, NEW k \in (p + 1)..q PROVE text[k] # Newline
      <3>1. k \in 1..q /\ k \notin 1..p
        OBVIOUS
      <3> QED
        BY <2>1, <3>1
    <2>2. ASSUME \A k \in (p + 1)..q : text[k] # Newline PROVE T \subseteq S
      <3>1. \A k \in 1..q : k \in 1..p \/ k \in (p + 1)..q
        OBVIOUS
      <3> QED
        BY <2>2, <3>1
    <2> QED
      BY <1>2, <2>1, <2>2
  <1>4. LineOf(p) = Cardinality(S) /\ LineOf(q) = Cardinality(T)
    BY DEF LineOf
  <1> HIDE DEF S, T
  <1>5. Cardinality(S) <= Cardinality(T) /\ (Cardinality(S) = Cardinality(T) => S = T)
    BY <1>1, <1>2, FS_Subset
  <1> QED
    BY <1>1, <1>3, <1>4, <1>5

(* A text and a pattern, and where the pattern starts.                     *)
LinesTyped ==
  /\ text \in Seq(Bytes)
  /\ pattern \in Seq(Bytes) /\ pattern # <<>>
  /\ Len(text) \in Nat
  /\ Len(pattern) \in Nat \ {0}
  /\ W \in Nat /\ W >= 2

LEMMA TypesOfLines ==
  ASSUME text \in Seq(Bytes), pattern \in Patterns
  PROVE  LinesTyped
  <1>1. pattern \in Seq(Bytes) /\ pattern # <<>>
    BY LinesAssumption DEF LinesAssumption
  <1>2. Len(pattern) \in Nat \ {0} /\ Len(text) \in Nat
    BY <1>1, LenProperties, EmptySeq
  <1> QED
    BY <1>1, <1>2, TextAssumption DEF LinesTyped, TextAssumption

LEMMA StartsAre ==
  ASSUME LinesTyped, NEW p \in Starts
  PROVE  /\ p \in Nat /\ p + Len(pattern) <= Len(text) /\ p < Len(text)
         /\ text[p + 1] = Head(pattern) /\ text[p + 1] # Newline
  <1>1. /\ p \in 0..(Len(text) - Len(pattern)) /\ text[p + 1] # Newline
        /\ SubSeq(text, p + 1, p + Len(pattern)) = pattern
    BY DEF Starts, Matches
  <1>2. PICK m \in Nat \ {0} : m = Len(pattern)
    BY DEF LinesTyped
  <1>3. PICK n \in Nat : n = Len(text)
    BY DEF LinesTyped
  <1>4. p \in Nat /\ p + m <= n /\ p < n
    BY <1>1, <1>2, <1>3
  <1>5. SubSeq(text, p + 1, p + m)[1] = text[p + 1]
    <2>1. \A i \in (p + 1)..(p + m) : text[i] \in Bytes
      BY <1>3, <1>4, ElementOfSeq DEF LinesTyped
    <2>2. \A i \in 1..(p + m) - (p + 1) + 1 :
             SubSeq(text, p + 1, p + m)[i] = text[(p + 1) + i - 1]
      BY <1>4, <2>1, SubSeqProperties
    <2>3. 1 \in 1..((p + m) - (p + 1) + 1) /\ (p + 1) + 1 - 1 = p + 1
      BY <1>2, <1>4
    <2> QED
      BY <2>2, <2>3
  <1>6. Head(pattern) = pattern[1]
    BY DEF LinesTyped
  <1> QED
    BY <1>1, <1>2, <1>3, <1>4, <1>5, <1>6

(* The bytes from r to s belong to the line that r is in.                  *)
LEMMA LineGoesOn ==
  ASSUME LinesTyped, NEW r \in Nat, NEW s \in Nat, r <= s,
         CountedTo(r), UNCHANGED <<text, pattern, count>>,
         \A k \in (r + 1)..s : text[k] # Newline,
         lineHasMatch' <=> lineHasMatch \/ \E p \in Starts : r <= p /\ p < s
  PROVE  CountedTo(s)'
  <1>1. LineOf(r) = LineOf(s)
    BY LineGrows
  <1>2. /\ LineOf(s)' = LineOf(s) /\ LinesWithPattern' = LinesWithPattern /\ Starts' = Starts
        /\ \A p : LineOf(p)' = LineOf(p)
    BY DEF LineOf, LinesWithPattern, Starts, Matches
  <1>3. \A p \in Starts : p \in Nat
    BY StartsAre
  <1>4. ASSUME NEW p \in Starts, r <= p, p < s PROVE LineOf(p) = LineOf(s)
    <2>1. \A k \in (r + 1)..p : text[k] # Newline
      BY <1>3, <1>4
    <2> QED
      BY <1>1, <1>3, <1>4, <2>1, LineGrows
  <1>5. lineHasMatch <=> \E p \in Starts : p < r /\ LineOf(p) = LineOf(r)
    BY DEF CountedTo
  <1>6. lineHasMatch' <=> \E p \in Starts : p < s /\ LineOf(p) = LineOf(s)
    <2>1. ASSUME NEW p \in Starts PROVE p < s <=> p < r \/ (r <= p /\ p < s)
      BY <1>3
    <2> QED
      BY <1>1, <1>4, <1>5, <2>1
  <1> QED
    BY <1>1, <1>2, <1>6 DEF CountedTo

(* The line that r is in ends before s, and in the lines between them the  *)
(* pattern does not occur.                                                 *)
LEMMA LineIsOver ==
  ASSUME LinesTyped, NEW r \in Nat, NEW s \in Nat, r <= s,
         CountedTo(r), UNCHANGED <<text, pattern>>,
         LineOf(r) < LineOf(s),
         \A p \in Starts : r <= p /\ p < s => LineOf(p) = LineOf(r),
         lineHasMatch' = FALSE,
         NEW matched, matched <=> lineHasMatch \/ \E p \in Starts : r <= p /\ p < s,
         count' = IF matched THEN count + 1 ELSE count
  PROVE  CountedTo(s)' /\ count' \in Nat
  <1>1. /\ LineOf(s)' = LineOf(s) /\ LinesWithPattern' = LinesWithPattern /\ Starts' = Starts
        /\ \A p : LineOf(p)' = LineOf(p)
    BY DEF LineOf, LinesWithPattern, Starts, Matches
  <1>2. \A p \in Starts : p \in Nat
    BY StartsAre
  <1>3. LineOf(r) \in Nat /\ LineOf(s) \in Nat
    BY LineGrows
  <1>4. \A p \in Starts : /\ LineOf(p) \in Nat
                          /\ p < r => LineOf(p) <= LineOf(r)
                          /\ s <= p => LineOf(s) <= LineOf(p)
    BY <1>2, LineGrows
  <1>5. ~lineHasMatch' /\ ~(\E p \in Starts : p < s /\ LineOf(p) = LineOf(s))
    <2> SUFFICES ASSUME NEW p \in Starts, p < s, LineOf(p) = LineOf(s) PROVE FALSE
      OBVIOUS
    <2>1. CASE p < r
      BY <1>3, <1>4, <2>1
    <2>2. CASE r <= p
      BY <1>3, <2>2
    <2> QED
      BY <1>2, <2>1, <2>2
  <1> DEFINE S == {l \in LinesWithPattern : l < LineOf(r)}
             T == {l \in LinesWithPattern : l < LineOf(s)}
  <1>6. IsFiniteSet(S) /\ Cardinality(S) \in Nat
    <2>1. S \subseteq 0..LineOf(r)
      BY <1>3, <1>4 DEF LinesWithPattern
    <2> QED
      BY <1>3, <2>1, PartCount
  <1>7. matched <=> \E p \in Starts : p < s /\ LineOf(p) = LineOf(r)
    <2>1. lineHasMatch <=> \E p \in Starts : p < r /\ LineOf(p) = LineOf(r)
      BY DEF CountedTo
    <2>2. \A p \in Starts : p < s <=> p < r \/ (r <= p /\ p < s)
      BY <1>2
    <2> QED
      BY <2>1, <2>2
  <1>8. \A p \in Starts : LineOf(p) < LineOf(s) => p < s /\ LineOf(p) <= LineOf(r)
    <2> SUFFICES ASSUME NEW p \in Starts, LineOf(p) < LineOf(s)
                 PROVE  p < s /\ LineOf(p) <= LineOf(r)
      OBVIOUS
    <2>1. p < s
      BY <1>2, <1>3, <1>4
    <2>2. CASE p < r
      BY <1>4, <2>1, <2>2
    <2>3. CASE r <= p
      BY <1>3, <2>1, <2>3
    <2> QED
      BY <1>2, <2>1, <2>2, <2>3
  <1>9. T = IF matched THEN S \cup {LineOf(r)} ELSE S
    <2>1. \A l \in T : l \in S \/ (l = LineOf(r) /\ matched)
      <3> SUFFICES ASSUME NEW p \in Starts, LineOf(p) < LineOf(s)
                   PROVE  LineOf(p) < LineOf(r) \/ (LineOf(p) = LineOf(r) /\ matched)
        BY DEF LinesWithPattern
      <3> QED
        BY <1>3, <1>4, <1>7, <1>8
    <2>2. S \subseteq T
      BY <1>3, <1>4 DEF LinesWithPattern
    <2>3. matched => LineOf(r) \in T
      BY <1>7 DEF LinesWithPattern
    <2> QED
      BY <2>1, <2>2, <2>3
  <1>10. LineOf(r) \notin S /\ count = Cardinality(S)
    BY <1>3 DEF CountedTo
  <1>11. Cardinality(T) = IF matched THEN Cardinality(S) + 1 ELSE Cardinality(S)
    <2> HIDE DEF S, T
    <2> QED
      BY <1>6, <1>9, <1>10, FS_AddElement
  <1>12. count' = Cardinality(T) /\ count' \in Nat
    BY <1>6, <1>10, <1>11
  <1> QED
    BY <1>1, <1>5, <1>12 DEF CountedTo

(* A block lies where the pattern can start.                               *)
LEMMA BlockFits ==
  ASSUME LinesTyped, offset \in Nat, offset + W <= Limit
  PROVE  /\ offset + W <= Len(text)
         /\ \A i \in 0..(W - 1) : offset + i \in 0..(Len(text) - Len(pattern))
  <1>1. PICK m \in Nat \ {0} : m = Len(pattern)
    BY DEF LinesTyped
  <1>2. PICK n \in Nat : n = Len(text)
    BY DEF LinesTyped
  <1>3. W \in Nat /\ W >= 2 /\ Limit = IF m <= n THEN n - m + 1 ELSE 0
    BY <1>1, <1>2 DEF LinesTyped, Limit
  <1>4. m <= n /\ offset + W <= n - m + 1
    BY <1>3
  <1>5. offset + W <= n /\ \A i \in 0..(W - 1) : offset + i \in 0..(n - m)
    BY <1>3, <1>4
  <1> QED
    BY <1>1, <1>2, <1>5

(* What a mask of candidates says of the bytes of a block.                 *)
LEMMA MaskMeans ==
  ASSUME LinesTyped, offset \in Nat, offset + W <= Limit,
         NEW r \in offset..(offset + W), NEW s \in r..(offset + W),
         \A k \in (r + 1)..s : text[k] # Newline,
         NEW mask, mask = {i \in Positions(Head(pattern)) : r <= offset + i /\ offset + i < s}
  PROVE  AnyMatch(mask) <=> \E p \in Starts : r <= p /\ p < s
  <1>1. W \in Nat /\ Len(pattern) \in Nat /\ Len(text) \in Nat
    BY DEF LinesTyped
  <1>2. ASSUME NEW i \in mask, Matches(offset + i)
        PROVE  offset + i \in Starts /\ r <= offset + i /\ offset + i < s
    <2>1. i \in 0..(W - 1) /\ r <= offset + i /\ offset + i < s
      BY DEF Positions
    <2>2. text[offset + i + 1] # Newline
      BY <1>1, <2>1
    <2>3. offset + i \in 0..(Len(text) - Len(pattern))
      BY <2>1, BlockFits
    <2> QED
      BY <1>2, <2>1, <2>2, <2>3 DEF Starts
  <1>3. ASSUME NEW p \in Starts, r <= p, p < s
        PROVE  p - offset \in mask /\ Matches(offset + (p - offset))
    <2>1. p \in Nat /\ text[p + 1] = Head(pattern) /\ Matches(p)
      BY StartsAre DEF Starts
    <2>2. p - offset \in 0..(W - 1) /\ offset + (p - offset) = p
      BY <1>1, <1>3, <2>1
    <2> QED
      BY <1>3, <2>1, <2>2 DEF Positions
  <1> QED
    BY <1>2, <1>3 DEF AnyMatch

(* What every step of counting lines leaves alone.                         *)
LEMMA LinesSame ==
  ASSUME function = "lines", LineNext
  PROVE  UNCHANGED <<function, text, pattern>> /\ function' = "lines"
  BY DEF LineNext, BlockWithoutCandidate, BlockOfOneLine, BlockOfLines, LineInBlock, EndBlock,
         EndLineBlocks, TailByte, EndLines, UnchangedInputs

(* Lines are those of the text and the pattern.                            *)
LEMMA SameLines ==
  ASSUME UNCHANGED <<text, pattern>>
  PROVE  /\ LinesWithPattern' = LinesWithPattern /\ Starts' = Starts /\ Limit' = Limit
         /\ \A p : LineOf(p)' = LineOf(p)
  BY DEF LinesWithPattern, Starts, LineOf, Matches, Limit

(* The count of the next state, at its offset.                             *)
LEMMA CountedNext ==
  ASSUME NEW s, offset' = s, CountedTo(s)'
  PROVE  CountedTo(offset)'
  BY DEF CountedTo, LineOf

(* A block of one line, or one without a candidate.                        *)
LEMMA SimpleBlockKeeps ==
  ASSUME InvLines, function = "lines", BlockWithoutCandidate \/ BlockOfOneLine
  PROVE  InvLines'
  <1>1. /\ text \in Seq(Bytes) /\ pattern \in Patterns /\ offset \in 0..Len(text)
        /\ count \in Nat /\ lineHasMatch \in BOOLEAN
        /\ pc = "blocks" /\ offset + W <= Limit /\ offset' = offset + W /\ pc' = "blocks"
        /\ UNCHANGED <<function, text, pattern>> /\ function' = "lines"
    BY DEF InvLines, BlockWithoutCandidate, BlockOfOneLine, InBlock, UnchangedInputs
  <1>2. LinesTyped /\ CountedTo(offset)
    BY <1>1, TypesOfLines DEF InvLines
  <1>3. W \in Nat /\ W >= 2 /\ Len(text) \in Nat /\ offset \in Nat
    BY <1>1, <1>2 DEF LinesTyped
  <1>4. offset + W <= Len(text)
    BY <1>1, <1>2, <1>3, BlockFits
  <1>s. PICK s \in Nat : s = offset + W
    BY <1>3
  <1> DEFINE mask == {i \in Positions(Head(pattern)) : offset <= offset + i /\ offset + i < s}
  <1>5. s \in Nat /\ offset <= s /\ offset \in offset..s /\ s \in offset..s
    BY <1>3, <1>s
  <1>6. mask = Positions(Head(pattern))
    BY <1>3, <1>s DEF Positions
  <1>7. Positions(Newline) = {} => \A k \in (offset + 1)..s : text[k] # Newline
    <2> SUFFICES ASSUME Positions(Newline) = {}, NEW k \in (offset + 1)..s
                 PROVE  text[k] # Newline
      OBVIOUS
    <2>1. k - offset - 1 \in 0..(W - 1) /\ offset + (k - offset - 1) + 1 = k
      BY <1>3, <1>s
    <2>2. k - offset - 1 \notin Positions(Newline)
      OBVIOUS
    <2> QED
      BY <2>1, <2>2 DEF Positions
  <1>8. CASE Positions(Newline) = {}
    <2>1. AnyMatch(Positions(Head(pattern))) <=> \E p \in Starts : offset <= p /\ p < s
      <3> HIDE DEF mask
      <3>1. AnyMatch(mask) <=> \E p \in Starts : offset <= p /\ p < s
        BY <1>1, <1>2, <1>3, <1>s, <1>5, <1>7, <1>8, MaskMeans DEF mask
      <3> QED
        BY <1>6, <3>1
    <2>2. Positions(Head(pattern)) = {} => ~AnyMatch(Positions(Head(pattern)))
      BY DEF AnyMatch
    <2>3. /\ count' = count /\ lineHasMatch' \in BOOLEAN
          /\ lineHasMatch' <=> lineHasMatch \/ AnyMatch(Positions(Head(pattern)))
      <3>1. AnyMatch(Positions(Head(pattern))) \in BOOLEAN
        BY DEF AnyMatch
      <3>2. CASE BlockWithoutCandidate
        BY <1>1, <1>8, <2>2, <3>2 DEF BlockWithoutCandidate
      <3>3. CASE BlockOfOneLine
        BY <1>1, <3>1, <3>3 DEF BlockOfOneLine
      <3> QED
        BY <3>2, <3>3
    <2>4. CountedTo(s)'
      BY <1>1, <1>2, <1>3, <1>5, <1>7, <1>8, <2>1, <2>3, LineGoesOn
    <2>5. offset' = s
      BY <1>1, <1>s
    <2>6. CountedTo(offset)'
      BY <2>4, <2>5, CountedNext
    <2>7. offset' \in 0..Len(text)'
      BY <1>1, <1>3, <1>4
    <2> QED
      BY <1>1, <2>3, <2>6, <2>7 DEF InvLines, LinesCounted
  <1>9. CASE Positions(Newline) # {}
    <2>1. /\ Positions(Head(pattern)) = {} /\ lineHasMatch' = FALSE
          /\ count' = IF lineHasMatch THEN count + 1 ELSE count
      BY <1>9 DEF BlockWithoutCandidate, BlockOfOneLine, EndLine
    <2>2. ~(\E p \in Starts : offset <= p /\ p < s)
      <3> SUFFICES ASSUME NEW p \in Starts, offset <= p, p < s PROVE FALSE
        OBVIOUS
      <3>1. p \in Nat /\ text[p + 1] = Head(pattern)
        BY <1>2, StartsAre
      <3>2. p - offset \in 0..(W - 1) /\ offset + (p - offset) = p
        BY <1>3, <1>s, <3>1
      <3> QED
        BY <2>1, <3>1, <3>2 DEF Positions
    <2>3. LineOf(offset) < LineOf(s)
      <3>1. PICK i \in 0..(W - 1) : text[offset + i + 1] = Newline
        BY <1>9 DEF Positions
      <3>2. offset + i + 1 \in (offset + 1)..s
        BY <1>3, <1>s
      <3>3. LineOf(offset) # LineOf(s)
        BY <1>3, <1>5, <3>1, <3>2, LineGrows
      <3>4. LineOf(offset) \in Nat /\ LineOf(s) \in Nat /\ LineOf(offset) <= LineOf(s)
        BY <1>3, <1>5, LineGrows
      <3> QED
        BY <3>3, <3>4
    <2> DEFINE matched == lineHasMatch
    <2>m. /\ matched <=> lineHasMatch \/ \E p \in Starts : offset <= p /\ p < s
          /\ count' = IF matched THEN count + 1 ELSE count
      BY <2>1, <2>2
    <2> HIDE DEF matched
    <2>4. CountedTo(s)' /\ count' \in Nat
      BY <1>1, <1>2, <1>3, <1>5, <2>1, <2>2, <2>3, <2>m, LineIsOver
    <2>5. offset' = s
      BY <1>1, <1>s
    <2>6. CountedTo(offset)'
      BY <2>4, <2>5, CountedNext
    <2>7. offset' \in 0..Len(text)'
      BY <1>1, <1>3, <1>4
    <2> QED
      BY <1>1, <2>1, <2>4, <2>6, <2>7 DEF InvLines, LinesCounted
  <1> QED
    BY <1>8, <1>9

(* A block with newlines and candidates is begun.                          *)
LEMMA BlockOfLinesKeeps ==
  ASSUME InvLines, function = "lines", BlockOfLines
  PROVE  InvLines'
  <1>1. /\ text \in Seq(Bytes) /\ pattern \in Patterns /\ offset \in 0..Len(text)
        /\ count \in Nat /\ lineHasMatch \in BOOLEAN
        /\ pc = "blocks" /\ offset + W <= Limit /\ pc' = "lines"
        /\ Positions(Newline) # {}
        /\ newlines' = Positions(Newline) /\ candidates' = Positions(Head(pattern))
        /\ UNCHANGED <<function, text, pattern, offset, lineHasMatch, count>>
        /\ function' = "lines"
    BY DEF InvLines, BlockOfLines, InBlock, UnchangedInputs
  <1>2. LinesTyped /\ CountedTo(offset)
    BY <1>1, TypesOfLines DEF InvLines
  <1>3. W \in Nat /\ offset \in Nat /\ offset \in offset..(offset + W)
    BY <1>1, <1>2 DEF LinesTyped
  <1>4. \A byte : /\ Positions(byte) = {i \in Positions(byte) : offset + i >= offset}
                  /\ Positions(byte)' = Positions(byte)
    BY <1>1, <1>3 DEF Positions
  <1>5. CountedTo(offset)' /\ (offset + W <= Limit)'
    <2>1. /\ LinesWithPattern' = LinesWithPattern /\ Starts' = Starts /\ Limit' = Limit
          /\ \A p : LineOf(p)' = LineOf(p)
      BY <1>1, SameLines
    <2>2. PICK o \in Nat : o = offset
      BY <1>3
    <2>3. CountedTo(o)'
      BY <1>1, <1>2, <2>1, <2>2 DEF CountedTo
    <2>4. CountedTo(offset)'
      BY <1>1, <2>2, <2>3, CountedNext
    <2> QED
      BY <1>1, <2>1, <2>4
  <1>6. (\E r \in offset..(offset + W) :
              /\ r > offset => text[r] = Newline
              /\ newlines = {i \in Positions(Newline) : offset + i >= r}
              /\ candidates = {i \in Positions(Head(pattern)) : offset + i >= r}
              /\ CountedTo(r))'
    <2>1. offset' \in offset'..(offset' + W)
      BY <1>1, <1>3
    <2>2. /\ newlines' = {i \in Positions(Newline)' : offset' + i >= offset'}
          /\ candidates' = {i \in Positions(Head(pattern))' : offset' + i >= offset'}
      BY <1>1, <1>4
    <2>3. ~(offset' > offset')
      BY <1>1, <1>3
    <2> QED
      BY <1>5, <2>1, <2>2, <2>3
  <1> QED
    BY <1>1, <1>4, <1>5, <1>6 DEF InvLines, LinesCounted

(* A line that ends in a block.                                            *)
LEMMA LineInBlockKeeps ==
  ASSUME InvLines, function = "lines", LineInBlock
  PROVE  InvLines'
  <1>1. /\ text \in Seq(Bytes) /\ pattern \in Patterns /\ offset \in 0..Len(text)
        /\ count \in Nat /\ lineHasMatch \in BOOLEAN
        /\ pc = "lines" /\ offset + W <= Limit /\ pc' = "lines"
        /\ Positions(Newline) # {}
        /\ UNCHANGED <<function, text, pattern, offset>> /\ function' = "lines"
    BY DEF InvLines, LineInBlock, UnchangedInputs
  <1>2. PICK r \in offset..(offset + W) :
              /\ r > offset => text[r] = Newline
              /\ newlines = {i \in Positions(Newline) : offset + i >= r}
              /\ candidates = {i \in Positions(Head(pattern)) : offset + i >= r}
              /\ CountedTo(r)
    BY <1>1 DEF InvLines
  <1>3. PICK n \in newlines :
              /\ \A m \in newlines : n <= m
              /\ count' = IF lineHasMatch \/ AnyMatch({i \in candidates : i < n})
                          THEN count + 1 ELSE count
              /\ lineHasMatch' = FALSE
              /\ candidates' = {i \in candidates : i > n}
              /\ newlines' = newlines \ {n}
    BY DEF LineInBlock, EndLine
  <1>4. LinesTyped
    BY <1>1, TypesOfLines
  <1>5. W \in Nat /\ offset \in Nat /\ r \in Nat /\ Len(text) \in Nat
    BY <1>1, <1>4 DEF LinesTyped
  <1>6. n \in 0..(W - 1) /\ text[offset + n + 1] = Newline /\ r <= offset + n
    BY <1>2, <1>5 DEF Positions
  <1>m. PICK m \in Nat : m = offset + n
    BY <1>5, <1>6
  <1>s. PICK s \in Nat : s = offset + n + 1
    BY <1>5, <1>6
  <1>7. /\ m \in Nat /\ s \in Nat /\ s = m + 1 /\ r <= m /\ r <= s /\ offset <= m
        /\ m \in r..(offset + W) /\ s \in offset..(offset + W)
    BY <1>2, <1>5, <1>6, <1>m, <1>s
  <1>8. \A k \in (r + 1)..m : text[k] # Newline
    <2> SUFFICES ASSUME NEW k \in (r + 1)..m, text[k] = Newline PROVE FALSE
      OBVIOUS
    <2>1. /\ k - offset - 1 \in 0..(W - 1) /\ offset + (k - offset - 1) + 1 = k
          /\ offset + (k - offset - 1) >= r /\ ~(n <= k - offset - 1)
      BY <1>2, <1>5, <1>6, <1>7, <1>m
    <2>2. k - offset - 1 \in newlines
      BY <1>2, <2>1 DEF Positions
    <2> QED
      BY <1>3, <2>1, <2>2
  <1>9. AnyMatch({i \in candidates : i < n}) <=> \E p \in Starts : r <= p /\ p < m
    <2>1. {i \in candidates : i < n} =
            {i \in Positions(Head(pattern)) : r <= offset + i /\ offset + i < m}
      BY <1>2, <1>5, <1>6, <1>m DEF Positions
    <2> QED
      BY <1>1, <1>4, <1>5, <1>7, <1>8, <2>1, MaskMeans
  <1>10. \A p \in Starts : r <= p /\ p < s => p < m
    <2> SUFFICES ASSUME NEW p \in Starts, p < s, ~(p < m) PROVE FALSE
      OBVIOUS
    <2>1. p \in Nat /\ text[p + 1] # Newline
      BY <1>4, StartsAre
    <2>2. p = offset + n
      BY <1>7, <1>m, <2>1
    <2> QED
      BY <1>6, <2>1, <2>2
  <1>11. LineOf(r) < LineOf(s)
    <2>1. s \in (r + 1)..s /\ text[s] = Newline
      BY <1>6, <1>7, <1>s
    <2>2. LineOf(r) # LineOf(s)
      BY <1>5, <1>7, <2>1, LineGrows
    <2>3. LineOf(r) \in Nat /\ LineOf(s) \in Nat /\ LineOf(r) <= LineOf(s)
      BY <1>5, <1>7, LineGrows
    <2> QED
      BY <2>2, <2>3
  <1>12. \A p \in Starts : r <= p /\ p < s => LineOf(p) = LineOf(r)
    <2> SUFFICES ASSUME NEW p \in Starts, r <= p, p < s PROVE LineOf(p) = LineOf(r)
      OBVIOUS
    <2>1. p \in Nat /\ p < m
      BY <1>4, <1>10, StartsAre
    <2>2. \A k \in (r + 1)..p : text[k] # Newline
      BY <1>5, <1>7, <1>8, <2>1
    <2> QED
      BY <1>5, <2>1, <2>2, LineGrows
  <1> DEFINE matched == lineHasMatch \/ AnyMatch({i \in candidates : i < n})
  <1>13. matched <=> lineHasMatch \/ \E p \in Starts : r <= p /\ p < s
    <2>1. \A p \in Starts : p \in Nat /\ (p < m => p < s)
      BY <1>4, <1>7, StartsAre
    <2> QED
      BY <1>9, <1>10, <2>1
  <1>14. count' = IF matched THEN count + 1 ELSE count
    BY <1>3
  <1> HIDE DEF matched
  <1>15. CountedTo(s)' /\ count' \in Nat
    BY <1>1, <1>2, <1>3, <1>4, <1>5, <1>7, <1>11, <1>12, <1>13, <1>14, LineIsOver
  <1>16. \A byte : Positions(byte)' = Positions(byte)
    BY <1>1 DEF Positions
  <1>17. /\ newlines' = {i \in Positions(Newline) : offset + i >= s}
         /\ candidates' = {i \in Positions(Head(pattern)) : offset + i >= s}
    <2>1. \A i \in 0..(W - 1) : offset + i >= s <=> i > n
      BY <1>5, <1>6, <1>s
    <2>2. \A i \in newlines : i \in 0..(W - 1) /\ n <= i
      BY <1>2, <1>3 DEF Positions
    <2>3. newlines' = {i \in newlines : i > n}
      <3>1. \A i \in newlines : i > n <=> i # n
        BY <1>5, <1>6, <2>2
      <3>2. newlines' = newlines \ {n}
        BY <1>3
      <3> QED
        BY <3>1, <3>2
    <2>4. \A i \in 0..(W - 1) : offset + i >= s => offset + i >= r
      BY <1>5, <1>7
    <2>5. \A byte : Positions(byte) \subseteq 0..(W - 1)
      BY DEF Positions
    <2>6. newlines' = {i \in Positions(Newline) : offset + i >= s}
      BY <1>2, <2>1, <2>3, <2>4, <2>5
    <2>7. candidates' = {i \in Positions(Head(pattern)) : offset + i >= s}
      BY <1>2, <1>3, <2>1, <2>4, <2>5
    <2> QED
      BY <2>6, <2>7
  <1>18. (\E q \in offset..(offset + W) :
              /\ q > offset => text[q] = Newline
              /\ newlines = {i \in Positions(Newline) : offset + i >= q}
              /\ candidates = {i \in Positions(Head(pattern)) : offset + i >= q}
              /\ CountedTo(q))'
    <2>1. s \in offset'..(offset' + W) /\ text'[s] = Newline
      BY <1>1, <1>6, <1>7, <1>s
    <2>2. /\ newlines' = {i \in Positions(Newline)' : offset' + i >= s}
          /\ candidates' = {i \in Positions(Head(pattern))' : offset' + i >= s}
      BY <1>1, <1>16, <1>17
    <2> QED
      BY <1>15, <2>1, <2>2
  <1>19. (offset + W <= Limit)'
    BY <1>1, SameLines
  <1> QED
    BY <1>1, <1>3, <1>15, <1>16, <1>18, <1>19 DEF InvLines, LinesCounted

(* The last line of a block goes on in the next.                           *)
LEMMA EndBlockKeeps ==
  ASSUME InvLines, function = "lines", EndBlock
  PROVE  InvLines'
  <1>1. /\ text \in Seq(Bytes) /\ pattern \in Patterns /\ offset \in 0..Len(text)
        /\ count \in Nat /\ pc = "lines" /\ offset + W <= Limit /\ pc' = "blocks"
        /\ Positions(Newline) # {} /\ newlines = {}
        /\ lineHasMatch' = AnyMatch(candidates) /\ offset' = offset + W
        /\ UNCHANGED <<function, text, pattern, count>> /\ function' = "lines"
    BY DEF InvLines, EndBlock, UnchangedInputs
  <1>2. PICK r \in offset..(offset + W) :
              /\ r > offset => text[r] = Newline
              /\ newlines = {i \in Positions(Newline) : offset + i >= r}
              /\ candidates = {i \in Positions(Head(pattern)) : offset + i >= r}
              /\ CountedTo(r)
    BY <1>1 DEF InvLines
  <1>3. LinesTyped
    BY <1>1, TypesOfLines
  <1>4. W \in Nat /\ offset \in Nat /\ r \in Nat /\ Len(text) \in Nat
    BY <1>1, <1>3 DEF LinesTyped
  <1>5. PICK s \in Nat : s = offset + W
    BY <1>4
  <1>6. offset + W <= Len(text)
    BY <1>1, <1>3, <1>4, BlockFits
  <1>7. r > offset /\ text[r] = Newline
    <2>1. PICK i \in Positions(Newline) : TRUE
      BY <1>1
    <2>2. i \in 0..(W - 1) /\ ~(offset + i >= r)
      BY <1>1, <1>2, <2>1 DEF Positions
    <2> QED
      BY <1>2, <1>4, <2>2
  <1>8. ~lineHasMatch
    <2> SUFFICES ASSUME NEW p \in Starts, p < r, LineOf(p) = LineOf(r) PROVE FALSE
      BY <1>2 DEF CountedTo
    <2>1. p \in Nat /\ r \in (p + 1)..r
      BY <1>3, <1>4, StartsAre
    <2> QED
      BY <1>4, <1>7, <2>1, LineGrows
  <1>9. \A k \in (r + 1)..s : text[k] # Newline
    <2> SUFFICES ASSUME NEW k \in (r + 1)..s, text[k] = Newline PROVE FALSE
      OBVIOUS
    <2>1. /\ k - offset - 1 \in 0..(W - 1) /\ offset + (k - offset - 1) + 1 = k
          /\ offset + (k - offset - 1) >= r
      BY <1>2, <1>4, <1>5
    <2>2. k - offset - 1 \in newlines
      BY <1>2, <2>1 DEF Positions
    <2> QED
      BY <1>1, <2>2
  <1>10. AnyMatch(candidates) <=> \E p \in Starts : r <= p /\ p < s
    <2>1. candidates = {i \in Positions(Head(pattern)) : r <= offset + i /\ offset + i < s}
      BY <1>2, <1>4, <1>5 DEF Positions
    <2>2. s \in r..(offset + W)
      BY <1>2, <1>4, <1>5
    <2> QED
      BY <1>1, <1>3, <1>4, <1>9, <2>1, <2>2, MaskMeans
  <1>11. lineHasMatch' \in BOOLEAN
    BY <1>1 DEF AnyMatch
  <1>12. lineHasMatch' <=> lineHasMatch \/ \E p \in Starts : r <= p /\ p < s
    BY <1>1, <1>8, <1>10
  <1>13. r <= s
    BY <1>2, <1>4, <1>5
  <1>14. CountedTo(s)'
    BY <1>1, <1>2, <1>3, <1>4, <1>5, <1>9, <1>12, <1>13, LineGoesOn
  <1>15. CountedTo(offset)'
    BY <1>1, <1>5, <1>14, CountedNext
  <1>16. offset' \in 0..Len(text)'
    BY <1>1, <1>4, <1>6
  <1> QED
    BY <1>1, <1>11, <1>15, <1>16 DEF InvLines, LinesCounted

(* A byte after the blocks.                                                *)
LEMMA TailByteKeeps ==
  ASSUME InvLines, function = "lines", TailByte
  PROVE  InvLines'
  <1>1. /\ text \in Seq(Bytes) /\ pattern \in Patterns /\ offset \in 0..Len(text)
        /\ count \in Nat /\ lineHasMatch \in BOOLEAN /\ pc = "tail" /\ pc' = "tail"
        /\ offset < Len(text) /\ offset' = offset + 1
        /\ UNCHANGED <<function, text, pattern>> /\ function' = "lines"
    BY DEF InvLines, TailByte, UnchangedInputs
  <1>2. LinesTyped /\ CountedTo(offset)
    BY <1>1, TypesOfLines DEF InvLines
  <1>3. offset \in Nat /\ Len(text) \in Nat /\ Len(pattern) \in Nat
    BY <1>1, <1>2 DEF LinesTyped
  <1>4. PICK o \in Nat : o = offset
    BY <1>3
  <1>5. PICK s \in Nat : s = o + 1
    BY <1>4
  <1>6. o <= s /\ \A p \in Starts : p \in Nat /\ (o <= p /\ p < s <=> p = o)
    BY <1>2, <1>4, <1>5, StartsAre
  <1>7. offset' \in 0..Len(text)' /\ offset' = s
    BY <1>1, <1>3, <1>4, <1>5
  <1>8. CASE text[offset + 1] = Newline
    <2>1. /\ lineHasMatch' = FALSE
          /\ count' = IF lineHasMatch THEN count + 1 ELSE count
      BY <1>8 DEF TailByte, EndLine
    <2>2. o \notin Starts
      BY <1>4, <1>8 DEF Starts
    <2>3. LineOf(o) < LineOf(s)
      <3>1. s \in (o + 1)..s /\ text[s] = Newline
        BY <1>4, <1>5, <1>8
      <3>2. LineOf(o) # LineOf(s)
        BY <1>6, <3>1, LineGrows
      <3>3. LineOf(o) \in Nat /\ LineOf(s) \in Nat /\ LineOf(o) <= LineOf(s)
        BY <1>6, LineGrows
      <3> QED
        BY <3>2, <3>3
    <2> DEFINE matched == lineHasMatch
    <2>4. /\ matched <=> lineHasMatch \/ \E p \in Starts : o <= p /\ p < s
          /\ count' = IF matched THEN count + 1 ELSE count
      BY <1>6, <2>1, <2>2
    <2> HIDE DEF matched
    <2>5. CountedTo(o)
      BY <1>2, <1>4
    <2>6. CountedTo(s)' /\ count' \in Nat
      BY <1>1, <1>2, <1>6, <2>1, <2>2, <2>3, <2>4, <2>5, LineIsOver
    <2>7. CountedTo(offset)'
      BY <1>7, <2>6, CountedNext
    <2> QED
      BY <1>1, <1>7, <2>1, <2>6, <2>7 DEF InvLines, LinesCounted
  <1>9. CASE text[offset + 1] # Newline
    <2>1. /\ count' = count
          /\ lineHasMatch' = (lineHasMatch \/ (offset + Len(pattern) <= Len(text) /\ Matches(offset)))
      BY <1>9 DEF TailByte
    <2>2. o \in Starts <=> offset + Len(pattern) <= Len(text) /\ Matches(offset)
      <3>1. o \in 0..(Len(text) - Len(pattern)) <=> offset + Len(pattern) <= Len(text)
        BY <1>3, <1>4
      <3> QED
        BY <1>4, <1>9, <3>1 DEF Starts
    <2>3. lineHasMatch' \in BOOLEAN
      BY <2>1 DEF Matches
    <2>4. lineHasMatch' <=> lineHasMatch \/ \E p \in Starts : o <= p /\ p < s
      BY <1>6, <2>1, <2>2
    <2>5. \A k \in (o + 1)..s : text[k] # Newline
      <3>1. \A k \in (o + 1)..s : k = offset + 1
        BY <1>4, <1>5
      <3> QED
        BY <1>9, <3>1
    <2>6. CountedTo(o)
      BY <1>2, <1>4
    <2>7. CountedTo(s)'
      BY <1>1, <1>2, <1>6, <2>1, <2>4, <2>5, <2>6, LineGoesOn
    <2>8. CountedTo(offset)'
      BY <1>7, <2>7, CountedNext
    <2> QED
      BY <1>1, <1>7, <2>1, <2>3, <2>8 DEF InvLines, LinesCounted
  <1> QED
    BY <1>8, <1>9

(* The blocks are over, or the text is.                                    *)
LEMMA EndLinesKeeps ==
  ASSUME InvLines, function = "lines", EndLineBlocks \/ EndLines
  PROVE  InvLines'
  <1>1. /\ text \in Seq(Bytes) /\ pattern \in Patterns /\ offset \in 0..Len(text)
        /\ count \in Nat /\ lineHasMatch \in BOOLEAN /\ pc \in {"blocks", "tail"}
        /\ UNCHANGED <<function, text, pattern, offset>> /\ function' = "lines"
    BY DEF InvLines, EndLineBlocks, EndLines, UnchangedInputs
  <1>2. LinesTyped /\ CountedTo(offset)
    BY <1>1, TypesOfLines DEF InvLines
  <1>3. PICK o \in Nat : o = offset
    BY <1>1, <1>2 DEF LinesTyped
  <1>4. /\ LinesWithPattern' = LinesWithPattern /\ Starts' = Starts
        /\ \A p : LineOf(p)' = LineOf(p)
    BY <1>1, SameLines
  <1>5. CASE EndLineBlocks
    <2>1. pc' = "tail" /\ UNCHANGED <<lineHasMatch, count>>
      BY <1>5 DEF EndLineBlocks
    <2>2. CountedTo(o)'
      BY <1>2, <1>3, <1>4, <2>1 DEF CountedTo
    <2>3. CountedTo(offset)'
      BY <1>1, <1>3, <2>2, CountedNext
    <2> QED
      BY <1>1, <2>1, <2>3 DEF InvLines, LinesCounted
  <1>6. CASE EndLines
    <2>1. /\ pc' = "done" /\ offset = Len(text) /\ lineHasMatch' = FALSE
          /\ count' = IF lineHasMatch THEN count + 1 ELSE count
      BY <1>6 DEF EndLines, EndLine
    <2> DEFINE l == LineOf(o)
               S == {k \in LinesWithPattern : k < l}
    <2>2. l \in Nat
      BY LineGrows
    <2>3. \A p \in Starts : p \in Nat /\ p < o /\ LineOf(p) \in Nat /\ LineOf(p) <= l
      <3>1. \A p \in Starts : p \in Nat /\ p < o
        BY <1>2, <1>3, <2>1, StartsAre
      <3> QED
        BY <3>1, LineGrows
    <2>4. lineHasMatch <=> l \in LinesWithPattern
      <3>1. lineHasMatch <=> \E p \in Starts : p < o /\ LineOf(p) = l
        BY <1>2, <1>3 DEF CountedTo
      <3> QED
        BY <2>3, <3>1 DEF LinesWithPattern
    <2>5. LinesWithPattern = IF lineHasMatch THEN S \cup {l} ELSE S
      <3>1. \A k \in LinesWithPattern : k \in Nat /\ k <= l
        BY <2>3 DEF LinesWithPattern
      <3>2. \A k \in LinesWithPattern : k \in S \/ k = l
        BY <2>2, <3>1
      <3> QED
        BY <2>4, <3>2
    <2>6. IsFiniteSet(S) /\ Cardinality(S) \in Nat
      <3>1. S \subseteq 0..l
        BY <2>2, <2>3 DEF LinesWithPattern
      <3> QED
        BY <2>2, <3>1, PartCount
    <2>7. l \notin S /\ count = Cardinality(S)
      BY <1>2, <1>3, <2>2 DEF CountedTo
    <2> HIDE DEF S, l
    <2>8. Cardinality(S \cup {l}) = Cardinality(S) + 1
      BY <2>6, <2>7, FS_AddElement
    <2>9. count' = Cardinality(LinesWithPattern) /\ count' \in Nat
      <3>1. CASE lineHasMatch
        <4>1. LinesWithPattern = S \cup {l} /\ count' = count + 1
          BY <2>1, <2>5, <3>1
        <4> QED
          BY <2>6, <2>7, <2>8, <4>1
      <3>2. CASE ~lineHasMatch
        BY <2>1, <2>5, <2>6, <2>7, <3>2
      <3> QED
        BY <3>1, <3>2
    <2> QED
      BY <1>1, <1>4, <2>1, <2>9 DEF InvLines, LinesCounted
  <1> QED
    BY <1>5, <1>6

(* Every step of counting lines keeps its part of the invariant.           *)
LEMMA LinesKeep ==
  ASSUME InvLines, function = "lines", LineNext
  PROVE  InvLines'
  BY SimpleBlockKeeps, BlockOfLinesKeeps, LineInBlockKeeps, EndBlockKeeps, TailByteKeeps,
     EndLinesKeeps DEF LineNext

(* No line has ended at first.                                             *)
LEMMA LinesBegin == LineInit => InvLines
  <1> SUFFICES ASSUME LineInit PROVE InvLines
    OBVIOUS
  <1>1. /\ text \in Seq(Bytes) /\ pattern \in Patterns /\ offset = 0 /\ count = 0
        /\ lineHasMatch = FALSE /\ pc = IF text = <<>> THEN "done" ELSE "blocks"
    BY LinesAssumption DEF LineInit, LinesAssumption
  <1>2. LinesTyped
    BY <1>1, TypesOfLines
  <1>3. LineOf(0) = 0
    <2>1. {q \in 1..0 : text[q] = Newline} = {}
      OBVIOUS
    <2> QED
      BY <2>1, FS_EmptySet DEF LineOf
  <1>4. \A p \in Starts : p \in Nat /\ LineOf(p) \in Nat
    BY <1>2, StartsAre, LineGrows
  <1>5. CountedTo(0)
    <2>1. {l \in LinesWithPattern : l < LineOf(0)} = {}
      BY <1>3, <1>4 DEF LinesWithPattern
    <2>2. ~(\E p \in Starts : p < 0 /\ LineOf(p) = LineOf(0))
      BY <1>4
    <2> QED
      BY <1>1, <2>1, <2>2, FS_EmptySet DEF CountedTo
  <1>6. text = <<>> => Cardinality(LinesWithPattern) = 0
    <2> SUFFICES ASSUME text = <<>> PROVE LinesWithPattern = {}
      BY FS_EmptySet
    <2>1. Len(text) = 0
      OBVIOUS
    <2>2. ~(\E p \in Starts : TRUE)
      BY <1>2, <2>1, StartsAre
    <2> QED
      BY <2>2 DEF LinesWithPattern
  <1>7. offset \in 0..Len(text)
    BY <1>1, <1>2 DEF LinesTyped
  <1>8. /\ pc \in {"blocks", "lines", "tail", "done"} /\ pc # "lines"
        /\ count \in Nat /\ lineHasMatch \in BOOLEAN
    BY <1>1
  <1>9. pc \in {"blocks", "tail"} => CountedTo(offset)
    BY <1>1, <1>5
  <1>10. LinesCounted
    BY <1>1, <1>6 DEF LinesCounted
  <1> QED
    BY <1>1, <1>7, <1>8, <1>9, <1>10 DEF InvLines
-----------------------------------------------------------------------------
(* Counting words.                                                         *)

(* A text and its white space: m bytes of it follow the first q.           *)
WordsTyped == text \in Seq(Bytes) /\ unicode \in BOOLEAN /\ Len(text) \in Nat

White(q, m) == \E s \in SpacesAt(q, Len(text)) : Len(s) = m

(* What is white space has a length, and is what the text has there.       *)
LEMMA SpaceIs ==
  ASSUME WordsTyped, NEW q \in Nat, NEW e \in Nat, NEW s \in SpacesAt(q, e)
  PROVE  /\ s \in Seq(Bytes) /\ Len(s) \in 1..3 /\ q + Len(s) <= e
         /\ s = <<Space>> \/ s \in WideSpaces
         /\ s = <<Space>> => Len(s) = 1
         /\ s = SubSeq(text, q + 1, q + Len(s))
  <1>1. s = <<Space>> \/ s \in WideSpaces
    BY DEF SpacesAt
  <1>2. <<Space>> \in Seq(Bytes) /\ Len(<<Space>>) = 1
    BY WordsAssumption DEF WordsAssumption
  <1>3. s \in WideSpaces => s \in Seq(Bytes) /\ Len(s) \in {2, 3}
    BY WordsAssumption DEF WordsAssumption
  <1>4. q + Len(s) <= e /\ s = SubSeq(text, q + 1, q + Len(s))
    BY DEF SpacesAt
  <1>5. s = <<Space>> => Len(s) = 1 /\ s \in Seq(Bytes)
    BY <1>2
  <1>6. Len(s) \in {1, 2, 3} /\ s \in Seq(Bytes)
    BY <1>1, <1>3, <1>5
  <1>7. Len(s) \in 1..3
    BY <1>6
  <1> QED
    BY <1>1, <1>4, <1>5, <1>6, <1>7

LEMMA SpaceBytes ==
  ASSUME WordsTyped, NEW q \in Nat, NEW s \in SpacesAt(q, Len(text)), NEW k \in 1..Len(s)
  PROVE  s[k] = text[q + k]
  <1>1. PICK m \in 1..3 : m = Len(s)
    BY SpaceIs DEF WordsTyped
  <1>2. PICK n \in Nat : n = Len(text)
    BY DEF WordsTyped
  <1>3. q + m <= n /\ s = SubSeq(text, q + 1, q + m) /\ k \in 1..m
    BY <1>1, <1>2, SpaceIs DEF WordsTyped
  <1>4. \A i \in (q + 1)..(q + m) : text[i] \in Bytes
    BY <1>2, <1>3, ElementOfSeq DEF WordsTyped
  <1>5. \A i \in 1..(q + m) - (q + 1) + 1 : SubSeq(text, q + 1, q + m)[i] = text[(q + 1) + i - 1]
    BY <1>1, <1>4, SubSeqProperties
  <1>6. k \in 1..((q + m) - (q + 1) + 1) /\ (q + 1) + k - 1 = q + k
    BY <1>1, <1>3
  <1> QED
    BY <1>3, <1>5, <1>6

(* White space starts neither inside other white space nor twice in a      *)
(* place: this is what the assumption on the encoding is for.              *)
LEMMA WhiteAlone ==
  ASSUME WordsTyped, NEW p \in Nat, NEW m, White(p, m),
         NEW q \in Nat, NEW k, White(q, k), p <= q, q < p + m
  PROVE  p = q /\ m = k
  <1>1. PICK s \in SpacesAt(p, Len(text)) : Len(s) = m
    BY DEF White
  <1>2. PICK t \in SpacesAt(q, Len(text)) : Len(t) = k
    BY DEF White
  <1>3. /\ m \in 1..3 /\ k \in 1..3
        /\ s = <<Space>> \/ s \in WideSpaces
        /\ t = <<Space>> \/ t \in WideSpaces
        /\ s = <<Space>> => m = 1
        /\ t = <<Space>> => k = 1
    BY <1>1, <1>2, SpaceIs DEF WordsTyped
  <1>4. PICK i \in 1..m : i = q - p + 1
    BY <1>3
  <1>5. s[i] = t[1]
    <2>1. s[i] = text[p + i]
      BY <1>1, <1>4, SpaceBytes
    <2>2. 1 \in 1..Len(t)
      BY <1>2, <1>3
    <2>3. t[1] = text[q + 1]
      BY <2>2, SpaceBytes
    <2>4. p + i = q + 1
      BY <1>3, <1>4
    <2> QED
      BY <2>1, <2>3, <2>4
  <1>6. t = <<Space>> => t[1] = Space
    OBVIOUS
  <1>7. s = <<Space>> => s[1] = Space
    OBVIOUS
  <1>8. s \in WideSpaces => s[i] # Space
    BY <1>1, <1>4, WordsAssumption DEF WordsAssumption
  <1>9. t \in WideSpaces => t[1] # Space
    <2>1. 1 \in 1..Len(t)
      BY <1>2, <1>3
    <2> QED
      BY <2>1, WordsAssumption DEF WordsAssumption
  <1>10. CASE s = <<Space>>
    <2>1. i = 1 /\ m = 1
      BY <1>3, <1>4, <1>10
    <2>2. t = <<Space>>
      BY <1>3, <1>5, <1>7, <1>9, <1>10, <2>1
    <2> QED
      BY <1>3, <1>4, <2>1, <2>2
  <1>11. CASE s \in WideSpaces
    <2>1. t \in WideSpaces
      BY <1>3, <1>5, <1>6, <1>8, <1>11
    <2>2. i \notin 2..m
      BY <1>1, <1>5, <1>11, <2>1, WordsAssumption DEF WordsAssumption
    <2>3. i = 1
      BY <1>3, <1>4, <2>2
    <2>4. m = k
      BY <1>1, <1>2, <1>5, <1>11, <2>1, <2>3, WordsAssumption DEF WordsAssumption
    <2> QED
      BY <1>3, <1>4, <2>3, <2>4
  <1> QED
    BY <1>3, <1>10, <1>11

LEMMA WhiteFits ==
  ASSUME WordsTyped, NEW q \in Nat, NEW m, White(q, m)
  PROVE  m \in 1..3 /\ q + m <= Len(text)
  BY SpaceIs DEF White, WordsTyped

(* The definitions of the module in terms of where white space starts.     *)
LEMMA SpaceMeans ==
  ASSUME WordsTyped, NEW p \in Nat
  PROVE  IsSpace(p) <=> \E q \in 0..(p - 1) : \E m \in 1..3 : White(q, m) /\ p <= q + m
  <1>1. ASSUME NEW q \in 0..(p - 1), NEW s \in SpacesAt(q, Len(text)), p <= q + Len(s)
        PROVE  \E m \in 1..3 : White(q, m) /\ p <= q + m
    <2>1. Len(s) \in 1..3
      BY SpaceIs DEF WordsTyped
    <2>2. White(q, Len(s))
      BY DEF White
    <2> QED
      BY <1>1, <2>1, <2>2
  <1>2. ASSUME NEW q \in 0..(p - 1), NEW m \in 1..3, White(q, m), p <= q + m
        PROVE  \E s \in SpacesAt(q, Len(text)) : p <= q + Len(s)
    BY <1>2 DEF White
  <1> QED
    BY <1>1, <1>2 DEF IsSpace

LEMMA ReachMeans ==
  ASSUME WordsTyped, NEW p \in Nat, NEW n \in Nat
  PROVE  Reaches(p, n) <=> \E q \in 0..(p - 1) : \E m \in 1..3 : White(q, m) /\ p + n < q + m
  <1>1. ASSUME NEW q \in 0..(p - 1), NEW s \in SpacesAt(q, Len(text)), p + n < q + Len(s)
        PROVE  \E m \in 1..3 : White(q, m) /\ p + n < q + m
    <2>1. Len(s) \in 1..3
      BY SpaceIs DEF WordsTyped
    <2>2. White(q, Len(s))
      BY DEF White
    <2> QED
      BY <1>1, <2>1, <2>2
  <1>2. ASSUME NEW q \in 0..(p - 1), NEW m \in 1..3, White(q, m), p + n < q + m
        PROVE  \E s \in SpacesAt(q, Len(text)) : p + n < q + Len(s)
    BY <1>2 DEF White
  <1> QED
    BY <1>1, <1>2 DEF Reaches

(* White space within a call, when none crosses its end.                   *)
LEMMA WhiteInCall ==
  ASSUME WordsTyped, NEW e \in Nat, e <= Len(text), ~Reaches(e, 0), NEW q \in Nat, q < e
  PROVE  /\ \A m \in 1..3 : White(q, m) => \E s \in SpacesAt(q, e) : Len(s) = m
         /\ \A s \in SpacesAt(q, e) : Len(s) \in 1..3 /\ q + Len(s) <= e /\ White(q, Len(s))
  <1>1. PICK n \in Nat : n = Len(text)
    BY DEF WordsTyped
  <1>2. ASSUME NEW m \in 1..3, White(q, m) PROVE \E s \in SpacesAt(q, e) : Len(s) = m
    <2>1. q + m <= e
      BY <1>2, ReachMeans
    <2>2. PICK s \in SpacesAt(q, Len(text)) : Len(s) = m
      BY <1>2 DEF White
    <2>3. s \in SpacesAt(q, e)
      BY <2>1, <2>2 DEF SpacesAt
    <2> QED
      BY <2>2, <2>3
  <1>3. ASSUME NEW s \in SpacesAt(q, e)
        PROVE  Len(s) \in 1..3 /\ q + Len(s) <= e /\ White(q, Len(s))
    <2>1. Len(s) \in 1..3 /\ q + Len(s) <= e
      BY SpaceIs
    <2>2. q + Len(s) <= Len(text)
      BY <1>1, <2>1
    <2>3. s \in SpacesAt(q, Len(text))
      BY <2>2 DEF SpacesAt
    <2> QED
      BY <2>1, <2>3 DEF White
  <1> QED
    BY <1>2, <1>3

(* What reaches beyond a byte starts nowhere else.                         *)
LEMMA ReachAlone ==
  ASSUME WordsTyped, NEW p \in Nat, NEW i \in Nat, Reaches(p, i)
  PROVE  /\ Reaches(p, 0)
         /\ i \in 0..Len(text)
         /\ \A m : ~White(p, m)
  <1>1. PICK q \in 0..(p - 1), m \in 1..3 : White(q, m) /\ p + i < q + m
    BY ReachMeans
  <1>2. PICK n \in Nat : n = Len(text)
    BY DEF WordsTyped
  <1>3. q + m <= n
    BY <1>1, <1>2, WhiteFits
  <1>4. p + 0 < q + m
    BY <1>1
  <1>5. Reaches(p, 0)
    BY <1>1, <1>4, ReachMeans
  <1>6. ASSUME NEW k, White(p, k) PROVE FALSE
    <2>1. q \in Nat /\ q <= p /\ p < q + m /\ q # p
      BY <1>1
    <2> QED
      BY <1>1, <1>6, <2>1, WhiteAlone
  <1> QED
    BY <1>1, <1>2, <1>3, <1>5, <1>6

(* The white space of the bytes from p on began before them, or in them.   *)
LEMMA SpaceAfter ==
  ASSUME WordsTyped, NEW p \in Nat, NEW i \in Nat
  PROVE  IsSpace(p + i + 1) <=>
           \/ Reaches(p, i)
           \/ \E j \in 0..i : \E m \in 1..3 : White(p + j, m) /\ i < j + m
  <1>1. IsSpace(p + i + 1) <=>
          \E q \in 0..((p + i + 1) - 1) : \E m \in 1..3 : White(q, m) /\ p + i + 1 <= q + m
    BY SpaceMeans
  <1>2. ASSUME NEW q \in 0..((p + i + 1) - 1), NEW m \in 1..3, White(q, m), p + i + 1 <= q + m
        PROVE  \/ Reaches(p, i)
               \/ \E j \in 0..i : \E k \in 1..3 : White(p + j, k) /\ i < j + k
    <2>1. CASE q < p
      <3>1. q \in 0..(p - 1) /\ p + i < q + m
        BY <1>2, <2>1
      <3> QED
        BY <1>2, <3>1, ReachMeans
    <2>2. CASE q >= p
      <3>1. PICK j \in 0..i : q = p + j
        <4>1. q - p \in 0..i /\ q = p + (q - p)
          BY <2>2
        <4> QED
          BY <4>1
      <3>2. i < j + m
        BY <1>2, <3>1
      <3> QED
        BY <1>2, <3>1, <3>2
    <2> QED
      BY <2>1, <2>2
  <1>3. ASSUME Reaches(p, i) PROVE IsSpace(p + i + 1)
    <2>1. PICK q \in 0..(p - 1), m \in 1..3 : White(q, m) /\ p + i < q + m
      BY <1>3, ReachMeans
    <2>2. q \in 0..((p + i + 1) - 1) /\ p + i + 1 <= q + m
      BY <2>1
    <2> QED
      BY <1>1, <2>1, <2>2
  <1>4. ASSUME NEW j \in 0..i, NEW m \in 1..3, White(p + j, m), i < j + m
        PROVE  IsSpace(p + i + 1)
    <2>1. p + j \in 0..((p + i + 1) - 1) /\ p + i + 1 <= (p + j) + m
      BY <1>4
    <2> QED
      BY <1>1, <1>4, <2>1
  <1> QED
    BY <1>1, <1>2, <1>3, <1>4

LEMMA ReachAfter ==
  ASSUME WordsTyped, NEW p \in Nat, NEW d \in Nat, NEW i \in Nat
  PROVE  Reaches(p + d, i) <=>
           \/ Reaches(p, d + i)
           \/ \E j \in 0..(d - 1) : \E m \in 1..3 : White(p + j, m) /\ d + i < j + m
  <1>1. Reaches(p + d, i) <=>
          \E q \in 0..((p + d) - 1) : \E m \in 1..3 : White(q, m) /\ (p + d) + i < q + m
    BY ReachMeans
  <1>2. ASSUME NEW q \in 0..((p + d) - 1), NEW m \in 1..3, White(q, m), (p + d) + i < q + m
        PROVE  \/ Reaches(p, d + i)
               \/ \E j \in 0..(d - 1) : \E k \in 1..3 : White(p + j, k) /\ d + i < j + k
    <2>1. CASE q < p
      <3>1. q \in 0..(p - 1) /\ p + (d + i) < q + m /\ d + i \in Nat
        BY <1>2, <2>1
      <3> QED
        BY <1>2, <3>1, ReachMeans
    <2>2. CASE q >= p
      <3>1. PICK j \in 0..(d - 1) : q = p + j
        <4>1. q - p \in 0..(d - 1) /\ q = p + (q - p)
          BY <2>2
        <4> QED
          BY <4>1
      <3>2. d + i < j + m
        BY <1>2, <3>1
      <3> QED
        BY <1>2, <3>1, <3>2
    <2> QED
      BY <2>1, <2>2
  <1>3. ASSUME Reaches(p, d + i) PROVE Reaches(p + d, i)
    <2>1. PICK q \in 0..(p - 1), m \in 1..3 : White(q, m) /\ p + (d + i) < q + m
      BY <1>3, ReachMeans
    <2>2. q \in 0..((p + d) - 1) /\ (p + d) + i < q + m
      BY <2>1
    <2> QED
      BY <1>1, <2>1, <2>2
  <1>4. ASSUME NEW j \in 0..(d - 1), NEW m \in 1..3, White(p + j, m), d + i < j + m
        PROVE  Reaches(p + d, i)
    <2>1. p + j \in 0..((p + d) - 1) /\ (p + d) + i < (p + j) + m
      BY <1>4
    <2> QED
      BY <1>1, <1>4, <2>1
  <1> QED
    BY <1>1, <1>2, <1>3, <1>4

(* The words that begin among the next bytes are added.                    *)
WordBegins(p) == ~IsSpace(p) /\ (p = 1 \/ IsSpace(p - 1))

LEMMA WordsAdd ==
  ASSUME NEW p \in Nat, NEW d \in Nat
  PROVE  /\ WordsIn(p) \in Nat /\ WordsIn(p + d) \in Nat
         /\ Cardinality({i \in 0..(d - 1) : WordBegins(p + i + 1)}) \in Nat
         /\ WordsIn(p + d) = WordsIn(p) + Cardinality({i \in 0..(d - 1) : WordBegins(p + i + 1)})
  <1> DEFINE A == {k \in 1..p : WordBegins(k)}
             B == {k \in (p + 1)..(p + d) : WordBegins(k)}
             C == {k \in 1..(p + d) : WordBegins(k)}
             D == {i \in 0..(d - 1) : WordBegins(p + i + 1)}
             f == [i \in D |-> p + i + 1]
  <1>1. WordsIn(p) = Cardinality(A) /\ WordsIn(p + d) = Cardinality(C)
    BY DEF WordsIn, WordBegins
  <1>2. IsFiniteSet(A) /\ IsFiniteSet(B) /\ IsFiniteSet(C) /\ IsFiniteSet(D)
    BY PartCount
  <1>3. C = A \cup B /\ A \cap B = {}
    <2>1. \A k : k \in 1..(p + d) <=> k \in 1..p \/ k \in (p + 1)..(p + d)
      OBVIOUS
    <2>2. \A k \in 1..p : k \notin (p + 1)..(p + d)
      OBVIOUS
    <2> QED
      BY <2>1, <2>2
  <1>4. f \in [D -> B]
    <2>1. \A i \in D : p + i + 1 \in (p + 1)..(p + d) /\ WordBegins(p + i + 1)
      OBVIOUS
    <2> QED
      BY <2>1
  <1>5. \A x, y \in D : f[x] = f[y] => x = y
    OBVIOUS
  <1>6. \A z \in B : \E x \in D : f[x] = z
    <2> SUFFICES ASSUME NEW z \in B PROVE \E x \in D : f[x] = z
      OBVIOUS
    <2>1. PICK i \in 0..(d - 1) : z = p + i + 1
      <3>1. z - p - 1 \in 0..(d - 1) /\ z = p + (z - p - 1) + 1
        OBVIOUS
      <3> QED
        BY <3>1
    <2>2. i \in D
      BY <2>1
    <2> QED
      BY <2>1, <2>2
  <1> HIDE DEF A, B, C, D, f
  <1>7. Cardinality(B) = Cardinality(D)
    BY <1>2, <1>4, <1>5, <1>6, SameCount
  <1>8. Cardinality(C) = Cardinality(A) + Cardinality(B)
    BY <1>2, <1>3, DisjointCount
  <1>9. Cardinality(A) \in Nat /\ Cardinality(C) \in Nat /\ Cardinality(D) \in Nat
    BY <1>2, FS_CardinalityType
  <1> QED
    BY <1>1, <1>7, <1>8, <1>9 DEF D

(* One byte more.                                                          *)
LEMMA WordsOne ==
  ASSUME NEW p \in Nat
  PROVE  /\ WordsIn(p) \in Nat
         /\ WordsIn(p + 1) = IF WordBegins(p + 1) THEN WordsIn(p) + 1 ELSE WordsIn(p)
  <1> DEFINE D == {i \in 0..(1 - 1) : WordBegins(p + i + 1)}
  <1>1. /\ WordsIn(p) \in Nat
        /\ WordsIn(p + 1) = WordsIn(p) + Cardinality(D)
    BY WordsAdd
  <1>2. \A i \in 0..(1 - 1) : i = 0 /\ p + i + 1 = p + 1
    OBVIOUS
  <1>3. D = IF WordBegins(p + 1) THEN {0} ELSE {}
    <2>1. 0 \in 0..(1 - 1)
      OBVIOUS
    <2> QED
      BY <1>2, <2>1
  <1>4. Cardinality({0}) = 1 /\ Cardinality({}) = 0
    BY FS_EmptySet, FS_Singleton
  <1> HIDE DEF D
  <1> QED
    BY <1>1, <1>3, <1>4

(* The masks of a block say which of its bytes are white space, and what   *)
(* the last of it takes of the bytes behind.                               *)
LEMMA MarkedMeans ==
  ASSUME WordsTyped, W \in Nat \ {0},
         NEW o \in Nat, o = offset, NEW e \in Nat, e = end,
         o + W <= e, e <= Len(text), ~Reaches(e, 0),
         spill = {i \in 0..Len(text) : Reaches(o, i)}
  PROVE  /\ Marked \subseteq Nat
         /\ \A i \in 0..(W - 1) : i \in Marked <=> IsSpace(o + i + 1)
         /\ \A i \in Nat : W + i \in Marked <=> Reaches(o + W, i)
  <1> DEFINE Starting(i) == \E j \in 0..(W - 1) : \E m \in 1..3 : White(o + j, m) /\ i \in j..(j + m - 1)
  <1>1. \A i : i \in Marked <=> i \in spill \/ Starting(i)
    <2>1. \A j \in 0..(W - 1) : o + j \in Nat /\ o + j < e
      OBVIOUS
    <2>2. ASSUME NEW i, NEW j \in 0..(W - 1), NEW s \in SpacesAt(o + j, e), i \in j..(j + Len(s) - 1)
          PROVE  Starting(i)
      <3>1. Len(s) \in 1..3 /\ White(o + j, Len(s))
        BY <2>1, WhiteInCall
      <3> QED
        BY <2>2, <3>1
    <2>3. ASSUME NEW i, NEW j \in 0..(W - 1), NEW m \in 1..3, White(o + j, m), i \in j..(j + m - 1)
          PROVE  \E s \in SpacesAt(o + j, e) : i \in j..(j + Len(s) - 1)
      <3>1. PICK s \in SpacesAt(o + j, e) : Len(s) = m
        BY <2>1, <2>3, WhiteInCall
      <3> QED
        BY <2>3, <3>1
    <2>4. \A i : i \in Marked <=>
            i \in spill \/ \E j \in 0..(W - 1) : \E s \in SpacesAt(o + j, e) : i \in j..(j + Len(s) - 1)
      BY DEF Marked
    <2> QED
      BY <2>2, <2>3, <2>4
  <1>2. \A i \in Nat : i \in spill <=> Reaches(o, i)
    BY ReachAlone
  <1>3. Marked \subseteq Nat
    <2>1. \A i : Starting(i) => i \in Nat
      OBVIOUS
    <2>2. spill \subseteq Nat
      BY DEF WordsTyped
    <2> HIDE DEF Starting
    <2> QED
      BY <1>1, <2>1, <2>2
  <1>4. ASSUME NEW i \in 0..(W - 1) PROVE i \in Marked <=> IsSpace(o + i + 1)
    <2>1. Starting(i) <=> \E j \in 0..i : \E m \in 1..3 : White(o + j, m) /\ i < j + m
      <3>1. ASSUME NEW j \in 0..(W - 1), NEW m \in 1..3, White(o + j, m), i \in j..(j + m - 1)
            PROVE  \E k \in 0..i : \E l \in 1..3 : White(o + k, l) /\ i < k + l
        <4>1. j \in 0..i /\ i < j + m
          BY <3>1
        <4> QED
          BY <3>1, <4>1
      <3>2. ASSUME NEW j \in 0..i, NEW m \in 1..3, White(o + j, m), i < j + m
            PROVE  Starting(i)
        <4>1. j \in 0..(W - 1) /\ i \in j..(j + m - 1)
          BY <3>2
        <4> QED
          BY <3>2, <4>1
      <3> QED
        BY <3>1, <3>2
    <2>2. i \in Nat
      OBVIOUS
    <2> HIDE DEF Starting
    <2> QED
      BY <1>1, <1>2, <2>1, <2>2, SpaceAfter
  <1>5. ASSUME NEW i \in Nat PROVE W + i \in Marked <=> Reaches(o + W, i)
    <2>1. Starting(W + i) <=>
            \E j \in 0..(W - 1) : \E m \in 1..3 : White(o + j, m) /\ W + i < j + m
      <3>1. \A j \in 0..(W - 1), m \in 1..3 : W + i \in j..(j + m - 1) <=> W + i < j + m
        OBVIOUS
      <3> QED
        BY <3>1
    <2>2. W + i \in Nat
      OBVIOUS
    <2> HIDE DEF Starting
    <2> QED
      BY <1>1, <1>2, <2>1, <2>2, ReachAfter
  <1> QED
    BY <1>3, <1>4, <1>5

(* What the invariant says of the bytes taken, for o of them.              *)
TakenAt(o) ==
  /\ pc = "idle" => total = WordsIn(o)
  /\ pc # "idle" => total + count = WordsIn(o)
  /\ pc = "idle" => inWordState = InWordAt(o)
  /\ pc = "blocks" => carry = ~InWordAt(o)
  /\ pc \in {"skip", "tail"} => inWord = InWordAt(o)
  /\ pc \in {"blocks", "skip"} => spill = {i \in 0..Len(text) : Reaches(o, i)}
  /\ pc \in {"idle", "tail"} => ~Reaches(o, 0)

LEMMA TakenNext ==
  ASSUME NEW o, offset' = o, TakenAt(o)'
  PROVE  InvTaken'
  BY DEF TakenAt, InvTaken, WordsIn, InWordAt, IsSpace, Reaches, SpacesAt

(* White space and words are those of the text.                            *)
LEMMA SameWords ==
  ASSUME UNCHANGED <<text, unicode>>
  PROVE  /\ \A p : WordsIn(p)' = WordsIn(p) /\ InWordAt(p)' = InWordAt(p)
         /\ \A p, n : Reaches(p, n)' = Reaches(p, n)
  BY DEF WordsIn, InWordAt, IsSpace, Reaches, SpacesAt

(* What the steps have in common.                                          *)
LEMMA WordsFrame ==
  ASSUME InvWords, function = "words", WordNext,
         NEW o \in Nat, o = offset', o <= end', pc' = "idle" => o = end',
         total' \in Nat, count' \in Nat, end' \in 0..Len(text),
         cut' \in BOOLEAN, inWordState' \in BOOLEAN, carry' \in BOOLEAN, inWord' \in BOOLEAN,
         pc' \in {"idle", "blocks", "skip", "tail"},
         ~cut' => TakenAt(o)',
         NEW e \in Nat, e = end', ~cut' => ~Reaches(e, 0)
  PROVE  InvWords'
  <1>1. UNCHANGED <<function, text, unicode>>
    BY DEF WordNext, StartCall, WordBlock, EndWordBlocks, Skip, EndSkip, TailSpace, TailWord,
           EndCall, textVars
  <1>2. text' \in Seq(Bytes) /\ unicode' \in BOOLEAN /\ end' \in 0..Len(text')
    BY <1>1 DEF InvWords
  <1>3. offset' \in 0..end'
    BY <1>2
  <1>4. ~cut' => InvTaken'
    BY TakenNext
  <1>5. ~cut' => ~Reaches(end, 0)'
    <2>1. Reaches(e, 0)' = Reaches(e, 0)
      BY <1>1, SameWords
    <2>2. Reaches(end, 0)' = Reaches(e, 0)'
      BY DEF Reaches
    <2> QED
      BY <2>1, <2>2
  <1> QED
    BY <1>1, <1>2, <1>3, <1>4, <1>5 DEF InvWords

(* The invariant, with numbers for what it speaks of.                      *)
LEMMA WordsAre ==
  ASSUME InvWords, function = "words"
  PROVE  /\ WordsTyped /\ W \in Nat \ {0}
         /\ inWordState \in BOOLEAN /\ cut \in BOOLEAN /\ carry \in BOOLEAN /\ inWord \in BOOLEAN
         /\ total \in Nat /\ count \in Nat /\ end \in 0..Len(text)
         /\ offset \in Nat /\ end \in Nat /\ offset <= end /\ end <= Len(text)
         /\ pc = "idle" => offset = end
         /\ ~cut => TakenAt(offset) /\ ~Reaches(end, 0)
  <1>1. /\ text \in Seq(Bytes) /\ unicode \in BOOLEAN
        /\ inWordState \in BOOLEAN /\ cut \in BOOLEAN /\ carry \in BOOLEAN /\ inWord \in BOOLEAN
        /\ total \in Nat /\ count \in Nat /\ end \in 0..Len(text) /\ offset \in 0..end
        /\ pc = "idle" => offset = end
        /\ ~cut => InvTaken /\ ~Reaches(end, 0)
    BY DEF InvWords
  <1>2. Len(text) \in Nat
    BY <1>1, LenProperties
  <1>3. WordsTyped /\ W \in Nat \ {0}
    BY <1>1, <1>2, TextAssumption DEF WordsTyped, TextAssumption
  <1>4. ~cut => TakenAt(offset)
    BY <1>1 DEF InvTaken, TakenAt
  <1>5. offset \in Nat /\ end \in Nat /\ offset <= end /\ end <= Len(text)
    BY <1>1, <1>2
  <1> QED
    BY <1>1, <1>3, <1>4, <1>5

LEMMA StartCallKeeps ==
  ASSUME InvWords, function = "words", NEW n \in 1..Len(text), StartCall(n)
  PROVE  InvWords'
  <1>1. /\ pc = "idle" /\ pc' = "blocks" /\ n > 0 /\ offset + n <= Len(text)
        /\ end' = offset + n /\ carry' = ~inWordState /\ spill' = {} /\ count' = 0
        /\ UNCHANGED <<text, unicode, inWordState, total, offset, inWord>>
    BY DEF StartCall, textVars
  <1>2. PICK o \in Nat : o = offset
    BY WordsAre
  <1>3. PICK l \in Nat : l = Len(text)
    BY WordsAre DEF WordsTyped
  <1>4. PICK e \in Nat : e = end' /\ e = o + n /\ o <= e /\ e <= l
    BY <1>1, <1>2, <1>3
  <1>5. WordNext
    BY DEF WordNext
  <1>6. cut' = (cut \/ Reaches(e, 0))
    <2>1. cut' = (cut \/ \E p \in 0..(e - 1) : \E s \in SpacesAt(p, Len(text)) : p + Len(s) > e)
      BY <1>1, <1>4 DEF StartCall
    <2>2. \A p \in 0..(e - 1) : \A s \in SpacesAt(p, Len(text)) :
             p + Len(s) > e <=> e + 0 < p + Len(s)
      <3>1. ASSUME NEW p \in 0..(e - 1), NEW s \in SpacesAt(p, Len(text))
            PROVE  Len(s) \in 1..3
        BY WordsAre, SpaceIs DEF WordsTyped
      <3> QED
        BY <3>1
    <2> QED
      BY <2>1, <2>2 DEF Reaches
  <1>7. ASSUME ~cut' PROVE TakenAt(o)'
    <2>1. TakenAt(o)
      BY <1>2, <1>6, <1>7, WordsAre
    <2>2. ~Reaches(o, 0) /\ total = WordsIn(o) /\ inWordState = InWordAt(o)
      BY <1>1, <2>1 DEF TakenAt
    <2>3. \A i \in Nat : ~Reaches(o, i)
      BY <2>2, WordsAre, ReachAlone
    <2>4. \A i \in 0..Len(text) : ~Reaches(o, i)
      BY <1>3, <2>3
    <2>5. spill' = {i \in 0..Len(text) : Reaches(o, i)}
      BY <1>1, <2>4
    <2>6. total' + count' = WordsIn(o)
      BY <1>1, <2>2, WordsAre
    <2>7. carry' = ~InWordAt(o)
      BY <1>1, <2>2
    <2>8. /\ WordsIn(o)' = WordsIn(o) /\ InWordAt(o)' = InWordAt(o)
          /\ \A i : Reaches(o, i)' = Reaches(o, i)
      BY <1>1, SameWords
    <2> QED
      BY <1>1, <2>5, <2>6, <2>7, <2>8 DEF TakenAt
  <1>8. /\ total' \in Nat /\ count' \in Nat /\ end' \in 0..Len(text)
        /\ cut' \in BOOLEAN /\ inWordState' \in BOOLEAN /\ carry' \in BOOLEAN /\ inWord' \in BOOLEAN
    <2>1. end' \in 0..Len(text)
      BY <1>3, <1>4
    <2>2. total' \in Nat /\ count' \in Nat /\ inWordState' \in BOOLEAN /\ inWord' \in BOOLEAN
      BY <1>1, WordsAre
    <2>3. cut' \in BOOLEAN
      BY <1>6, WordsAre DEF Reaches
    <2>4. carry' \in BOOLEAN
      BY <1>1, WordsAre
    <2> QED
      BY <2>1, <2>2, <2>3, <2>4
  <1>9. ~cut' => ~Reaches(e, 0)
    BY <1>6
  <1>10. o = offset' /\ o <= end' /\ pc' # "idle" /\ pc' \in {"idle", "blocks", "skip", "tail"}
    BY <1>1, <1>2, <1>4
  <1> QED
    BY <1>4, <1>5, <1>7, <1>8, <1>9, <1>10, WordsFrame

LEMMA WordBlockKeeps ==
  ASSUME InvWords, function = "words", WordBlock
  PROVE  InvWords'
  <1>1. /\ pc = "blocks" /\ pc' = "blocks" /\ offset + W <= end
        /\ count' = count + Cardinality(WordStarts)
        /\ carry' = (W - 1 \in Marked)
        /\ spill' = {i - W : i \in Marked \ (0..(W - 1))}
        /\ offset' = offset + W
        /\ UNCHANGED <<text, unicode, inWordState, total, cut, end, inWord>>
    BY DEF WordBlock, textVars
  <1>2. PICK o \in Nat : o = offset
    BY WordsAre
  <1>3. PICK l \in Nat : l = Len(text)
    BY WordsAre DEF WordsTyped
  <1>4. PICK e \in Nat : e = end /\ o + W <= e /\ e <= l
    BY <1>1, <1>2, <1>3, WordsAre
  <1>5. WordNext
    BY DEF WordNext
  <1>w. W \in Nat \ {0}
    BY WordsAre
  <1>6. PICK s \in Nat : s = o + W
    BY <1>w
  <1>7. Cardinality(WordStarts) \in Nat
    <2>1. WordStarts \subseteq 0..(W - 1)
      BY DEF WordStarts
    <2>2. 0 \in Int /\ W - 1 \in Int
      BY <1>w
    <2> QED
      BY <2>1, <2>2, PartCount
  <1>8. ASSUME ~cut' PROVE TakenAt(s)'
    <2>1. TakenAt(o) /\ ~Reaches(e, 0)
      BY <1>1, <1>2, <1>4, <1>8, WordsAre
    <2>2. /\ spill = {i \in 0..Len(text) : Reaches(o, i)}
          /\ total + count = WordsIn(o)
          /\ carry = ~InWordAt(o)
      BY <1>1, <2>1 DEF TakenAt
    <2>3. /\ Marked \subseteq Nat
          /\ \A i \in 0..(W - 1) : i \in Marked <=> IsSpace(o + i + 1)
          /\ \A i \in Nat : W + i \in Marked <=> Reaches(o + W, i)
      BY <1>2, <1>3, <1>4, <2>1, <2>2, WordsAre, MarkedMeans
    <2>4. WordStarts = {i \in 0..(W - 1) : WordBegins(o + i + 1)}
      <3>1. ASSUME NEW i \in 0..(W - 1)
            PROVE  (IF i = 0 THEN carry ELSE i - 1 \in Marked)
                     <=> (o + i + 1 = 1 \/ IsSpace((o + i + 1) - 1))
        <4>1. CASE i = 0
          <5>1. (o + i + 1) - 1 = o /\ (o + i + 1 = 1 <=> o = 0) /\ (o > 0 <=> o # 0)
            BY <4>1
          <5> QED
            BY <2>2, <4>1, <5>1 DEF InWordAt
        <4>2. CASE i # 0
          <5>1. /\ i - 1 \in 0..(W - 1) /\ o + (i - 1) + 1 = (o + i + 1) - 1
                /\ o + i + 1 # 1
            BY <1>w, <4>2
          <5> QED
            BY <2>3, <4>2, <5>1
        <4> QED
          BY <4>1, <4>2
      <3>2. \A i \in 0..(W - 1) : i \notin Marked <=> ~IsSpace(o + i + 1)
        BY <2>3
      <3> QED
        BY <3>1, <3>2 DEF WordStarts, WordBegins
    <2>5. total' + count' = WordsIn(s)
      <3>1. WordsIn(s) = WordsIn(o) + Cardinality(WordStarts)
        BY <1>w, <1>6, <2>4, WordsAdd
      <3>2. PICK c \in Nat : c = Cardinality(WordStarts)
        BY <1>7
      <3>3. /\ total' = total /\ count' = count + c /\ WordsIn(s) = WordsIn(o) + c
            /\ total \in Nat /\ count \in Nat
        BY <1>1, <3>1, <3>2, WordsAre
      <3> QED
        BY <2>2, <3>3
    <2>6. carry' = ~InWordAt(s)
      <3>1. W - 1 \in 0..(W - 1) /\ o + (W - 1) + 1 = s /\ s > 0
        BY <1>w, <1>6
      <3>2. W - 1 \in Marked <=> IsSpace(s)
        BY <2>3, <3>1
      <3>3. (~InWordAt(s)) = IsSpace(s)
        BY <3>1 DEF InWordAt, IsSpace
      <3>4. IsSpace(s) \in BOOLEAN
        BY DEF IsSpace
      <3> QED
        BY <1>1, <3>2, <3>3, <3>4
    <2>7. spill' = {i \in 0..Len(text) : Reaches(s, i)}
      <3>1. ASSUME NEW i \in Marked \ (0..(W - 1))
            PROVE  i - W \in 0..Len(text) /\ Reaches(s, i - W)
        <4>1. PICK k \in Nat : k = i - W /\ W + k = i
          <5>1. i \in Nat /\ i >= W
            BY <1>w, <2>3
          <5> QED
            BY <1>w, <5>1
        <4>2. Reaches(s, k)
          BY <1>6, <2>3, <4>1
        <4> QED
          BY <4>1, <4>2, WordsAre, ReachAlone
      <3>2. ASSUME NEW k \in 0..Len(text), Reaches(s, k)
            PROVE  \E i \in Marked \ (0..(W - 1)) : k = i - W
        <4>1. k \in Nat
          BY <1>3
        <4>2. W + k \in Marked
          BY <1>6, <2>3, <3>2, <4>1
        <4>3. W + k \notin 0..(W - 1) /\ k = (W + k) - W
          BY <1>w, <4>1
        <4> QED
          BY <4>2, <4>3
      <3> QED
        BY <1>1, <3>1, <3>2
    <2>8. /\ WordsIn(s)' = WordsIn(s) /\ InWordAt(s)' = InWordAt(s)
          /\ \A i : Reaches(s, i)' = Reaches(s, i)
      BY <1>1, SameWords
    <2> QED
      BY <1>1, <2>5, <2>6, <2>7, <2>8 DEF TakenAt
  <1>9. /\ total' \in Nat /\ count' \in Nat /\ end' \in 0..Len(text)
        /\ cut' \in BOOLEAN /\ inWordState' \in BOOLEAN /\ carry' \in BOOLEAN /\ inWord' \in BOOLEAN
    <2>1. carry' \in BOOLEAN
      BY <1>1
    <2>2. count' \in Nat
      BY <1>1, <1>7, WordsAre
    <2> QED
      BY <1>1, <2>1, <2>2, WordsAre
  <1>10. ~cut' => ~Reaches(e, 0)
    BY <1>1, <1>4, WordsAre
  <1>11. s = offset' /\ s <= end' /\ e = end' /\ pc' # "idle"
         /\ pc' \in {"idle", "blocks", "skip", "tail"}
    BY <1>1, <1>2, <1>4, <1>6
  <1> QED
    BY <1>5, <1>8, <1>9, <1>10, <1>11, WordsFrame

(* The steps that take no byte.                                            *)
LEMMA WordPhaseKeeps ==
  ASSUME InvWords, function = "words", EndWordBlocks \/ EndSkip \/ EndCall
  PROVE  InvWords'
  <1>1. /\ pc \in {"blocks", "skip", "tail"} /\ pc' \in {"idle", "skip", "tail"}
        /\ UNCHANGED <<text, unicode, cut, offset, end, carry, spill, count>>
    BY DEF EndWordBlocks, EndSkip, EndCall, textVars
  <1>2. PICK o \in Nat : o = offset
    BY WordsAre
  <1>3. PICK l \in Nat : l = Len(text)
    BY WordsAre DEF WordsTyped
  <1>4. PICK e \in Nat : e = end /\ o <= e
    BY <1>2, WordsAre
  <1>5. WordNext
    BY DEF WordNext
  <1>6. ASSUME ~cut' PROVE TakenAt(o)'
    <2>1. TakenAt(o) /\ ~Reaches(e, 0)
      BY <1>1, <1>2, <1>4, <1>6, WordsAre
    <2>2. /\ WordsIn(o)' = WordsIn(o) /\ InWordAt(o)' = InWordAt(o)
          /\ \A i : Reaches(o, i)' = Reaches(o, i)
      BY <1>1, SameWords
    <2>3. InWordAt(o) \in BOOLEAN
      BY DEF InWordAt
    <2>4. CASE EndWordBlocks
      <3>1. pc = "blocks" /\ pc' = "skip" /\ inWord' = ~carry
        BY <2>4 DEF EndWordBlocks
      <3>2. /\ total + count = WordsIn(o) /\ carry = ~InWordAt(o)
            /\ spill = {i \in 0..Len(text) : Reaches(o, i)}
        BY <2>1, <3>1 DEF TakenAt
      <3>3. total' = total
        BY <2>4 DEF EndWordBlocks
      <3> QED
        BY <1>1, <2>2, <2>3, <3>1, <3>2, <3>3 DEF TakenAt
    <2>5. CASE EndSkip
      <3>1. /\ pc = "skip" /\ pc' = "tail" /\ inWord' = inWord /\ total' = total
            /\ spill = {} \/ offset = end
        BY <2>5 DEF EndSkip
      <3>2. /\ total + count = WordsIn(o) /\ inWord = InWordAt(o)
            /\ spill = {i \in 0..Len(text) : Reaches(o, i)}
        BY <2>1, <3>1 DEF TakenAt
      <3>3. ~Reaches(o, 0)
        <4>1. CASE offset = end
          BY <1>2, <1>4, <2>1, <4>1
        <4>2. CASE spill = {}
          <5>1. 0 \in 0..Len(text)
            BY <1>3
          <5> QED
            BY <3>2, <4>2, <5>1
        <4> QED
          BY <3>1, <4>1, <4>2
      <3> QED
        BY <1>1, <2>2, <3>1, <3>2, <3>3 DEF TakenAt
    <2>6. CASE EndCall
      <3>1. pc = "tail" /\ pc' = "idle" /\ inWordState' = inWord /\ total' = total + count
        BY <2>6 DEF EndCall
      <3>2. total + count = WordsIn(o) /\ inWord = InWordAt(o) /\ ~Reaches(o, 0)
        BY <2>1, <3>1 DEF TakenAt
      <3> QED
        BY <1>1, <2>2, <3>1, <3>2 DEF TakenAt
    <2> QED
      BY <2>4, <2>5, <2>6
  <1>7. /\ total' \in Nat /\ inWordState' \in BOOLEAN /\ inWord' \in BOOLEAN
        /\ pc' = "idle" => offset = end
    <2>1. CASE EndWordBlocks
      BY <1>1, <2>1, WordsAre DEF EndWordBlocks
    <2>2. CASE EndSkip
      BY <1>1, <2>2, WordsAre DEF EndSkip
    <2>3. CASE EndCall
      <3>1. total' = total + count /\ inWordState' = inWord /\ inWord' = inWord /\ offset = end
        BY <2>3 DEF EndCall
      <3> QED
        BY <3>1, WordsAre
    <2> QED
      BY <2>1, <2>2, <2>3
  <1>8. /\ count' \in Nat /\ end' \in 0..Len(text) /\ cut' \in BOOLEAN /\ carry' \in BOOLEAN
    BY <1>1, WordsAre
  <1>9. ~cut' => ~Reaches(e, 0)
    BY <1>1, <1>4, WordsAre
  <1>10. o = offset' /\ o <= end' /\ e = end' /\ pc' \in {"idle", "blocks", "skip", "tail"}
         /\ (pc' = "idle" => o = end')
    BY <1>1, <1>2, <1>4, <1>7
  <1> QED
    BY <1>5, <1>6, <1>7, <1>8, <1>9, <1>10, WordsFrame

(* No word begins in white space.                                          *)
LEMMA NoWordInSpace ==
  ASSUME NEW p \in Nat, NEW m \in Nat, \A i \in 0..(m - 1) : IsSpace(p + i + 1)
  PROVE  WordsIn(p + m) = WordsIn(p)
  <1>1. {i \in 0..(m - 1) : WordBegins(p + i + 1)} = {}
    BY DEF WordBegins
  <1>2. /\ WordsIn(p) \in Nat
        /\ WordsIn(p + m) = WordsIn(p) + Cardinality({i \in 0..(m - 1) : WordBegins(p + i + 1)})
    BY WordsAdd
  <1> QED
    BY <1>1, <1>2, FS_EmptySet

LEMMA SkipKeeps ==
  ASSUME InvWords, function = "words", Skip
  PROVE  InvWords'
  <1>1. /\ pc = "skip" /\ pc' = "skip" /\ spill # {} /\ offset < end
        /\ spill' = {i - 1 : i \in spill \ {0}} /\ inWord' = FALSE /\ offset' = offset + 1
        /\ UNCHANGED <<text, unicode, inWordState, total, cut, end, carry, count>>
    BY DEF Skip, textVars
  <1>2. PICK o \in Nat : o = offset
    BY WordsAre
  <1>3. PICK l \in Nat : l = Len(text)
    BY WordsAre DEF WordsTyped
  <1>4. PICK e \in Nat : e = end /\ o < e
    BY <1>1, <1>2, WordsAre
  <1>5. WordNext
    BY DEF WordNext
  <1>6. ASSUME ~cut' PROVE TakenAt(o + 1)'
    <2>1. TakenAt(o)
      BY <1>1, <1>2, <1>6, WordsAre
    <2>2. spill = {i \in 0..Len(text) : Reaches(o, i)} /\ total + count = WordsIn(o)
      BY <1>1, <2>1 DEF TakenAt
    <2>3. Reaches(o, 0) /\ \A m : ~White(o, m)
      <3>1. PICK i \in 0..Len(text) : Reaches(o, i)
        BY <1>1, <2>2
      <3>2. i \in Nat
        BY <1>3
      <3> QED
        BY <3>1, <3>2, WordsAre, ReachAlone
    <2>4. IsSpace(o + 1)
      <3>1. IsSpace(o + 0 + 1)
        BY <2>3, WordsAre, SpaceAfter
      <3> QED
        BY <3>1
    <2>5. WordsIn(o + 1) = WordsIn(o)
      BY <2>4, WordsOne DEF WordBegins
    <2>6. InWordAt(o + 1) = FALSE
      BY <2>4 DEF InWordAt
    <2>7. ASSUME NEW i \in Nat PROVE Reaches(o + 1, i) <=> Reaches(o, i + 1)
      <3>1. Reaches(o + 1, i) <=>
              \/ Reaches(o, 1 + i)
              \/ \E j \in 0..(1 - 1) : \E m \in 1..3 : White(o + j, m) /\ 1 + i < j + m
        BY WordsAre, ReachAfter
      <3>2. \A j \in 0..(1 - 1) : o + j = o
        OBVIOUS
      <3>3. \A j \in 0..(1 - 1) : \A m : ~White(o + j, m)
        BY <2>3, <3>2
      <3>4. 1 + i = i + 1
        OBVIOUS
      <3> QED
        BY <3>1, <3>3, <3>4
    <2>8. spill' = {i \in 0..Len(text) : Reaches(o + 1, i)}
      <3>1. ASSUME NEW i \in spill \ {0}
            PROVE  i - 1 \in 0..Len(text) /\ Reaches(o + 1, i - 1)
        <4>1. i \in 0..Len(text) /\ i # 0 /\ Reaches(o, i)
          BY <2>2
        <4>2. i - 1 \in Nat /\ i - 1 \in 0..Len(text) /\ (i - 1) + 1 = i
          BY <1>3, <4>1
        <4> QED
          BY <2>7, <4>1, <4>2
      <3>2. ASSUME NEW k \in 0..Len(text), Reaches(o + 1, k)
            PROVE  \E i \in spill \ {0} : k = i - 1
        <4>1. k \in Nat /\ k + 1 \in Nat /\ k + 1 # 0 /\ k = (k + 1) - 1
          BY <1>3
        <4>2. Reaches(o, k + 1)
          BY <2>7, <3>2, <4>1
        <4>3. k + 1 \in 0..Len(text)
          BY <4>1, <4>2, WordsAre, ReachAlone
        <4>4. k + 1 \in spill \ {0}
          BY <2>2, <4>1, <4>2, <4>3
        <4> QED
          BY <4>1, <4>4
      <3> QED
        BY <1>1, <3>1, <3>2
    <2>9. /\ WordsIn(o + 1)' = WordsIn(o + 1) /\ InWordAt(o + 1)' = InWordAt(o + 1)
          /\ \A i : Reaches(o + 1, i)' = Reaches(o + 1, i)
      BY <1>1, SameWords
    <2> QED
      BY <1>1, <2>2, <2>5, <2>6, <2>8, <2>9 DEF TakenAt
  <1>7. /\ total' \in Nat /\ count' \in Nat /\ end' \in 0..Len(text)
        /\ cut' \in BOOLEAN /\ inWordState' \in BOOLEAN /\ carry' \in BOOLEAN /\ inWord' \in BOOLEAN
    BY <1>1, WordsAre
  <1>8. ~cut' => ~Reaches(e, 0)
    BY <1>1, <1>4, WordsAre
  <1>9. o + 1 = offset' /\ o + 1 <= end' /\ e = end' /\ pc' # "idle"
        /\ pc' \in {"idle", "blocks", "skip", "tail"}
    BY <1>1, <1>2, <1>4
  <1> QED
    BY <1>5, <1>6, <1>7, <1>8, <1>9, WordsFrame

LEMMA TailSpaceKeeps ==
  ASSUME InvWords, function = "words", TailSpace
  PROVE  InvWords'
  <1>1. /\ pc = "tail" /\ pc' = "tail" /\ inWord' = FALSE
        /\ UNCHANGED <<text, unicode, inWordState, total, cut, end, carry, spill, count>>
    BY DEF TailSpace, textVars
  <1>2. PICK o \in Nat : o = offset
    BY WordsAre
  <1>3. PICK l \in Nat : l = Len(text)
    BY WordsAre DEF WordsTyped
  <1>4. PICK e \in Nat : e = end /\ o <= e /\ e <= l
    BY <1>2, <1>3, WordsAre
  <1>5. WordNext
    BY DEF WordNext
  <1>6. PICK s \in SpacesAt(o, e) : offset' = o + Len(s)
    BY <1>2, <1>4 DEF TailSpace
  <1>7. Len(s) \in 1..3 /\ o + Len(s) <= e
    BY <1>6, WordsAre, SpaceIs
  <1>m. PICK m \in 1..3 : m = Len(s)
    BY <1>7
  <1>8. m = Len(s) /\ m \in Nat /\ o + m <= e /\ o < e
    BY <1>7, <1>m
  <1>9. PICK q \in Nat : q = o + m
    BY <1>8
  <1>10. ASSUME ~cut' PROVE TakenAt(q)'
    <2>1. TakenAt(o) /\ ~Reaches(e, 0)
      BY <1>1, <1>2, <1>4, <1>10, WordsAre
    <2>2. total + count = WordsIn(o) /\ ~Reaches(o, 0)
      BY <1>1, <2>1 DEF TakenAt
    <2>3. White(o, m)
      BY <1>3, <1>4, <1>6, <1>8, <2>1, WordsAre, WhiteInCall
    <2>4. \A i \in 0..(m - 1) : IsSpace(o + i + 1)
      <3> SUFFICES ASSUME NEW i \in 0..(m - 1) PROVE IsSpace(o + i + 1)
        OBVIOUS
      <3>1. 0 \in 0..i /\ i < 0 + m /\ i \in Nat /\ o + 0 = o
        BY <1>8
      <3>2. \E j \in 0..i : \E k \in 1..3 : White(o + j, k) /\ i < j + k
        BY <2>3, <3>1
      <3> QED
        BY <3>1, <3>2, WordsAre, SpaceAfter
    <2>5. WordsIn(q) = WordsIn(o)
      BY <1>8, <1>9, <2>4, NoWordInSpace
    <2>6. InWordAt(q) = FALSE
      <3>1. m - 1 \in 0..(m - 1) /\ o + (m - 1) + 1 = q
        BY <1>8, <1>9
      <3> QED
        BY <2>4, <3>1 DEF InWordAt
    <2>7. ~Reaches(q, 0)
      <3> SUFFICES ASSUME Reaches(o + m, 0) PROVE FALSE
        BY <1>9
      <3>1. m \in Nat /\ m + 0 = m
        BY <1>8
      <3>2. ~Reaches(o, m)
        BY <2>2, <3>1, WordsAre, ReachAlone
      <3>6. Reaches(o + m, 0) <=>
              \/ Reaches(o, m + 0)
              \/ \E j \in 0..(m - 1) : \E k \in 1..3 : White(o + j, k) /\ m + 0 < j + k
        BY <3>1, WordsAre, ReachAfter
      <3>3. PICK j \in 0..(m - 1), k \in 1..3 : White(o + j, k) /\ m + 0 < j + k
        BY <3>1, <3>2, <3>6
      <3>4. o + j \in Nat /\ o <= o + j /\ o + j < o + m
        BY <1>8
      <3>5. o = o + j /\ m = k
        BY <2>3, <3>3, <3>4, WordsAre, WhiteAlone
      <3> QED
        BY <3>3, <3>5
    <2>8. /\ WordsIn(q)' = WordsIn(q) /\ InWordAt(q)' = InWordAt(q)
          /\ \A i : Reaches(q, i)' = Reaches(q, i)
      BY <1>1, SameWords
    <2> QED
      BY <1>1, <2>2, <2>5, <2>6, <2>7, <2>8 DEF TakenAt
  <1>11. /\ total' \in Nat /\ count' \in Nat /\ end' \in 0..Len(text)
         /\ cut' \in BOOLEAN /\ inWordState' \in BOOLEAN /\ carry' \in BOOLEAN /\ inWord' \in BOOLEAN
    BY <1>1, WordsAre
  <1>12. ~cut' => ~Reaches(e, 0)
    BY <1>1, <1>4, WordsAre
  <1>13. q = offset' /\ q <= end' /\ e = end' /\ pc' # "idle"
         /\ pc' \in {"idle", "blocks", "skip", "tail"}
    BY <1>1, <1>4, <1>6, <1>8, <1>9
  <1> QED
    BY <1>5, <1>10, <1>11, <1>12, <1>13, WordsFrame

LEMMA TailWordKeeps ==
  ASSUME InvWords, function = "words", TailWord
  PROVE  InvWords'
  <1>1. /\ pc = "tail" /\ pc' = "tail" /\ inWord' = TRUE /\ offset < end /\ offset' = offset + 1
        /\ SpacesAt(offset, end) = {} /\ count' = IF inWord THEN count ELSE count + 1
        /\ UNCHANGED <<text, unicode, inWordState, total, cut, end, carry, spill>>
    BY DEF TailWord, textVars
  <1>2. PICK o \in Nat : o = offset
    BY WordsAre
  <1>3. PICK l \in Nat : l = Len(text)
    BY WordsAre DEF WordsTyped
  <1>4. PICK e \in Nat : e = end /\ o < e /\ e <= l
    BY <1>1, <1>2, <1>3, WordsAre
  <1>5. WordNext
    BY DEF WordNext
  <1>6. ASSUME ~cut' PROVE TakenAt(o + 1)'
    <2>1. TakenAt(o) /\ ~Reaches(e, 0)
      BY <1>1, <1>2, <1>4, <1>6, WordsAre
    <2>2. total + count = WordsIn(o) /\ inWord = InWordAt(o) /\ ~Reaches(o, 0)
      BY <1>1, <2>1 DEF TakenAt
    <2>3. \A m \in 1..3 : ~White(o, m)
      BY <1>1, <1>2, <1>3, <1>4, <2>1, WordsAre, WhiteInCall
    <2>4. \A j \in 0..0 : \A m \in 1..3 : ~White(o + j, m)
      <3>1. \A j \in 0..0 : o + j = o
        OBVIOUS
      <3> QED
        BY <2>3, <3>1
    <2>5. ~IsSpace(o + 1)
      <3>1. ~IsSpace(o + 0 + 1)
        BY <2>2, <2>4, WordsAre, SpaceAfter
      <3> QED
        BY <3>1
    <2>6. ~Reaches(o + 1, 0)
      <3>1. ~Reaches(o, 1 + 0)
        BY <2>2, WordsAre, ReachAlone
      <3>2. 1 - 1 = 0
        OBVIOUS
      <3> QED
        BY <2>4, <3>1, <3>2, WordsAre, ReachAfter
    <2>7. InWordAt(o + 1) = TRUE
      <3>1. o + 1 > 0
        OBVIOUS
      <3> QED
        BY <2>5, <3>1 DEF InWordAt
    <2>8. total' + count' = WordsIn(o + 1)
      <3>1. WordBegins(o + 1) <=> ~inWord
        <4>1. (o + 1 = 1 <=> ~(o > 0)) /\ (o + 1) - 1 = o
          OBVIOUS
        <4> QED
          BY <2>2, <2>5, <4>1 DEF WordBegins, InWordAt
      <3>2. WordsIn(o + 1) = IF inWord THEN WordsIn(o) ELSE WordsIn(o) + 1
        BY <3>1, WordsOne
      <3>3. total' = total /\ total \in Nat /\ count \in Nat
        BY <1>1, WordsAre
      <3>4. CASE inWord
        BY <1>1, <2>2, <3>2, <3>3, <3>4
      <3>5. CASE ~inWord
        BY <1>1, <2>2, <3>2, <3>3, <3>5
      <3> QED
        BY <3>4, <3>5
    <2>9. /\ WordsIn(o + 1)' = WordsIn(o + 1) /\ InWordAt(o + 1)' = InWordAt(o + 1)
          /\ \A i : Reaches(o + 1, i)' = Reaches(o + 1, i)
      BY <1>1, SameWords
    <2> QED
      BY <1>1, <2>6, <2>7, <2>8, <2>9 DEF TakenAt
  <1>7. /\ total' \in Nat /\ count' \in Nat /\ end' \in 0..Len(text)
        /\ cut' \in BOOLEAN /\ inWordState' \in BOOLEAN /\ carry' \in BOOLEAN /\ inWord' \in BOOLEAN
    <2>1. count' \in Nat
      BY <1>1, WordsAre
    <2> QED
      BY <1>1, <2>1, WordsAre
  <1>8. ~cut' => ~Reaches(e, 0)
    BY <1>1, <1>4, WordsAre
  <1>9. o + 1 = offset' /\ o + 1 <= end' /\ e = end' /\ pc' # "idle"
        /\ pc' \in {"idle", "blocks", "skip", "tail"}
    BY <1>1, <1>2, <1>4
  <1> QED
    BY <1>5, <1>6, <1>7, <1>8, <1>9, WordsFrame

(* Every step of counting words keeps its part of the invariant.           *)
LEMMA WordsKeep ==
  ASSUME InvWords, function = "words", WordNext
  PROVE  InvWords'
  BY StartCallKeeps, WordBlockKeeps, WordPhaseKeeps, SkipKeeps, TailSpaceKeeps, TailWordKeeps
     DEF WordNext

(* No call has begun at first.                                             *)
LEMMA WordsBegin == WordInit => InvWords
  <1> SUFFICES ASSUME WordInit PROVE InvWords
    OBVIOUS
  <1>1. /\ text \in Seq(Bytes) /\ unicode \in BOOLEAN /\ Len(text) \in Nat
        /\ offset = 0 /\ end = 0 /\ total = 0 /\ pc = "idle" /\ inWordState = FALSE
    BY WordsAssumption, LenProperties DEF WordInit, WordsAssumption
  <1>2. WordsIn(0) = 0
    <2>1. {p \in 1..0 : ~IsSpace(p) /\ (p = 1 \/ IsSpace(p - 1))} = {}
      OBVIOUS
    <2> QED
      BY <2>1, FS_EmptySet DEF WordsIn
  <1>3. InWordAt(0) = FALSE
    BY DEF InWordAt
  <1>4. ~Reaches(0, 0)
    BY DEF Reaches
  <1>5. InvTaken
    BY <1>1, <1>2, <1>3, <1>4 DEF InvTaken
  <1>6. /\ inWordState \in BOOLEAN /\ cut \in BOOLEAN /\ carry \in BOOLEAN /\ inWord \in BOOLEAN
        /\ count = 0
    BY DEF WordInit
  <1>7. end \in 0..Len(text) /\ offset \in 0..end
    BY <1>1
  <1>8. ~Reaches(end, 0)
    BY <1>1, <1>4
  <1> QED
    BY <1>1, <1>5, <1>6, <1>7, <1>8 DEF InvWords

(* Between calls all words of the bytes taken are counted.                 *)
LEMMA EveryWordIn == InvWords => WordsCounted
  BY DEF InvWords, InvTaken, InWordAt, WordsCounted

-----------------------------------------------------------------------------
(* The functions together.                                                 *)

LEMMA CountBegins == Init => IInv
  <1>1. ByteInit => function = "byte"
    BY DEF ByteInit
  <1>2. LineInit => function = "lines"
    BY DEF LineInit
  <1>3. WordInit => function = "words"
    BY DEF WordInit
  <1>4. function # "byte" => InvByte
    BY DEF InvByte
  <1>5. function # "lines" => InvLines
    BY DEF InvLines
  <1>6. function # "words" => InvWords
    BY DEF InvWords
  <1> QED
    BY <1>1, <1>2, <1>3, <1>4, <1>5, <1>6, ByteBegins, LinesBegin, WordsBegin DEF Init, IInv

(* Nothing is lost when nothing happens.                                   *)
LEMMA ByteStays ==
  ASSUME InvByte, UNCHANGED <<function, text, pc, offset, count>>,
         UNCHANGED <<kernel, iterations, lane>>
  PROVE  InvByte'
  <1>1. HitsBefore(offset)' = HitsBefore(offset)
    BY DEF HitsBefore, Hit
  <1>2. StepBytes' = StepBytes
    BY DEF StepBytes, VectorBytes
  <1>3. Lanes' = Lanes /\ LaneSum' = LaneSum
    BY DEF LaneSum, Lanes
  <1> QED
    BY <1>1, <1>2, <1>3 DEF InvByte

LEMMA LinesStay ==
  ASSUME InvLines, UNCHANGED <<function, text, pc, offset, count>>,
         UNCHANGED <<pattern, newlines, candidates, lineHasMatch>>
  PROVE  InvLines'
  <1>1. /\ LinesWithPattern' = LinesWithPattern /\ Starts' = Starts /\ Limit' = Limit
        /\ \A p : LineOf(p)' = LineOf(p)
    BY SameLines
  <1>2. \A r : CountedTo(r)' <=> CountedTo(r)
    BY <1>1 DEF CountedTo
  <1>3. CountedTo(offset)' <=> CountedTo(offset)
    BY <1>1 DEF CountedTo, LineOf
  <1>4. Positions(Newline)' = Positions(Newline) /\ Positions(Head(pattern))' = Positions(Head(pattern))
    BY DEF Positions
  <1> QED
    BY <1>1, <1>2, <1>3, <1>4 DEF InvLines, LinesCounted

LEMMA WordsStay ==
  ASSUME InvWords, UNCHANGED <<function, text, pc, offset, count>>,
         UNCHANGED <<unicode, inWordState, total, cut, end, carry, spill, inWord>>
  PROVE  InvWords'
  <1>1. InvTaken' <=> InvTaken
    BY DEF InvTaken, WordsIn, InWordAt, IsSpace, Reaches, SpacesAt
  <1>2. Reaches(end, 0)' <=> Reaches(end, 0)
    BY DEF Reaches, SpacesAt
  <1> QED
    BY <1>1, <1>2 DEF InvWords

LEMMA CountSteps == IInv /\ [Next]_vars => IInv'
  <1> SUFFICES ASSUME IInv, [Next]_vars PROVE IInv'
    OBVIOUS
  <1>1. /\ function' # "byte" => InvByte'
        /\ function' # "lines" => InvLines'
        /\ function' # "words" => InvWords'
    BY DEF InvByte, InvLines, InvWords
  <1>2. CASE function = "byte" /\ ByteNext
    <2>1. function' = "byte"
      BY <1>2 DEF ByteNext, Unchanged, StartBatch, BatchStep, EndBatch, MaskStep, EndSteps,
                  VectorStep, EndVectors, TailStep, EndBytes
    <2> QED
      BY <1>1, <1>2, <2>1, ByteKeeps DEF IInv
  <1>3. CASE function = "lines" /\ LineNext
    BY <1>1, <1>3, LinesSame, LinesKeep DEF IInv
  <1>4. CASE function = "words" /\ WordNext
    <2>1. function' = "words"
      BY <1>4 DEF WordNext, StartCall, WordBlock, EndWordBlocks, Skip, EndSkip, TailSpace,
                  TailWord, EndCall, textVars
    <2> QED
      BY <1>1, <1>4, <2>1, WordsKeep DEF IInv
  <1>5. CASE UNCHANGED vars
    <2>1. /\ UNCHANGED <<function, text, pc, offset, count>>
          /\ UNCHANGED <<kernel, iterations, lane>>
          /\ UNCHANGED <<pattern, newlines, candidates, lineHasMatch>>
          /\ UNCHANGED <<unicode, inWordState, total, cut, end, carry, spill, inWord>>
      BY <1>5 DEF vars, byteVars, lineVars, wordVars
    <2>2. InvByte'
      BY <2>1, ByteStays DEF IInv
    <2>3. InvLines'
      BY <2>1, LinesStay DEF IInv
    <2>4. InvWords'
      BY <2>1, WordsStay DEF IInv
    <2> QED
      BY <2>2, <2>3, <2>4 DEF IInv
  <1> QED
    BY <1>2, <1>3, <1>4, <1>5 DEF Next

(* The three parts of the invariant hold side by side.                     *)
THEOREM Inductive == Spec => []IInv
  BY CountBegins, CountSteps, PTL DEF Spec

(* Every occurrence of a byte, or of a byte of a set, is counted once      *)
(* (bc_core_count_byte, bc_core_count_matching), for vectors of any width  *)
(* and lanes of any size.                                                  *)
THEOREM HitsCounted == Spec => []EveryHitCounted
  <1>1. IInv => EveryHitCounted
    BY EveryHitIn DEF IInv
  <1> QED
    BY <1>1, Inductive, PTL

(* Every line in which a pattern starts is counted once                    *)
(* (bc_core_count_lines_with_pattern), wherever the blocks fall.           *)
THEOREM LinesAreCounted == Spec => []LinesCounted
  <1>1. IInv => LinesCounted
    BY DEF IInv, InvLines, LinesCounted
  <1> QED
    BY <1>1, Inductive, PTL

(* The counts of the calls add up to the words of the text                 *)
(* (bc_core_count_words), wherever the calls and the blocks cut it, unless *)
(* a call ends inside white space of several bytes.                        *)
THEOREM WordsAreCounted == Spec => []WordsCounted
  <1>1. IInv => WordsCounted
    BY EveryWordIn DEF IInv
  <1> QED
    BY <1>1, Inductive, PTL
=============================================================================
