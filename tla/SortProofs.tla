----------------------------- MODULE SortProofs -----------------------------
(***************************************************************************)
(* What bc_core_sort_with_compare guarantees for any number of elements,   *)
(* any threshold and any depth limit, with an honest comparison and with   *)
(* one that answers anything at all.                                       *)
(***************************************************************************)
EXTENDS Sort, FiniteSetTheorems, SequenceTheorems, WellFoundedInduction, TLAPS

(* A set of numbers that is not empty has a least one: what an induction   *)
(* over the offsets of a heap comes to.                                    *)
LEMMA LeastNat ==
  ASSUME NEW T \in SUBSET Nat, T # {}
  PROVE  \E x \in T : \A y \in T : x <= y
  <1> DEFINE Less == {p \in Nat \X Nat : p[1] < p[2]}
  <1>1. IsWellFoundedOn(Less, Nat)
    BY NatLessThanWellFounded DEF OpToRel
  <1>2. \E x \in T : \A y \in T : ~ (<<y, x>> \in Less)
    <2> HIDE DEF Less
    <2> QED
      BY <1>1, WFMin
  <1>3. PICK x \in T : \A y \in T : <<y, x>> \notin Less
    BY <1>2
  <1>4. ASSUME NEW y \in T PROVE x <= y
    <2>1. <<y, x>> \notin Less
      BY <1>3
    <2> QED
      BY <2>1
  <1> QED
    BY <1>4

(* The powers of 2 count the subsets of an interval.                       *)
LEMMA PowerDoubles ==
  ASSUME NEW n \in Nat
  PROVE  2 ^ n \in Nat \ {0} /\ 2 ^ (n + 1) = 2 * 2 ^ n
  <1> DEFINE A == SUBSET (1..n)
             f == [S \in A |-> S \cup {n + 1}]
             C == {f[S] : S \in A}
  <1>1. /\ IsFiniteSet(1..n) /\ Cardinality(1..n) = n
        /\ IsFiniteSet(1..(n + 1)) /\ Cardinality(1..(n + 1)) = n + 1
    BY FS_Interval
  <1>2. IsFiniteSet(A) /\ Cardinality(A) = 2 ^ n
    BY <1>1, FS_SUBSET
  <1>3. Cardinality(SUBSET (1..(n + 1))) = 2 ^ (n + 1)
    BY <1>1, FS_SUBSET
  <1>4. f \in Bijection(A, C)
    <2>1. \A S \in A : n + 1 \notin S
      OBVIOUS
    <2>2. ASSUME NEW S \in A, NEW T \in A, f[S] = f[T] PROVE S = T
      <3>1. S \cup {n + 1} = T \cup {n + 1} /\ n + 1 \notin S /\ n + 1 \notin T
        BY <2>1, <2>2
      <3> QED
        BY <3>1
    <2>3. f \in [A -> C] /\ \A y \in C : \E S \in A : f[S] = y
      OBVIOUS
    <2> HIDE DEF A, C, f
    <2> QED
      BY <2>2, <2>3 DEF Bijection, Injection, IsInjective, Surjection
  <1>5. IsFiniteSet(C) /\ Cardinality(C) = 2 ^ n
    <2> HIDE DEF A, C, f
    <2>1. ExistsBijection(A, C)
      BY <1>4 DEF ExistsBijection
    <2> QED
      BY <1>2, <2>1, FS_Bijection
  <1>6. A \cap C = {}
    <2> SUFFICES ASSUME NEW S \in A, S \in C PROVE FALSE
      OBVIOUS
    <2>1. n + 1 \in S
      OBVIOUS
    <2> QED
      BY <2>1
  <1>7. SUBSET (1..(n + 1)) = A \cup C
    <2>1. ASSUME NEW S \in SUBSET (1..(n + 1)), n + 1 \in S PROVE S \in C
      <3>1. S \ {n + 1} \in A
        OBVIOUS
      <3>2. f[S \ {n + 1}] = S
        BY <2>1, <3>1
      <3> QED
        BY <3>1, <3>2
    <2>2. ASSUME NEW S \in SUBSET (1..(n + 1)), n + 1 \notin S PROVE S \in A
      BY <2>2
    <2>3. A \cup C \subseteq SUBSET (1..(n + 1))
      <3>1. \A S \in A : S \subseteq 1..(n + 1) /\ S \cup {n + 1} \subseteq 1..(n + 1)
        OBVIOUS
      <3>2. \A T \in C : T \subseteq 1..(n + 1)
        BY <3>1
      <3> HIDE DEF C
      <3> QED
        BY <3>1, <3>2
    <2> HIDE DEF A, C
    <2> QED
      BY <2>1, <2>2, <2>3
  <1>8. Cardinality(A \cup C) = 2 ^ n + 2 ^ n
    <2> HIDE DEF A, C, f
    <2>1. Cardinality(A \cup C) = Cardinality(A) + Cardinality(C) - Cardinality(A \cap C)
      BY <1>2, <1>5, FS_Union
    <2>2. Cardinality(A \cap C) = 0 /\ Cardinality(A) \in Nat
      BY <1>2, <1>6, FS_EmptySet, FS_CardinalityType
    <2> QED
      BY <1>2, <1>5, <2>1, <2>2
  <1>9. 2 ^ n \in Nat /\ 2 ^ n # 0
    <2>1. {} \in A
      OBVIOUS
    <2> HIDE DEF A
    <2> QED
      BY <1>2, <2>1, FS_CardinalityType, FS_EmptySet
  <1>10. 2 ^ (n + 1) = 2 ^ n + 2 ^ n
    <2> HIDE DEF A, C, f
    <2> QED
      BY <1>3, <1>7, <1>8
  <1> QED
    BY <1>9, <1>10

LEMMA PowerGrows ==
  ASSUME NEW m \in Nat, NEW n \in Nat, m <= n
  PROVE  2 ^ m <= 2 ^ n
  <1>1. IsFiniteSet(1..m) /\ Cardinality(1..m) = m /\ IsFiniteSet(1..n) /\ Cardinality(1..n) = n
    BY FS_Interval
  <1>2. SUBSET (1..m) \subseteq SUBSET (1..n)
    OBVIOUS
  <1>3. Cardinality(SUBSET (1..m)) = 2 ^ m /\ Cardinality(SUBSET (1..n)) = 2 ^ n
        /\ IsFiniteSet(SUBSET (1..n))
    BY <1>1, FS_SUBSET
  <1> QED
    BY <1>2, <1>3, FS_Subset

LEMMA PowerExceeds ==
  ASSUME NEW n \in Nat
  PROVE  n < 2 ^ n
  <1> DEFINE T == {m \in Nat : ~(m < 2 ^ m)}
  <1>1. ASSUME T # {} PROVE FALSE
    <2>1. PICK m \in T : \A k \in T : m <= k
      <3>1. T \in SUBSET Nat
        OBVIOUS
      <3> HIDE DEF T
      <3> QED
        BY <1>1, <3>1, LeastNat
    <2>2. m \in Nat /\ ~(m < 2 ^ m) /\ 2 ^ m \in Nat \ {0}
      BY PowerDoubles
    <2>3. m - 1 \in Nat /\ (m - 1) + 1 = m
      BY <2>2
    <2>4. m - 1 < 2 ^ (m - 1)
      BY <2>1, <2>3
    <2>5. 2 ^ m = 2 * 2 ^ (m - 1) /\ 2 ^ (m - 1) \in Nat
      BY <2>3, PowerDoubles
    <2> QED
      BY <2>2, <2>3, <2>4, <2>5
  <1> QED
    BY <1>1

LEMMA LogType ==
  ASSUME NEW n \in Nat
  PROVE  Log2Floor(n) \in Nat
  <1>1. IsFiniteSet(1..n) /\ {k \in 1..n : 2 ^ k <= n} \subseteq 1..n
    BY FS_Interval
  <1> QED
    BY <1>1, FS_Subset, FS_CardinalityType DEF Log2Floor

(* What can be halved m times has a logarithm of m or more.                *)
LEMMA LogBound ==
  ASSUME NEW n \in Nat, NEW m \in Nat, 2 ^ m <= n
  PROVE  m <= Log2Floor(n)
  <1> DEFINE Halvings == {k \in 1..n : 2 ^ k <= n}
  <1>1. IsFiniteSet(1..n) /\ IsFiniteSet(1..m) /\ Cardinality(1..m) = m
    BY FS_Interval
  <1>2. IsFiniteSet(Halvings)
    <2>1. Halvings \subseteq 1..n
      OBVIOUS
    <2> HIDE DEF Halvings
    <2> QED
      BY <1>1, <2>1, FS_Subset
  <1>3. ASSUME NEW k \in 1..m PROVE k \in Halvings
    <2>1. k \in Nat /\ 2 ^ k <= 2 ^ m /\ k < 2 ^ k
      BY PowerGrows, PowerExceeds
    <2>2. 2 ^ k \in Nat /\ 2 ^ m \in Nat
      BY <2>1, PowerDoubles
    <2> QED
      BY <2>1, <2>2
  <1>4. 1..m \subseteq Halvings
    BY <1>3
  <1> HIDE DEF Halvings
  <1>5. m <= Cardinality(Halvings)
    BY <1>1, <1>2, <1>4, FS_Subset
  <1> QED
    BY <1>5 DEF Log2Floor, Halvings

-----------------------------------------------------------------------------
(* The places of the running frame.                                        *)
LEMMA Places ==
  ASSUME TypeOK
  PROVE  /\ size \in Nat /\ frame.base \in Nat /\ frame.count \in Nat
         /\ frame.base + frame.count <= size
         /\ \A x \in 0..Last : frame.base + x \in Indices
         /\ \A n \in DOMAIN stack : FrameOK(stack[n])
         /\ i \in Nat /\ j \in Nat /\ end \in Nat /\ Last \in Int
  <1>1. /\ size \in Nat /\ frame.base \in Nat /\ frame.count \in Nat
        /\ frame.base + frame.count <= size
    BY DEF TypeOK, FrameOK
  <1>2. Last \in Int /\ \A x \in 0..Last : frame.base + x \in Indices
    BY <1>1 DEF Last, Indices
  <1> QED
    BY <1>1, <1>2 DEF TypeOK

(* Honest keys are numbers.                                                *)
LEMMA KeysAreNumbers ==
  ASSUME TypeOK, comparison = "honest"
  PROVE  /\ \A x \in Indices : KeyAt(x) \in Int
         /\ \A x \in 0..Last : At(x) \in Int
  <1>1. \A x \in Indices : KeyAt(x) \in Int
    BY SortAssumption DEF TypeOK, KeyAt
  <1> QED
    BY <1>1, Places DEF At

(* Two elements of the frame that change places.                           *)
LEMMA SwapFacts ==
  ASSUME TypeOK, NEW a \in 0..Last, NEW b \in 0..Last, array' = Swapped(array, a, b)
  PROVE  /\ array' \in [Indices -> Indices]
         /\ array'[frame.base + a] = array[frame.base + b]
         /\ array'[frame.base + b] = array[frame.base + a]
         /\ \A x \in Indices : x # frame.base + a /\ x # frame.base + b => array'[x] = array[x]
         /\ Permutation => \A x, y \in Indices : x # y => array'[x] # array'[y]
  <1> DEFINE p == frame.base + a
             q == frame.base + b
  <1>1. p \in Indices /\ q \in Indices /\ array \in [Indices -> Indices]
    BY Places DEF TypeOK
  <1>2. array' = [array EXCEPT ![p] = array[q], ![q] = array[p]]
    BY DEF Swapped
  <1> HIDE DEF p, q
  <1>3. /\ array' \in [Indices -> Indices]
        /\ array'[p] = array[q] /\ array'[q] = array[p]
        /\ \A x \in Indices : x # p /\ x # q => array'[x] = array[x]
    BY <1>1, <1>2
  <1>4. ASSUME Permutation, NEW x \in Indices, NEW y \in Indices, x # y
        PROVE  array'[x] # array'[y]
    BY <1>1, <1>3, <1>4 DEF Permutation
  <1> QED
    BY <1>3, <1>4 DEF p, q

(* What a step within the frame leaves alone.                              *)
Within == /\ frame' \in [base : {frame.base}, count : {frame.count}, depth : Nat]
          /\ UNCHANGED <<size, comparison, key, stack>>
          /\ pc # "done" /\ pc' # "done"

LEMMA WithinKeeps ==
  ASSUME IInv, Within, array' \in [Indices -> Indices],
         i' \in Nat, j' \in Nat, end' \in Nat,
         pc' \in {"sort", "partition", "insert", "build", "sift"},
         pc' \in {"partition", "build", "sift"} => 2 <= frame.count
  PROVE  /\ TypeOK' /\ InvFrames' /\ InvDepth'
         /\ Indices' = Indices /\ Last' = Last
         /\ \A x, y : Together(x, y)' = Together(x, y)
         /\ \A x : KeyAt(x)' = key[array'[x]] /\ At(x)' = key[array'[frame.base + x]]
  <1>1. frame'.base = frame.base /\ frame'.count = frame.count /\ frame'.depth \in Nat
    BY DEF Within
  <1>2. Indices' = Indices /\ Last' = Last
    BY <1>1 DEF Indices, Last, Within
  <1>3. FrameOK(frame)' /\ (\A n \in DOMAIN stack : FrameOK(stack[n]))'
    <2>1. size' = size /\ stack' = stack
      BY DEF Within
    <2>2. TypeOK
      BY DEF IInv
    <2> QED
      BY <1>1, <2>1, <2>2 DEF TypeOK, FrameOK
  <1>4. TypeOK'
    <2>1. size' = size /\ comparison' = comparison /\ key' = key
      BY DEF Within
    <2>2. /\ size' \in Nat /\ comparison' \in {"honest", "arbitrary"}
          /\ key' \in [Indices' -> IF comparison' = "honest" THEN Keys ELSE {0}]
          /\ array' \in [Indices' -> Indices']
      BY <1>2, <2>1 DEF IInv, TypeOK
    <2> QED
      BY <1>3, <2>2 DEF TypeOK
  <1>5. InvFrames'
    BY <1>1 DEF IInv, InvFrames, Apart, Within
  <1>6. InvDepth'
    BY <1>1 DEF IInv, InvDepth, Within
  <1>7. \A x, y : Together(x, y)' = Together(x, y)
    BY <1>1 DEF Together, Inside, Within
  <1>8. \A x : KeyAt(x)' = key[array'[x]] /\ At(x)' = key[array'[frame.base + x]]
    BY <1>1 DEF KeyAt, At, Within
  <1> QED
    BY <1>2, <1>4, <1>5, <1>6, <1>7, <1>8

(* Two elements of the frame may change places: only what shares it is out *)
(* of order.                                                               *)
LEMMA SwapOrder ==
  ASSUME TypeOK, InvFrames, InvOrder, pc # "done", comparison = "honest",
         NEW a \in 0..Last, NEW b \in 0..Last, array' = Swapped(array, a, b),
         NEW x \in Indices, NEW y \in Indices, x < y, ~Together(x, y)
  PROVE  key[array'[x]] <= key[array'[y]]
  <1> DEFINE p == frame.base + a
             q == frame.base + b
  <1>1. /\ p \in Indices /\ q \in Indices
        /\ Inside(frame, p) /\ Inside(frame, q) /\ frame.base \in Nat /\ frame.count \in Nat
    BY Places DEF Inside, Last
  <1>2. /\ array'[p] = array[q] /\ array'[q] = array[p]
        /\ \A u \in Indices : u # p /\ u # q => array'[u] = array[u]
    BY SwapFacts
  <1> HIDE DEF p, q
  <1>3. ~(Inside(frame, x) /\ Inside(frame, y))
    BY DEF Together
  <1>4. \A u, v \in Indices : u < v /\ ~Together(u, v) => key[array[u]] <= key[array[v]]
    BY DEF InvOrder, KeyAt
  <1>5. \A u \in Indices : \A n \in DOMAIN stack :
          Inside(frame, u) => ~Inside(stack[n], u)
    <2> SUFFICES ASSUME NEW u \in Indices, NEW n \in DOMAIN stack, Inside(frame, u),
                        Inside(stack[n], u)
                 PROVE  FALSE
      OBVIOUS
    <2>1. Apart(frame, stack[n]) /\ stack[n].base \in Nat /\ stack[n].count \in Nat
      BY DEF InvFrames, TypeOK, FrameOK
    <2> QED
      BY <1>1, <2>1 DEF Apart, Inside, Indices
  <1>6. CASE Inside(frame, x)
    <2>1. array'[y] = array[y]
      BY <1>1, <1>2, <1>3, <1>6
    <2>2. PICK u \in Indices : Inside(frame, u) /\ array'[x] = array[u]
      BY <1>1, <1>2, <1>6
    <2>3. u < y
      <3>1. x \in Int /\ y \in Int /\ u \in Int
        BY DEF Indices, TypeOK
      <3> QED
        BY <1>1, <1>3, <1>6, <2>2, <3>1 DEF Inside
    <2>4. ~Together(u, y)
      BY <1>3, <1>5, <1>6, <2>2 DEF Together
    <2> QED
      BY <1>4, <2>1, <2>2, <2>3, <2>4
  <1>7. CASE Inside(frame, y)
    <2>1. array'[x] = array[x]
      BY <1>1, <1>2, <1>3, <1>7
    <2>2. PICK u \in Indices : Inside(frame, u) /\ array'[y] = array[u]
      BY <1>1, <1>2, <1>7
    <2>3. x < u
      <3>1. x \in Int /\ y \in Int /\ u \in Int
        BY DEF Indices, TypeOK
      <3> QED
        BY <1>1, <1>3, <1>7, <2>2, <3>1 DEF Inside
    <2>4. ~Together(x, u)
      BY <1>3, <1>5, <1>7, <2>2 DEF Together
    <2> QED
      BY <1>4, <2>1, <2>2, <2>3, <2>4
  <1>8. CASE ~Inside(frame, x) /\ ~Inside(frame, y)
    BY <1>1, <1>2, <1>3, <1>4, <1>8
  <1> QED
    BY <1>6, <1>7, <1>8

LEMMA SwapKeepsOrder ==
  ASSUME IInv, Within, NEW a \in 0..Last, NEW b \in 0..Last, array' = Swapped(array, a, b),
         Indices' = Indices, \A x, y : Together(x, y)' = Together(x, y),
         \A x : KeyAt(x)' = key[array'[x]]
  PROVE  InvOrder' /\ Permutation'
  <1>1. Permutation'
    BY SwapFacts DEF IInv, Permutation
  <1>2. InvOrder'
    BY SwapOrder DEF IInv, InvOrder, Within
  <1> QED
    BY <1>1, <1>2

LEMMA StillKeepsOrder ==
  ASSUME IInv, Within, array' = array,
         Indices' = Indices, \A x, y : Together(x, y)' = Together(x, y),
         \A x : KeyAt(x)' = key[array'[x]]
  PROVE  InvOrder' /\ Permutation'
  BY DEF IInv, InvOrder, Permutation, Within, KeyAt

(* The keys by offset after a step.                                        *)
New(x) == key[array'[frame.base + x]]

LEMMA SwapKeys ==
  ASSUME TypeOK, NEW a \in 0..Last, NEW b \in 0..Last, array' = Swapped(array, a, b)
  PROVE  /\ New(a) = At(b) /\ New(b) = At(a)
         /\ \A x \in 0..Last : x # a /\ x # b => New(x) = At(x)
  <1>1. New(a) = At(b) /\ New(b) = At(a)
    BY SwapFacts DEF New, At, KeyAt
  <1>2. ASSUME NEW x \in 0..Last, x # a, x # b
        PROVE  New(x) = At(x)
    <2>1. frame.base + x # frame.base + a /\ frame.base + x # frame.base + b
      BY <1>2, Places
    <2>2. frame.base + x \in Indices
      BY Places
    <2> QED
      BY <2>1, <2>2, SwapFacts DEF New, At, KeyAt
  <1> QED
    BY <1>1, <1>2

(* What every step within the frame keeps.                                 *)
LEMMA StepWithin ==
  ASSUME IInv, Within,
         array' = array \/ \E a, b \in 0..Last : array' = Swapped(array, a, b),
         i' \in Nat, j' \in Nat, end' \in Nat,
         pc' \in {"sort", "partition", "insert", "build", "sift"},
         pc' \in {"partition", "build", "sift"} => 2 <= frame.count,
         InvPartition', InvInsertion', InvHeap'
  PROVE  IInv'
  <1>1. array' \in [Indices -> Indices]
    BY SwapFacts DEF IInv, TypeOK
  <1>2. /\ TypeOK' /\ InvFrames' /\ InvDepth'
        /\ Indices' = Indices
        /\ \A x, y : Together(x, y)' = Together(x, y)
        /\ \A x : KeyAt(x)' = key[array'[x]]
    BY <1>1, WithinKeeps
  <1>3. InvOrder' /\ Permutation'
    BY <1>2, SwapKeepsOrder, StillKeepsOrder
  <1> QED
    BY <1>2, <1>3 DEF IInv

(* The frame is the same, but for its depth limit.                         *)
LEMMA SameFrame ==
  ASSUME IInv, Within
  PROVE  /\ Last' = Last /\ frame'.base = frame.base /\ frame'.count = frame.count
         /\ key' = key /\ comparison' = comparison
  BY DEF Within, Last

LEMMA FrameIsRecord ==
  ASSUME IInv
  PROVE  /\ frame \in [base : {frame.base}, count : {frame.count}, depth : Nat]
         /\ frame.count \in Nat /\ frame.depth \in Nat
  BY DEF IInv, InvFrames

LEMMA InsertKeeps == IInv /\ Insert => IInv'
  <1> SUFFICES ASSUME IInv, Insert PROVE IInv'
    OBVIOUS
  <1> USE DEF Insert, Unchanged
  <1>1. Within
    BY FrameIsRecord DEF Within
  <1>2. InvPartition' /\ InvHeap'
    BY DEF InvPartition, InvHeap
  <1>3. InvInsertion'
    BY DEF InvInsertion, Last
  <1> QED
    BY <1>1, <1>2, <1>3, StepWithin DEF IInv, TypeOK

LEMMA HeapifyKeeps == IInv /\ Heapify => IInv'
  <1> SUFFICES ASSUME IInv, Heapify PROVE IInv'
    OBVIOUS
  <1> USE DEF Heapify, Unchanged
  <1>1. Within
    BY FrameIsRecord DEF Within
  <1>2. 2 <= frame.count /\ frame.count \in Nat
    BY SortAssumption, FrameIsRecord
  <1>3. InvPartition' /\ InvInsertion'
    BY DEF InvPartition, InvInsertion
  <1>4. /\ i' \in Nat /\ i' <= frame.count /\ 2 * i' + 1 > Last /\ end' = Last /\ Last \in Nat
        /\ pc' = "build"
    BY <1>2 DEF Last
  <1>5. InvHeap'
    <2>1. Last' = Last /\ frame'.count = frame.count
      BY <1>1, SameFrame
    <2>2. \A x, y \in 0..Last : ~(Child(x, y) /\ i' <= x)
      BY <1>4 DEF Child
    <2>3. \A y \in 0..Last : ~(Last < y)
      BY <1>4
    <2> QED
      BY <1>4, <2>1, <2>2, <2>3 DEF InvHeap
  <1> QED
    BY <1>1, <1>2, <1>3, <1>4, <1>5, StepWithin DEF IInv, TypeOK

LEMMA PartitionKeeps == IInv /\ Partition => IInv'
  <1> SUFFICES ASSUME IInv, Partition PROVE IInv'
    OBVIOUS
  <1> USE DEF Partition, Unchanged
  <1>1. /\ frame.depth \in Nat \ {0} /\ 2 <= frame.count /\ frame.count \in Nat
        /\ frame' = [frame EXCEPT !.depth = @ - 1]
    BY SortAssumption, FrameIsRecord
  <1>2. Within
    BY <1>1, FrameIsRecord DEF Within
  <1>3. frame.count \div 2 \in 0..Last /\ Last \in 0..Last
    BY <1>1 DEF Last
  <1>4. InvInsertion' /\ InvHeap'
    BY DEF InvInsertion, InvHeap
  <1>5. InvPartition'
    BY <1>2, <1>3, SameFrame DEF InvPartition
  <1> QED
    BY <1>1, <1>2, <1>3, <1>4, <1>5, StepWithin DEF IInv, TypeOK

LEMMA ScanKeeps == IInv /\ Scan => IInv'
  <1> SUFFICES ASSUME IInv, Scan PROVE IInv'
    OBVIOUS
  <1>1. /\ pc = "partition" /\ pc' = pc /\ i < Last /\ i' = i + 1 /\ frame' = frame
        /\ UNCHANGED <<size, comparison, key, stack, end>>
    BY DEF Scan, Unchanged
  <1>2. PICK less \in LessThan(i, Last) :
          IF less THEN array' = Swapped(array, i, j) /\ j' = j + 1
                  ELSE UNCHANGED <<array, j>>
    BY DEF Scan
  <1>3. /\ i \in Nat /\ j \in Nat /\ Last \in Nat /\ j <= i /\ 2 <= frame.count
        /\ i \in 0..Last /\ j \in 0..Last /\ Last \in 0..Last /\ end \in Nat /\ TypeOK
    BY <1>1, Places DEF IInv, InvPartition, InvFrames, Last
  <1>4. Within
    BY <1>1, FrameIsRecord DEF Within
  <1>5. /\ i' \in Nat /\ j' \in Nat /\ j' <= i' /\ i' <= Last
        /\ array' = array \/ array' = Swapped(array, i, j)
    BY <1>1, <1>2, <1>3
  <1>6. ASSUME comparison = "honest"
        PROVE  /\ \A x \in 0..(j' - 1) : New(x) < New(Last)
               /\ \A x \in j'..(i' - 1) : New(Last) <= New(x)
    <2>1. /\ less = (At(i) < At(Last))
          /\ \A x \in 0..(j - 1) : At(x) < At(Last)
          /\ \A x \in j..(i - 1) : At(Last) <= At(x)
          /\ \A x \in 0..Last : At(x) \in Int
      BY <1>1, <1>2, <1>3, <1>6, KeysAreNumbers DEF LessThan, At, KeyAt, IInv, InvPartition
    <2>2. CASE less
      <3>1. /\ New(i) = At(j) /\ New(j) = At(i) /\ New(Last) = At(Last)
            /\ \A x \in 0..Last : x # i /\ x # j => New(x) = At(x)
        BY <1>1, <1>2, <1>3, <2>2, SwapKeys
      <3>2. ASSUME NEW x \in 0..j PROVE New(x) < New(Last)
        <4>1. At(i) < At(Last)
          BY <2>1, <2>2, Zenon
        <4>2. CASE x = j
          BY <3>1, <4>1, <4>2
        <4>3. CASE x # j
          <5>1. x \in 0..(j - 1) /\ x \in 0..Last /\ x # i
            BY <1>3, <4>3
          <5> QED
            BY <2>1, <3>1, <4>3, <5>1
        <4> QED
          BY <4>2, <4>3
      <3>3. ASSUME NEW x \in (j + 1)..i PROVE New(Last) <= New(x)
        BY <1>1, <1>3, <2>1, <2>2, <3>1
      <3>4. j' - 1 = j /\ i' - 1 = i /\ j' = j + 1
        BY <1>1, <1>2, <1>3, <2>2
      <3> QED
        BY <3>2, <3>3, <3>4
    <2>3. CASE ~less
      <3>1. array' = array /\ j' = j /\ i' - 1 = i
        BY <1>1, <1>2, <1>3, <2>3
      <3>2. \A x : New(x) = At(x)
        BY <3>1 DEF New, At, KeyAt
      <3>3. At(Last) <= At(i)
        <4>1. ~(At(i) < At(Last))
          BY <2>1, <2>3, Zenon
        <4> QED
          BY <1>3, <2>1, <4>1
      <3>4. \A x \in j..i : At(Last) <= At(x)
        BY <1>3, <2>1, <3>3
      <3> QED
        BY <2>1, <3>1, <3>2, <3>4
    <2> QED
      BY <2>2, <2>3
  <1>7. InvPartition'
    BY <1>4, <1>5, <1>6, SameFrame DEF InvPartition, New, At, KeyAt
  <1>8. InvInsertion' /\ InvHeap'
    BY <1>1 DEF InvInsertion, InvHeap
  <1> QED
    BY <1>1, <1>3, <1>4, <1>5, <1>7, <1>8, StepWithin

-----------------------------------------------------------------------------
(* The insertion sort.                                                     *)
LEMMA SinkKeeps == IInv /\ Sink => IInv'
  <1> SUFFICES ASSUME IInv, Sink PROVE IInv'
    OBVIOUS
  <1>1. /\ pc = "insert" /\ pc' = pc /\ i < frame.count /\ j > 0 /\ frame' = frame
        /\ UNCHANGED <<size, comparison, key, stack, end>>
    BY DEF Sink, Unchanged
  <1>2. PICK less \in LessThan(j, j - 1) :
          IF less
          THEN array' = Swapped(array, j, j - 1) /\ j' = j - 1 /\ UNCHANGED i
          ELSE i' = i + 1 /\ j' = i + 1 /\ UNCHANGED array
    BY DEF Sink
  <1>3. /\ i \in Nat \ {0} /\ j \in Nat \ {0} /\ Last \in Nat /\ j <= i /\ end \in Nat
        /\ frame.count \in Nat /\ Last = frame.count - 1 /\ TypeOK
        /\ j \in 0..Last /\ j - 1 \in 0..Last
    BY <1>1, Places DEF IInv, InvInsertion, Last
  <1>4. Within
    BY <1>1, FrameIsRecord DEF Within
  <1>5. /\ i' \in Nat \ {0} /\ j' \in Nat /\ j' <= i' /\ (i' >= frame.count => j' = i')
        /\ array' = array \/ array' = Swapped(array, j, j - 1)
    BY <1>1, <1>2, <1>3
  <1>6. ASSUME comparison = "honest"
        PROVE  \A x, y \in 0..Last : x < y /\ y <= i' /\ y # j' => New(x) <= New(y)
    <2>1. /\ less = (At(j) < At(j - 1))
          /\ \A x, y \in 0..Last : x < y /\ y <= i /\ y # j => At(x) <= At(y)
          /\ \A x \in 0..Last : At(x) \in Int
      <3>1. less = (At(j) < At(j - 1))
        BY <1>2, <1>6 DEF LessThan, At, KeyAt
      <3> QED
        BY <1>1, <1>3, <1>6, <3>1, KeysAreNumbers DEF IInv, InvInsertion
    <2>2. CASE less
      <3>1. At(j) < At(j - 1)
        BY <2>1, <2>2, Zenon
      <3>2. /\ New(j) = At(j - 1) /\ New(j - 1) = At(j) /\ i' = i /\ j' = j - 1
            /\ \A x \in 0..Last : x # j /\ x # j - 1 => New(x) = At(x)
        BY <1>2, <1>3, <2>2, SwapKeys
      <3>3. ASSUME NEW x \in 0..Last, NEW y \in 0..Last, x < y, y <= i, y # j - 1
            PROVE  New(x) <= New(y)
        <4>1. CASE y = j
          <5>1. CASE x = j - 1
            BY <1>3, <2>1, <3>1, <3>2, <4>1, <5>1
          <5>2. CASE x # j - 1
            <6>1. At(x) <= At(j - 1) /\ New(x) = At(x)
              BY <1>3, <2>1, <3>2, <3>3, <4>1, <5>2
            <6> QED
              BY <3>2, <4>1, <6>1
          <5> QED
            BY <5>1, <5>2
        <4>2. CASE y # j
          <5>1. New(y) = At(y)
            BY <3>2, <3>3, <4>2
          <5>2. CASE x = j \/ x = j - 1
            BY <1>3, <2>1, <3>2, <3>3, <4>2, <5>1, <5>2
          <5>3. CASE x # j /\ x # j - 1
            BY <2>1, <3>2, <3>3, <4>2, <5>1, <5>3
          <5> QED
            BY <5>2, <5>3
        <4> QED
          BY <4>1, <4>2
      <3> QED
        BY <3>2, <3>3
    <2>3. CASE ~less
      <3>1. ~(At(j) < At(j - 1))
        BY <2>1, <2>3, Zenon
      <3>2. i' = i + 1 /\ j' = i + 1 /\ \A x : New(x) = At(x)
        BY <1>2, <2>3 DEF New, At, KeyAt
      <3>3. ASSUME NEW x \in 0..Last, NEW y \in 0..Last, x < y, y <= i
            PROVE  At(x) <= At(y)
        <4>1. CASE y = j
          <5>1. At(j - 1) <= At(j)
            BY <1>3, <2>1, <3>1
          <5>2. CASE x = j - 1
            BY <4>1, <5>1, <5>2
          <5>3. CASE x # j - 1
            <6>1. At(x) <= At(j - 1)
              BY <1>3, <2>1, <3>3, <4>1, <5>3
            <6> QED
              BY <1>3, <2>1, <4>1, <5>1, <6>1
          <5> QED
            BY <5>2, <5>3
        <4> QED
          BY <2>1, <3>3, <4>1
      <3> QED
        BY <1>3, <3>2, <3>3
    <2> QED
      BY <2>2, <2>3
  <1>7. InvInsertion'
    BY <1>3, <1>4, <1>5, <1>6, SameFrame DEF InvInsertion, New, At, KeyAt
  <1>8. InvPartition' /\ InvHeap'
    BY <1>1 DEF InvPartition, InvHeap
  <1> QED
    BY <1>1, <1>3, <1>4, <1>5, <1>7, <1>8, StepWithin

LEMMA SunkKeeps == IInv /\ Sunk => IInv'
  <1> SUFFICES ASSUME IInv, Sunk PROVE IInv'
    OBVIOUS
  <1>1. /\ pc = "insert" /\ pc' = pc /\ i < frame.count /\ j = 0 /\ frame' = frame
        /\ i' = i + 1 /\ j' = i + 1 /\ array' = array
        /\ UNCHANGED <<size, comparison, key, stack, end>>
    BY DEF Sunk, Unchanged
  <1>2. /\ i \in Nat \ {0} /\ Last \in Nat /\ end \in Nat /\ frame.count \in Nat
        /\ Last = frame.count - 1
    BY <1>1, Places DEF IInv, InvInsertion, Last
  <1>3. Within
    BY <1>1, FrameIsRecord DEF Within
  <1>4. ASSUME comparison = "honest", NEW x \in 0..Last, NEW y \in 0..Last,
               x < y, y <= i + 1, y # i + 1
        PROVE  At(x) <= At(y)
    <2>1. y <= i /\ y # 0
      BY <1>2, <1>4
    <2> QED
      BY <1>1, <1>4, <2>1 DEF IInv, InvInsertion
  <1>5. \A x : key[array'[frame.base + x]] = At(x)
    BY <1>1 DEF At, KeyAt
  <1>6. InvInsertion'
    BY <1>1, <1>2, <1>3, <1>4, <1>5, SameFrame DEF InvInsertion, At, KeyAt
  <1>7. InvPartition' /\ InvHeap'
    BY <1>1 DEF InvPartition, InvHeap
  <1> QED
    BY <1>1, <1>2, <1>3, <1>6, <1>7, StepWithin

-----------------------------------------------------------------------------
(* The heap sort.                                                          *)

(* Nothing in the heap is greater than its root.                           *)
LEMMA RootIsGreatest ==
  ASSUME IInv, pc = "build", i = 0, comparison = "honest", NEW x \in 0..end
  PROVE  At(x) <= At(0)
  <1>1. /\ end \in Nat /\ end <= Last /\ Last \in Nat
        /\ \A u \in 0..end : At(u) \in Int
        /\ \A u, v \in 0..end : Child(u, v) => At(v) <= At(u)
    <2>1. end \in Nat /\ end <= Last /\ Last \in Int
      BY Places DEF IInv, InvHeap
    <2>2. \A u \in 0..Last : At(u) \in Int
      BY KeysAreNumbers DEF IInv
    <2>3. \A u, v \in 0..end : Child(u, v) => At(v) <= At(u)
      BY <2>1 DEF IInv, InvHeap
    <2> QED
      BY <2>1, <2>2, <2>3
  <1> DEFINE Above == {u \in 0..end : ~(At(u) <= At(0))}
  <1>2. ASSUME Above # {} PROVE FALSE
    <2>1. Above \subseteq Nat
      OBVIOUS
    <2>2. PICK u \in Above : \A v \in Above : u <= v
      <3> HIDE DEF Above
      <3> QED
        BY <1>2, <2>1, LeastNat
    <2>3. u \in 0..end /\ u # 0 /\ ~(At(u) <= At(0))
      BY <1>1, <2>2
    <2> DEFINE p == (u - 1) \div 2
    <2>4. p \in 0..end /\ p < u /\ Child(p, u)
      BY <1>1, <2>3 DEF Child
    <2>5. At(p) <= At(0)
      BY <2>2, <2>4
    <2>6. At(u) <= At(p)
      BY <1>1, <2>3, <2>4
    <2> HIDE DEF p
    <2> QED
      BY <1>1, <2>3, <2>4, <2>5, <2>6
  <1> QED
    BY <1>2

LEMMA BuildNextKeeps == IInv /\ BuildNext => IInv'
  <1> SUFFICES ASSUME IInv, BuildNext PROVE IInv'
    OBVIOUS
  <1>1. /\ pc = "build" /\ pc' = "sift" /\ i > 0 /\ i' = i - 1 /\ j' = i - 1 /\ frame' = frame
        /\ array' = array /\ end' = end /\ UNCHANGED <<size, comparison, key, stack>>
    BY DEF BuildNext, Unchanged
  <1>2. /\ i \in Nat \ {0} /\ end \in Nat /\ frame.count \in Nat /\ Last \in Nat
        /\ Last = frame.count - 1 /\ end = Last /\ i <= frame.count /\ 2 <= frame.count
    BY <1>1, Places DEF IInv, InvHeap, InvFrames, Last
  <1>3. Within
    BY <1>1, FrameIsRecord DEF Within
  <1>4. \A x : key[array'[frame.base + x]] = At(x)
    BY <1>1 DEF At, KeyAt
  <1>5. ASSUME comparison = "honest"
        PROVE  /\ \A x, y \in 0..Last : x < y /\ end < y => At(x) <= At(y)
               /\ \A x, y \in 0..end : Child(x, y) /\ i - 1 <= x /\ x # i - 1 => At(y) <= At(x)
               /\ \A x, y \in 0..end : Child(x, i - 1) /\ Child(i - 1, y) /\ i - 1 <= x => At(y) <= At(x)
    <2>1. /\ \A x, y \in 0..Last : x < y /\ end < y => At(x) <= At(y)
          /\ \A x, y \in 0..end : Child(x, y) /\ i <= x => At(y) <= At(x)
      BY <1>1, <1>5 DEF IInv, InvHeap
    <2>2. \A x \in 0..end : i - 1 <= x /\ x # i - 1 => i <= x
      BY <1>2
    <2>3. \A x \in 0..end : ~(Child(x, i - 1) /\ i - 1 <= x)
      BY <1>2 DEF Child
    <2> QED
      BY <2>1, <2>2, <2>3
  <1>6. i' \in Nat /\ j' \in Nat /\ i' <= frame.count /\ j' <= end
    BY <1>1, <1>2
  <1>7. InvHeap'
    BY <1>1, <1>2, <1>3, <1>4, <1>5, <1>6, SameFrame DEF InvHeap, At, KeyAt
  <1>8. InvPartition' /\ InvInsertion'
    BY <1>1 DEF InvPartition, InvInsertion
  <1> QED
    BY <1>1, <1>2, <1>3, <1>6, <1>7, <1>8, StepWithin

(* The greatest element of the heap goes to its end.                       *)
LEMMA PopKeeps == IInv /\ Pop => IInv'
  <1> SUFFICES ASSUME IInv, Pop PROVE IInv'
    OBVIOUS
  <1>1. /\ pc = "build" /\ pc' = "sift" /\ i = 0 /\ i' = 0 /\ j' = 0 /\ frame' = frame
        /\ end > 0 /\ end' = end - 1 /\ array' = Swapped(array, 0, end)
        /\ UNCHANGED <<size, comparison, key, stack>>
    BY DEF Pop, Unchanged
  <1>2. /\ end \in Nat \ {0} /\ end <= Last /\ Last \in Nat /\ 2 <= frame.count
        /\ 0 \in 0..Last /\ end \in 0..Last /\ TypeOK
    BY <1>1, Places DEF IInv, InvHeap, InvFrames, Last
  <1>3. Within
    BY <1>1, FrameIsRecord DEF Within
  <1>4. /\ New(0) = At(end) /\ New(end) = At(0)
        /\ \A x \in 0..Last : x # 0 /\ x # end => New(x) = At(x)
    BY <1>1, <1>2, SwapKeys
  <1>5. ASSUME comparison = "honest"
        PROVE  /\ \A x, y \in 0..Last : x < y /\ end - 1 < y => New(x) <= New(y)
               /\ \A x, y \in 0..(end - 1) : Child(x, y) /\ x # 0 => New(y) <= New(x)
               /\ \A x, y \in 0..(end - 1) : ~Child(x, 0)
    <2>1. /\ \A x, y \in 0..Last : x < y /\ end < y => At(x) <= At(y)
          /\ \A x, y \in 0..end : Child(x, y) => At(y) <= At(x)
      BY <1>1, <1>5 DEF IInv, InvHeap
    <2>2. ASSUME NEW x \in 0..Last, NEW y \in 0..Last, x < y, end - 1 < y
          PROVE  New(x) <= New(y)
      <3>1. CASE y = end
        <4>1. PICK u \in 0..end : New(x) = At(u)
          BY <1>2, <1>4, <2>2, <3>1
        <4> QED
          BY <1>1, <1>4, <1>5, <3>1, <4>1, RootIsGreatest
      <3>2. CASE y # end
        <4>1. end < y /\ New(y) = At(y)
          BY <1>2, <1>4, <2>2, <3>2
        <4>2. PICK u \in 0..Last : u < y /\ New(x) = At(u)
          BY <1>2, <1>4, <2>2, <4>1
        <4> QED
          BY <2>1, <4>1, <4>2
      <3> QED
        BY <3>1, <3>2
    <2>3. ASSUME NEW x \in 0..(end - 1), NEW y \in 0..(end - 1), Child(x, y), x # 0
          PROVE  New(y) <= New(x)
      <3>1. x \in 0..end /\ y \in 0..end /\ y # 0 /\ x # end /\ y # end
            /\ x \in 0..Last /\ y \in 0..Last
        BY <1>2, <2>3 DEF Child
      <3> QED
        BY <1>4, <2>1, <2>3, <3>1
    <2>4. \A x \in 0..(end - 1) : ~Child(x, 0)
      BY DEF Child
    <2> QED
      BY <2>2, <2>3, <2>4
  <1>6. end - 1 \in Nat /\ end - 1 <= Last /\ 0 <= end - 1 /\ 0 <= frame.count
    BY <1>2, FrameIsRecord
  <1>7. InvHeap'
    BY <1>1, <1>2, <1>3, <1>5, <1>6, SameFrame DEF InvHeap, New, At, KeyAt
  <1>8. InvPartition' /\ InvInsertion'
    BY <1>1 DEF InvPartition, InvInsertion
  <1> QED
    BY <1>1, <1>2, <1>3, <1>6, <1>7, <1>8, StepWithin

(* What the heap knows while an element sifts down.                        *)
LEMMA Sifting ==
  ASSUME IInv, pc = "sift"
  PROVE  /\ i \in Nat /\ j \in Nat /\ end \in Nat /\ Last \in Nat /\ TypeOK
         /\ i <= j /\ j <= end /\ end <= Last /\ 2 <= frame.count
         /\ i <= frame.count /\ (i > 0 => end = Last)
         /\ comparison = "honest" =>
              /\ \A x \in 0..Last : At(x) \in Int
              /\ \A x, y \in 0..Last : x < y /\ end < y => At(x) <= At(y)
              /\ \A x, y \in 0..end : Child(x, y) /\ i <= x /\ x # j => At(y) <= At(x)
              /\ \A x, y \in 0..end :
                   Child(x, j) /\ Child(j, y) /\ i <= x => At(y) <= At(x)
  <1>1. /\ i \in Nat /\ j \in Nat /\ end \in Nat /\ Last \in Nat /\ TypeOK
        /\ 2 <= frame.count
    BY Places DEF IInv, InvFrames, Last
  <1>2. comparison = "honest" => \A x \in 0..Last : At(x) \in Int
    BY KeysAreNumbers DEF IInv
  <1> QED
    BY <1>1, <1>2 DEF IInv, InvHeap

(* The larger child.                                                       *)
LEMMA LargerChild ==
  ASSUME IInv, pc = "sift", 2 * j + 1 <= end, NEW child \in Children
  PROVE  /\ child \in 0..end /\ Child(j, child) /\ j < child
         /\ comparison = "honest" => \A y \in 0..end : Child(j, y) => At(y) <= At(child)
  <1>1. /\ j \in Nat /\ end \in Nat /\ end <= Last /\ Last \in Nat
        /\ comparison = "honest" => \A x \in 0..Last : At(x) \in Int
    BY Sifting
  <1>2. child \in 0..end /\ Child(j, child) /\ j < child
    BY <1>1 DEF Children, Child
  <1>3. ASSUME comparison = "honest", NEW y \in 0..end, Child(j, y)
        PROVE  At(y) <= At(child)
    <2>1. CASE 2 * j + 2 <= end
      <3>1. child = IF At(2 * j + 1) < At(2 * j + 2) THEN 2 * j + 2 ELSE 2 * j + 1
        BY <1>3, <2>1 DEF Children, LessThan, At, KeyAt
      <3>2. 2 * j + 1 \in 0..Last /\ 2 * j + 2 \in 0..Last
        BY <1>1, <2>1
      <3> QED
        BY <1>1, <1>3, <3>1, <3>2 DEF Child
    <2>2. CASE ~(2 * j + 2 <= end)
      <3>1. child = 2 * j + 1 /\ y = 2 * j + 1
        BY <1>1, <1>3, <2>2 DEF Children, Child
      <3> QED
        BY <1>1, <1>3, <3>1
    <2> QED
      BY <2>1, <2>2
  <1> QED
    BY <1>2, <1>3

LEMMA SiftDownKeeps == IInv /\ SiftDown => IInv'
  <1> SUFFICES ASSUME IInv, SiftDown PROVE IInv'
    OBVIOUS
  <1>1. /\ pc = "sift" /\ 2 * j + 1 <= end /\ frame' = frame
        /\ UNCHANGED <<size, comparison, key, stack, i, end>>
    BY DEF SiftDown, Unchanged
  <1>0. PICK child \in Children :
          \E less \in LessThan(j, child) :
            IF less
            THEN array' = Swapped(array, j, child) /\ j' = child /\ UNCHANGED pc
            ELSE pc' = "build" /\ UNCHANGED <<array, j>>
    BY DEF SiftDown
  <1>2. PICK less \in LessThan(j, child) :
          IF less
          THEN array' = Swapped(array, j, child) /\ j' = child /\ UNCHANGED pc
          ELSE pc' = "build" /\ UNCHANGED <<array, j>>
    BY <1>0
  <1>3. /\ i \in Nat /\ j \in Nat /\ end \in Nat /\ Last \in Nat /\ TypeOK
        /\ i <= j /\ j <= end /\ end <= Last /\ 2 <= frame.count
        /\ i <= frame.count /\ (i > 0 => end = Last)
    BY <1>1, Sifting
  <1>4. /\ child \in 0..end /\ Child(j, child) /\ j < child
    BY <1>1, LargerChild
  <1>5. Within
    BY <1>1, <1>2, FrameIsRecord DEF Within
  <1>6. /\ j \in 0..Last /\ child \in 0..Last
    BY <1>3, <1>4
  <1>7. InvPartition' /\ InvInsertion'
    BY <1>1, <1>2 DEF InvPartition, InvInsertion
  <1>8. CASE less
    <2>1. array' = Swapped(array, j, child) /\ j' = child /\ pc' = "sift"
      BY <1>1, <1>2, <1>8
    <2>2. /\ New(j) = At(child) /\ New(child) = At(j)
          /\ \A x \in 0..Last : x # j /\ x # child => New(x) = At(x)
      BY <1>3, <1>6, <2>1, SwapKeys
    <2>3. ASSUME comparison = "honest"
          PROVE  /\ \A x, y \in 0..Last : x < y /\ end < y => New(x) <= New(y)
                 /\ \A x, y \in 0..end : Child(x, y) /\ i <= x /\ x # child => New(y) <= New(x)
                 /\ \A x, y \in 0..end :
                      Child(x, child) /\ Child(child, y) /\ i <= x => New(y) <= New(x)
      <3>1. /\ \A x \in 0..Last : At(x) \in Int
            /\ \A x, y \in 0..Last : x < y /\ end < y => At(x) <= At(y)
            /\ \A x, y \in 0..end : Child(x, y) /\ i <= x /\ x # j => At(y) <= At(x)
            /\ \A x, y \in 0..end :
                 Child(x, j) /\ Child(j, y) /\ i <= x => At(y) <= At(x)
            /\ \A y \in 0..end : Child(j, y) => At(y) <= At(child)
        BY <1>1, <2>3, Sifting, LargerChild
      <3>2. At(j) < At(child)
        <4>1. less = (At(j) < At(child))
          BY <1>2, <2>3 DEF LessThan, At, KeyAt
        <4> QED
          BY <1>8, <4>1, Zenon
      <3>3. ASSUME NEW x \in 0..Last, NEW y \in 0..Last, x < y, end < y
            PROVE  New(x) <= New(y)
        <4>1. New(y) = At(y)
          BY <1>3, <1>4, <2>2, <3>3
        <4>2. PICK u \in 0..Last : u < y /\ New(x) = At(u)
          BY <1>3, <1>4, <1>6, <2>2, <3>3
        <4> QED
          BY <3>1, <3>3, <4>1, <4>2
      <3>4. ASSUME NEW x \in 0..end, NEW y \in 0..end, Child(x, y), i <= x, x # child
            PROVE  New(y) <= New(x)
        <4>1. x \in 0..Last /\ y \in 0..Last /\ x < y
          BY <1>3, <3>4 DEF Child
        <4>2. CASE x = j
          <5>1. At(y) <= At(child) /\ New(x) = At(child)
            BY <2>2, <3>1, <3>4, <4>2
          <5>2. New(y) = At(y) \/ New(y) = At(j)
            BY <2>2, <4>1, <4>2
          <5> QED
            BY <1>6, <3>1, <3>2, <5>1, <5>2
        <4>3. CASE x # j
          <5>1. New(x) = At(x)
            BY <2>2, <3>4, <4>1, <4>3
          <5>2. CASE y = j
            BY <1>4, <2>2, <3>1, <3>4, <5>1, <5>2
          <5>3. CASE y # j
            <6>1. y # child
              BY <1>3, <1>4, <3>4, <4>3 DEF Child
            <6> QED
              BY <2>2, <3>1, <3>4, <4>1, <4>3, <5>1, <5>3, <6>1
          <5> QED
            BY <5>2, <5>3
        <4> QED
          BY <4>2, <4>3
      <3>5. ASSUME NEW x \in 0..end, NEW y \in 0..end, Child(x, child), Child(child, y), i <= x
            PROVE  New(y) <= New(x)
        <4>1. x = j /\ y # j /\ y # child /\ y \in 0..Last /\ i <= child /\ child # j
          BY <1>3, <1>4, <3>5 DEF Child
        <4>2. At(y) <= At(child)
          BY <1>4, <3>1, <3>5, <4>1
        <4> QED
          BY <2>2, <4>1, <4>2
      <3> QED
        BY <3>3, <3>4, <3>5
    <2>4. j' \in Nat /\ i <= j' /\ j' <= end
      BY <1>3, <1>4, <2>1
    <2>5. InvHeap'
      BY <1>1, <1>3, <1>5, <2>1, <2>3, <2>4, SameFrame DEF InvHeap, New, At, KeyAt
    <2> QED
      BY <1>1, <1>3, <1>5, <1>6, <1>7, <2>1, <2>4, <2>5, StepWithin
  <1>9. CASE ~less
    <2>1. array' = array /\ j' = j /\ pc' = "build"
      BY <1>2, <1>9
    <2>2. \A x : key[array'[frame.base + x]] = At(x)
      BY <2>1 DEF At, KeyAt
    <2>3. ASSUME comparison = "honest"
          PROVE  /\ \A x, y \in 0..Last : x < y /\ end < y => At(x) <= At(y)
                 /\ \A x, y \in 0..end : Child(x, y) /\ i <= x => At(y) <= At(x)
      <3>1. /\ \A x \in 0..Last : At(x) \in Int
            /\ \A x, y \in 0..Last : x < y /\ end < y => At(x) <= At(y)
            /\ \A x, y \in 0..end : Child(x, y) /\ i <= x /\ x # j => At(y) <= At(x)
            /\ \A y \in 0..end : Child(j, y) => At(y) <= At(child)
        BY <1>1, <2>3, Sifting, LargerChild
      <3>2. ~(At(j) < At(child))
        <4>1. less = (At(j) < At(child))
          BY <1>2, <2>3 DEF LessThan, At, KeyAt
        <4> QED
          BY <1>9, <4>1, Zenon
      <3>3. At(child) <= At(j)
        BY <1>6, <3>1, <3>2
      <3>4. ASSUME NEW y \in 0..end, Child(j, y) PROVE At(y) <= At(j)
        <4>1. y \in 0..Last
          BY <1>3
        <4> QED
          BY <1>6, <3>1, <3>3, <3>4, <4>1
      <3> QED
        BY <3>1, <3>4
    <2>4. InvHeap'
      BY <1>1, <1>3, <1>5, <2>1, <2>2, <2>3, SameFrame DEF InvHeap, At, KeyAt
    <2> QED
      BY <1>1, <1>3, <1>5, <1>7, <2>1, <2>4, StepWithin
  <1> QED
    BY <1>8, <1>9

LEMMA AtLeafKeeps == IInv /\ AtLeaf => IInv'
  <1> SUFFICES ASSUME IInv, AtLeaf PROVE IInv'
    OBVIOUS
  <1>1. /\ pc = "sift" /\ pc' = "build" /\ 2 * j + 1 > end
        /\ UNCHANGED <<size, comparison, key, stack, frame, array, i, j, end>>
    BY DEF AtLeaf, Unchanged
  <1>2. Within
    BY <1>1, FrameIsRecord DEF Within
  <1>3. \A x : key[array'[frame.base + x]] = At(x)
    BY <1>1 DEF At, KeyAt
  <1>4. \A y \in 0..end : ~Child(j, y)
    BY <1>1, Sifting DEF Child
  <1>5. InvHeap'
    BY <1>1, <1>2, <1>3, <1>4, Sifting, SameFrame DEF InvHeap, At, KeyAt
  <1>6. InvPartition' /\ InvInsertion'
    BY <1>1 DEF InvPartition, InvInsertion
  <1> QED
    BY <1>1, <1>2, <1>5, <1>6, Sifting, StepWithin

-----------------------------------------------------------------------------
(* A frame that is in order is left for the one below it.                  *)
LEMMA ReturnKeeps ==
  ASSUME IInv, pc \in {"insert", "build"}, Return,
         UNCHANGED <<size, comparison, key, array, i, j, end>>,
         comparison = "honest" => \A x, y \in 0..Last : x < y => At(x) <= At(y)
  PROVE  IInv'
  <1>1. TypeOK /\ Permutation /\ InvFrames /\ InvOrder /\ InvDepth
    BY DEF IInv
  <1>2. Indices' = Indices
    BY DEF Indices
  <1>3. Permutation'
    BY <1>1, <1>2 DEF Permutation
  <1>4. pc' \in {"sort", "done"}
    BY DEF Return
  <1>5. InvPartition' /\ InvInsertion' /\ InvHeap'
    BY <1>4 DEF InvPartition, InvInsertion, InvHeap
  <1>6. ASSUME comparison = "honest", NEW x \in Indices, NEW y \in Indices, x < y,
               \A n \in DOMAIN stack : ~(Inside(stack[n], x) /\ Inside(stack[n], y))
        PROVE  KeyAt(x) <= KeyAt(y)
    <2>1. CASE Inside(frame, x) /\ Inside(frame, y)
      <3>1. /\ frame.base \in Nat /\ frame.count \in Nat /\ x \in Nat /\ y \in Nat
        BY <1>1, Places DEF Indices
      <3>2. /\ x - frame.base \in 0..Last /\ y - frame.base \in 0..Last
            /\ x - frame.base < y - frame.base
            /\ frame.base + (x - frame.base) = x /\ frame.base + (y - frame.base) = y
        BY <1>6, <2>1, <3>1 DEF Inside, Last
      <3>3. At(x - frame.base) <= At(y - frame.base)
        BY <1>6, <3>2
      <3> QED
        BY <3>2, <3>3 DEF At
    <2>2. CASE ~(Inside(frame, x) /\ Inside(frame, y))
      <3>1. ~Together(x, y)
        BY <1>6, <2>2 DEF Together
      <3> QED
        BY <1>1, <1>6, <3>1 DEF InvOrder
    <2> QED
      BY <2>1, <2>2
  <1>7. CASE stack = <<>>
    <2>1. pc' = "done" /\ UNCHANGED <<frame, stack>> /\ DOMAIN stack = {}
      BY <1>7 DEF Return
    <2>2. TypeOK'
      BY <1>1, <1>2, <2>1 DEF TypeOK, FrameOK
    <2>3. InvFrames' /\ InvDepth'
      BY <1>1, <1>7, <2>1 DEF InvFrames, InvDepth, Apart
    <2>4. InvOrder'
      BY <1>2, <1>6, <2>1 DEF InvOrder, KeyAt
    <2> QED
      BY <1>3, <1>5, <2>2, <2>3, <2>4 DEF IInv
  <1>8. CASE stack # <<>>
    <2>1. pc' = "sort" /\ frame' = stack[1] /\ stack' = Tail(stack)
      BY <1>8 DEF Return
    <2>2. PICK n \in Nat \ {0} : n = Len(stack)
      BY <1>1, <1>8, EmptySeq, LenProperties DEF InvFrames
    <2>3. /\ DOMAIN stack = 1..n /\ Len(stack') = n - 1 /\ DOMAIN stack' = 1..(n - 1)
          /\ \A m \in 1..(n - 1) : stack'[m] = stack[m + 1]
          /\ stack' \in Seq([base : Nat, count : Nat, depth : Nat])
      <3>1. stack \in Seq([base : Nat, count : Nat, depth : Nat])
        BY <1>1 DEF InvFrames
      <3> QED
        BY <1>8, <2>1, <2>2, <3>1, HeadTailProperties, LenProperties
    <2>4. 1 \in DOMAIN stack /\ \A m \in 1..(n - 1) : m + 1 \in DOMAIN stack /\ m + 1 # 1
      BY <2>2, <2>3
    <2>5. TypeOK'
      <3>1. \A m \in DOMAIN stack : FrameOK(stack[m])
        BY <1>1 DEF TypeOK
      <3>2. FrameOK(stack[1]) /\ \A m \in 1..(n - 1) : FrameOK(stack'[m])
        BY <2>3, <2>4, <3>1
      <3>3. FrameOK(frame)' /\ (\A m \in DOMAIN stack : FrameOK(stack[m]))'
        BY <2>1, <2>3, <3>2 DEF FrameOK
      <3> QED
        BY <1>1, <1>2, <2>1, <3>3 DEF TypeOK
    <2>6. InvFrames'
      <3>1. /\ frame' \in [base : Nat, count : Nat, depth : Nat]
            /\ \A l, m \in DOMAIN stack : l # m => Apart(stack[l], stack[m])
        <4>1. stack \in Seq([base : Nat, count : Nat, depth : Nat])
          BY <1>1 DEF InvFrames
        <4>2. stack[1] \in [base : Nat, count : Nat, depth : Nat]
          <5>1. 1 \in 1..Len(stack)
            BY <2>2
          <5> QED
            BY <4>1, <5>1, ElementOfSeq
        <4> QED
          BY <1>1, <2>1, <4>2 DEF InvFrames
      <3>2. \A m \in DOMAIN stack' : Apart(frame', stack'[m])
        BY <2>1, <2>3, <2>4, <3>1
      <3>3. ASSUME NEW l \in DOMAIN stack', NEW m \in DOMAIN stack', l # m
            PROVE  Apart(stack'[l], stack'[m])
        <4>1. l + 1 \in DOMAIN stack /\ m + 1 \in DOMAIN stack /\ l + 1 # m + 1
          BY <2>2, <2>3, <2>4, <3>3
        <4> QED
          BY <2>3, <3>1, <4>1
      <3> QED
        BY <2>1, <2>3, <3>1, <3>2, <3>3 DEF InvFrames, Apart
    <2>7. InvOrder'
      <3>1. ASSUME NEW x \in Indices, NEW y \in Indices, ~Together(x, y)'
            PROVE  \A m \in DOMAIN stack : ~(Inside(stack[m], x) /\ Inside(stack[m], y))
        <4> SUFFICES ASSUME NEW m \in DOMAIN stack, Inside(stack[m], x), Inside(stack[m], y)
                     PROVE  FALSE
          OBVIOUS
        <4>1. CASE m = 1
          BY <2>1, <3>1, <4>1 DEF Together, Inside
        <4>2. CASE m # 1
          <5>0. m \in 1..n
            BY <2>3
          <5>1. m - 1 \in 1..(n - 1) /\ (m - 1) + 1 = m
            BY <2>2, <4>2, <5>0
          <5>2. stack'[m - 1] = stack[m] /\ m - 1 \in DOMAIN stack'
            BY <2>3, <5>1
          <5> QED
            BY <3>1, <5>2 DEF Together, Inside
        <4> QED
          BY <4>1, <4>2
      <3> QED
        BY <1>2, <1>6, <3>1 DEF InvOrder, KeyAt
    <2>8. InvDepth'
      <3>1. /\ \A m \in 1..n : stack[m].count * 2 ^ (n - m) <= size
            /\ 2 ^ n <= size
        BY <1>1, <1>8, <2>2, <2>3 DEF InvDepth
      <3>2. frame'.count * 2 ^ (n - 1) <= size
        BY <2>1, <2>3, <2>4, <3>1
      <3>3. ASSUME NEW m \in 1..(n - 1)
            PROVE  stack'[m].count * 2 ^ ((n - 1) - m) <= size
        <4>1. m + 1 \in 1..n /\ n - (m + 1) = (n - 1) - m
          BY <2>2
        <4> QED
          BY <2>3, <3>1, <4>1
      <3>4. 2 ^ (n - 1) <= size
        <4>1. n - 1 \in Nat /\ n \in Nat /\ n - 1 <= n
          BY <2>2
        <4>2. 2 ^ (n - 1) <= 2 ^ n /\ 2 ^ (n - 1) \in Nat /\ 2 ^ n \in Nat
          BY <4>1, PowerGrows, PowerDoubles
        <4> QED
          BY <1>1, <3>1, <4>2 DEF TypeOK
      <3> QED
        BY <2>3, <3>2, <3>3, <3>4 DEF InvDepth
    <2> QED
      BY <1>3, <1>5, <2>5, <2>6, <2>7, <2>8 DEF IInv
  <1> QED
    BY <1>7, <1>8

LEMMA InsertedKeeps == IInv /\ Inserted => IInv'
  <1> SUFFICES ASSUME IInv, Inserted PROVE IInv'
    OBVIOUS
  <1>1. /\ pc = "insert" /\ i >= frame.count /\ Return
        /\ UNCHANGED <<size, comparison, key, array, i, j, end>>
    BY DEF Inserted, Unchanged
  <1>2. ASSUME comparison = "honest", NEW x \in 0..Last, NEW y \in 0..Last, x < y
        PROVE  At(x) <= At(y)
    <2>1. y <= i /\ y # j
      BY <1>1, Places DEF IInv, InvInsertion, Last
    <2> QED
      BY <1>1, <1>2, <2>1 DEF IInv, InvInsertion
  <1> QED
    BY <1>1, <1>2, ReturnKeeps

LEMMA HeapDoneKeeps == IInv /\ HeapDone => IInv'
  <1> SUFFICES ASSUME IInv, HeapDone PROVE IInv'
    OBVIOUS
  <1>1. /\ pc = "build" /\ end = 0 /\ Return
        /\ UNCHANGED <<size, comparison, key, array, i, j, end>>
    BY DEF HeapDone, Unchanged
  <1>2. ASSUME comparison = "honest", NEW x \in 0..Last, NEW y \in 0..Last, x < y
        PROVE  At(x) <= At(y)
    <2>1. end < y
      BY <1>1, <1>2
    <2> QED
      BY <1>1, <1>2, <2>1 DEF IInv, InvHeap
  <1> QED
    BY <1>1, <1>2, ReturnKeeps

-----------------------------------------------------------------------------
(* The parts of a partition.                                               *)

LEMMA ProductGrows ==
  ASSUME NEW a \in Nat, NEW b \in Nat, NEW c \in Nat, a <= b
  PROVE  a * c <= b * c
  <1>1. PICK d \in Nat : b = a + d
    <2>1. b - a \in Nat /\ b = a + (b - a)
      OBVIOUS
    <2> QED
      BY <2>1
  <1>2. b * c = a * c + d * c /\ d * c \in Nat /\ a * c \in Nat
    BY <1>1
  <1> QED
    BY <1>2

(* A frame within one that is apart from another is apart from it as well. *)
LEMMA PartApart ==
  ASSUME NEW f \in [base : Nat, count : Nat, depth : Nat],
         NEW g \in [base : Nat, count : Nat, depth : Nat],
         NEW h \in [base : Nat, count : Nat, depth : Nat],
         f.base <= g.base, g.base + g.count <= f.base + f.count, Apart(f, h)
  PROVE  Apart(g, h) /\ Apart(h, g)
  BY DEF Apart

(* What the running part does not hold is less than the pivot, the pivot,  *)
(* or not less.                                                            *)
LEMMA SplitOrder ==
  ASSUME TypeOK, InvPartition, pc = "partition", i = Last, comparison = "honest",
         array' = Swapped(array, j, Last), NEW x \in 0..Last, NEW y \in 0..Last,
         x < y, x <= j, j <= y
  PROVE  New(x) <= New(y)
  <1>1. /\ j \in Nat /\ i \in Nat /\ Last \in Nat /\ j <= Last /\ j \in 0..Last
        /\ Last \in 0..Last
        /\ \A u \in 0..(j - 1) : At(u) < At(Last)
        /\ \A u \in j..(Last - 1) : At(Last) <= At(u)
        /\ \A u \in 0..Last : At(u) \in Int
    <2>1. j \in Nat /\ i \in Nat /\ j <= i
      BY Places DEF InvPartition
    <2> QED
      BY <2>1, KeysAreNumbers DEF InvPartition
  <1>2. /\ New(j) = At(Last) /\ New(Last) = At(j)
        /\ \A u \in 0..Last : u # j /\ u # Last => New(u) = At(u)
    BY <1>1, SwapKeys
  <1>3. New(x) <= At(Last)
    <2>1. CASE x = j
      BY <1>1, <1>2, <2>1
    <2>2. CASE x # j
      <3>1. x \in 0..(j - 1) /\ x # Last
        BY <1>1, <2>2
      <3> QED
        BY <1>1, <1>2, <2>2, <3>1
    <2> QED
      BY <2>1, <2>2
  <1>4. At(Last) <= New(y)
    <2>1. CASE y = j
      BY <1>1, <1>2, <2>1
    <2>2. CASE y # j /\ y = Last
      <3>1. j \in j..(Last - 1)
        BY <1>1, <2>2
      <3> QED
        BY <1>1, <1>2, <2>2, <3>1
    <2>3. CASE y # j /\ y # Last
      <3>1. y \in j..(Last - 1)
        BY <1>1, <2>3
      <3> QED
        BY <1>1, <1>2, <2>3, <3>1
    <2> QED
      BY <2>1, <2>2, <2>3
  <1>5. New(x) \in Int /\ New(y) \in Int
    <2>1. \A u \in 0..Last : New(u) \in Int
      BY <1>1, <1>2
    <2> QED
      BY <2>1
  <1> QED
    BY <1>1, <1>3, <1>4, <1>5

LEMMA SplitKeeps == IInv /\ Split => IInv'
  <1> SUFFICES ASSUME IInv, Split PROVE IInv'
    OBVIOUS
  <1> DEFINE F == [base : Nat, count : Nat, depth : Nat]
  <1>1. /\ pc = "partition" /\ pc' = "sort" /\ i = Last /\ array' = Swapped(array, j, Last)
        /\ UNCHANGED <<size, comparison, key, i, j, end>>
    BY DEF Split, Unchanged
  <1>2. /\ TypeOK /\ Permutation /\ InvFrames /\ InvOrder /\ InvPartition /\ InvDepth
    BY DEF IInv
  <1>3. /\ frame \in F /\ frame.base \in Nat /\ frame.count \in Nat /\ frame.depth \in Nat
        /\ 2 <= frame.count /\ j \in Nat /\ j <= Last /\ Last = frame.count - 1
        /\ j \in 0..Last /\ Last \in 0..Last /\ size \in Nat
        /\ frame.base + frame.count <= size
    <2>1. j \in Nat /\ Last \in Int /\ j <= Last
      BY <1>1, <1>2, Places DEF InvPartition
    <2> QED
      BY <1>1, <1>2, <2>1, Places DEF InvFrames, Last
  <1>4. /\ LeftPart \in F /\ RightPart \in F
        /\ LeftPart.base = frame.base /\ LeftPart.count = j
        /\ RightPart.base = frame.base + j + 1 /\ RightPart.count = frame.count - j - 1
    BY <1>3 DEF LeftPart, RightPart, Frame
  <1>5. PICK a \in F, b \in F :
          /\ \/ a = LeftPart /\ b = RightPart
             \/ a = RightPart /\ b = LeftPart
          /\ a.count <= b.count /\ frame' = a /\ stack' = <<b>> \o stack
    <2> HIDE DEF F
    <2>0. LeftPart.count \in Int /\ RightPart.count \in Int
      BY <1>3, <1>4
    <2>1. CASE LeftPart.count < RightPart.count
      <3>1. frame' = LeftPart /\ stack' = <<RightPart>> \o stack
        BY <2>1 DEF Split
      <3>2. LeftPart.count <= RightPart.count
        BY <2>0, <2>1
      <3> QED
        BY <1>4, <3>1, <3>2
    <2>2. CASE ~(LeftPart.count < RightPart.count)
      <3>1. frame' = RightPart /\ stack' = <<LeftPart>> \o stack
        BY <2>2 DEF Split
      <3>2. RightPart.count <= LeftPart.count
        BY <2>0, <2>2
      <3> QED
        BY <1>4, <3>1, <3>2
    <2> QED
      BY <2>1, <2>2
  <1>6. /\ a.base \in Nat /\ a.count \in Nat /\ a.depth \in Nat
        /\ b.base \in Nat /\ b.count \in Nat /\ b.depth \in Nat
        /\ 2 * a.count <= frame.count /\ b.count <= frame.count
        /\ frame.base <= a.base /\ a.base + a.count <= frame.base + frame.count
        /\ frame.base <= b.base /\ b.base + b.count <= frame.base + frame.count
        /\ Apart(a, b)
    <2>0. /\ a.base \in Nat /\ a.count \in Nat /\ a.depth \in Nat
          /\ b.base \in Nat /\ b.count \in Nat /\ b.depth \in Nat
      OBVIOUS
    <2> HIDE DEF F
    <2>00. a.count <= b.count
      BY <1>5
    <2>1. CASE /\ a.base = frame.base /\ a.count = j
               /\ b.base = frame.base + j + 1 /\ b.count = frame.count - j - 1
      BY <1>3, <2>00, <2>0, <2>1 DEF Apart
    <2>2. CASE /\ b.base = frame.base /\ b.count = j
               /\ a.base = frame.base + j + 1 /\ a.count = frame.count - j - 1
      BY <1>3, <2>00, <2>0, <2>2 DEF Apart
    <2> QED
      BY <1>4, <1>5, <2>0, <2>1, <2>2
  <1>7. PICK n \in Nat : n = Len(stack)
    BY <1>2, LenProperties DEF InvFrames
  <1>8. /\ stack \in Seq(F) /\ DOMAIN stack = 1..n /\ stack' \in Seq(F)
        /\ Len(stack') = n + 1 /\ DOMAIN stack' = 1..(n + 1) /\ stack'[1] = b
        /\ \A m \in 1..n : stack'[m + 1] = stack[m] /\ stack[m] \in F
    <2>1. stack \in Seq(F) /\ <<b>> \in Seq(F) /\ Len(<<b>>) = 1
      BY <1>2 DEF InvFrames
    <2> HIDE DEF F
    <2>2. /\ stack' \in Seq(F) /\ Len(stack') = n + 1
          /\ \A m \in 1..(n + 1) : stack'[m] = IF m <= 1 THEN <<b>>[m] ELSE stack[m - 1]
      BY <1>5, <1>7, <2>1, ConcatProperties
    <2>3. \A m \in 1..n : stack'[m + 1] = stack[m]
      <3> SUFFICES ASSUME NEW m \in 1..n PROVE stack'[m + 1] = stack[m]
        OBVIOUS
      <3>1. m + 1 \in 1..(n + 1) /\ ~(m + 1 <= 1) /\ (m + 1) - 1 = m
        BY <1>7
      <3> QED
        BY <2>2, <3>1
    <2>4. \A m \in 1..n : stack[m] \in F
      BY <1>7, <2>1, ElementOfSeq
    <2> QED
      BY <1>7, <2>1, <2>2, <2>3, <2>4, LenProperties
  <1> HIDE DEF F
  <1>9. ASSUME NEW m \in 1..(n + 1), m # 1
        PROVE  m - 1 \in 1..n /\ stack'[m] = stack[m - 1]
    <2>1. m - 1 \in 1..n /\ (m - 1) + 1 = m
      BY <1>7, <1>9
    <2> QED
      BY <1>8, <2>1
  <1>10. Indices' = Indices /\ array' \in [Indices -> Indices] /\ Permutation'
    BY <1>1, <1>2, <1>3, SwapFacts DEF Indices, Permutation
  <1>11. TypeOK'
    <2>1. \A m \in 1..n : FrameOK(stack[m])
      BY <1>2, <1>8 DEF TypeOK
    <2>2. FrameOK(a) /\ FrameOK(b)
      BY <1>3, <1>6 DEF FrameOK
    <2>3. \A m \in 1..(n + 1) : FrameOK(stack'[m])
      BY <1>8, <1>9, <2>1, <2>2
    <2>4. FrameOK(frame)' /\ (\A m \in DOMAIN stack : FrameOK(stack[m]))'
      BY <1>1, <1>5, <1>8, <2>2, <2>3 DEF FrameOK
    <2>5. /\ size' \in Nat /\ comparison' \in {"honest", "arbitrary"}
          /\ key' \in [Indices' -> IF comparison' = "honest" THEN Keys ELSE {0}]
          /\ array' \in [Indices' -> Indices']
          /\ i' \in Nat /\ j' \in Nat /\ end' \in Nat
      BY <1>1, <1>2, <1>10 DEF TypeOK
    <2> QED
      BY <1>1, <2>4, <2>5 DEF TypeOK
  <1>12. InvFrames'
    <2>1. ASSUME NEW m \in 1..n
          PROVE  Apart(a, stack[m]) /\ Apart(b, stack[m]) /\ Apart(stack[m], b)
      <3>1. Apart(frame, stack[m]) /\ stack[m] \in F
        BY <1>2, <1>8 DEF InvFrames
      <3> QED
        BY <1>3, <1>5, <1>6, <3>1, PartApart DEF F
    <2>2. \A m \in 1..(n + 1) : Apart(a, stack'[m])
      BY <1>6, <1>8, <1>9, <2>1
    <2>3. ASSUME NEW l \in 1..(n + 1), NEW m \in 1..(n + 1), l # m
          PROVE  Apart(stack'[l], stack'[m])
      <3>1. CASE l = 1
        BY <1>8, <1>9, <2>1, <2>3, <3>1
      <3>2. CASE m = 1
        BY <1>8, <1>9, <2>1, <2>3, <3>2
      <3>3. CASE l # 1 /\ m # 1
        <4>1. /\ l - 1 \in 1..n /\ m - 1 \in 1..n /\ l - 1 # m - 1
              /\ stack'[l] = stack[l - 1] /\ stack'[m] = stack[m - 1]
          BY <1>7, <1>9, <2>3, <3>3
        <4> QED
          BY <1>2, <1>8, <4>1 DEF InvFrames
      <3> QED
        BY <3>1, <3>2, <3>3
    <2> QED
      BY <1>1, <1>5, <1>8, <2>2, <2>3 DEF InvFrames, Apart, F
  <1>13. InvOrder'
    <2>1. ASSUME comparison = "honest", NEW x \in Indices, NEW y \in Indices, x < y,
                 ~(Inside(a, x) /\ Inside(a, y)), ~(Inside(b, x) /\ Inside(b, y)),
                 \A m \in 1..n : ~(Inside(stack[m], x) /\ Inside(stack[m], y))
          PROVE  key[array'[x]] <= key[array'[y]]
      <3>0. x \in Nat /\ y \in Nat
        BY <1>3 DEF Indices
      <3>1. CASE Inside(frame, x) /\ Inside(frame, y)
        <4>1. /\ x - frame.base \in 0..Last /\ y - frame.base \in 0..Last
              /\ x - frame.base < y - frame.base
              /\ frame.base + (x - frame.base) = x /\ frame.base + (y - frame.base) = y
          BY <1>3, <2>1, <3>0, <3>1 DEF Inside
        <4>2. x - frame.base <= j /\ j <= y - frame.base
          <5>1. ~(Inside(LeftPart, x) /\ Inside(LeftPart, y))
                /\ ~(Inside(RightPart, x) /\ Inside(RightPart, y))
            BY <1>5, <2>1
          <5> QED
            BY <1>3, <1>4, <2>1, <3>0, <3>1, <5>1 DEF Inside
        <4>3. New(x - frame.base) <= New(y - frame.base)
          BY <1>1, <1>2, <2>1, <4>1, <4>2, SplitOrder
        <4> QED
          BY <4>1, <4>3 DEF New
      <3>2. CASE ~(Inside(frame, x) /\ Inside(frame, y))
        <4>1. ~Together(x, y)
          BY <1>8, <2>1, <3>2 DEF Together
        <4> QED
          BY <1>1, <1>2, <1>3, <2>1, <4>1, SwapOrder
      <3> QED
        BY <3>1, <3>2
    <2>2. ASSUME NEW x \in Indices, NEW y \in Indices, ~Together(x, y)'
          PROVE  /\ ~(Inside(a, x) /\ Inside(a, y)) /\ ~(Inside(b, x) /\ Inside(b, y))
                 /\ \A m \in 1..n : ~(Inside(stack[m], x) /\ Inside(stack[m], y))
      <3>1. ~(Inside(a, x) /\ Inside(a, y))
        BY <1>1, <1>5, <2>2 DEF Together, Inside
      <3>2. \A m \in 1..(n + 1) : ~(Inside(stack'[m], x) /\ Inside(stack'[m], y))
        BY <1>8, <2>2 DEF Together, Inside
      <3>3. 1 \in 1..(n + 1) /\ \A m \in 1..n : m + 1 \in 1..(n + 1)
        BY <1>7
      <3> QED
        BY <1>8, <3>1, <3>2, <3>3
    <2> QED
      BY <1>1, <1>10, <2>1, <2>2 DEF InvOrder, KeyAt
  <1>14. InvDepth'
    <2>1. PICK p \in Nat \ {0} : p = 2 ^ n /\ 2 ^ (n + 1) = 2 * p
      BY <1>7, PowerDoubles
    <2>2. frame.count * p <= size
      BY <1>2, <1>7, <2>1 DEF InvDepth
    <2>3. b.count * p <= frame.count * p /\ (2 * a.count) * p <= frame.count * p
          /\ 2 * p <= frame.count * p
      BY <1>3, <1>6, <2>1, ProductGrows
    <2>4. a.count * 2 ^ (n + 1) <= size
      <3>1. a.count * (2 * p) = (2 * a.count) * p
        BY <1>6, <2>1
      <3>2. (2 * a.count) * p \in Nat /\ frame.count * p \in Nat
        BY <1>3, <1>6, <2>1
      <3> QED
        BY <1>3, <2>1, <2>2, <2>3, <3>1, <3>2
    <2>5. 2 ^ (n + 1) <= size
      <3>1. frame.count * p \in Nat
        BY <1>3, <2>1
      <3> QED
        BY <1>3, <2>1, <2>2, <2>3, <3>1
    <2>6. ASSUME NEW m \in 1..(n + 1)
          PROVE  stack'[m].count * 2 ^ ((n + 1) - m) <= size
      <3>1. CASE m = 1
        <4>1. (n + 1) - m = n
          BY <1>7, <3>1
        <4>2. b.count * p \in Nat /\ frame.count * p \in Nat
          BY <1>3, <1>6, <2>1
        <4>3. b.count * p <= size
          BY <1>3, <2>2, <2>3, <4>2
        <4> QED
          BY <1>8, <2>1, <3>1, <4>1, <4>3
      <3>2. CASE m # 1
        <4>1. m - 1 \in 1..n /\ stack'[m] = stack[m - 1] /\ n - (m - 1) = (n + 1) - m
          BY <1>7, <1>9, <3>2
        <4>2. stack[m - 1].count * 2 ^ (n - (m - 1)) <= size
          BY <1>2, <1>7, <1>8, <4>1 DEF InvDepth
        <4> QED
          BY <4>1, <4>2
      <3> QED
        BY <3>1, <3>2
    <2> QED
      BY <1>1, <1>5, <1>8, <2>4, <2>5, <2>6 DEF InvDepth
  <1>15. InvPartition' /\ InvInsertion' /\ InvHeap'
    BY <1>1 DEF InvPartition, InvInsertion, InvHeap
  <1> QED
    BY <1>10, <1>11, <1>12, <1>13, <1>14, <1>15 DEF IInv

-----------------------------------------------------------------------------
LEMMA PowerOfZero == 2 ^ 0 = 1
  <1>1. IsFiniteSet({}) /\ Cardinality({}) = 0
    BY FS_EmptySet
  <1>2. Cardinality(SUBSET {}) = 2 ^ 0
    BY <1>1, FS_SUBSET
  <1>3. SUBSET {} = {{}} /\ Cardinality({{}}) = 1
    BY FS_Singleton
  <1> QED
    BY <1>2, <1>3

LEMMA InitHolds == Init => IInv
  <1> SUFFICES ASSUME Init PROVE IInv
    OBVIOUS
  <1>1. PICK factor \in DepthFactors : frame = Frame(0, size, factor * Log2Floor(size))
    BY DEF Init
  <1>2. /\ size \in Nat /\ stack = <<>> /\ i = 0 /\ j = 0 /\ end = 0
        /\ pc = IF size <= 1 THEN "done" ELSE "sort"
        /\ array = [n \in Indices |-> n]
    BY SortAssumption DEF Init
  <1>3. /\ frame \in [base : Nat, count : Nat, depth : Nat]
        /\ frame.base = 0 /\ frame.count = size /\ frame.depth \in Nat
    <2>1. factor \in Nat /\ Log2Floor(size) \in Nat
      BY <1>2, LogType, SortAssumption
    <2>2. factor * Log2Floor(size) \in Nat
      BY <2>1
    <2> QED
      BY <1>1, <1>2, <2>2 DEF Frame
  <1>4. DOMAIN stack = {} /\ Len(stack) = 0 /\ stack \in Seq([base : Nat, count : Nat, depth : Nat])
    BY <1>2
  <1>5. TypeOK
    <2>1. FrameOK(frame) /\ \A n \in DOMAIN stack : FrameOK(stack[n])
      BY <1>2, <1>3, <1>4 DEF FrameOK
    <2>2. /\ comparison \in {"honest", "arbitrary"} /\ array \in [Indices -> Indices]
          /\ key \in [Indices -> IF comparison = "honest" THEN Keys ELSE {0}]
      BY <1>2, SortAssumption DEF Init
    <2>3. pc \in {"sort", "partition", "insert", "build", "sift", "done"}
      BY <1>2
    <2> QED
      BY <1>2, <2>1, <2>2, <2>3 DEF TypeOK
  <1>6. Permutation
    BY <1>2 DEF Permutation
  <1>7. InvFrames
    BY <1>2, <1>3, <1>4 DEF InvFrames
  <1>8. ASSUME NEW x \in Indices, NEW y \in Indices, x < y PROVE Together(x, y)
    <2>1. 0 <= x /\ x < size /\ 0 <= y /\ y < size /\ ~(size <= 1)
      BY <1>2, <1>8 DEF Indices
    <2> QED
      BY <1>2, <1>3, <2>1 DEF Together, Inside
  <1>9. InvOrder
    BY <1>8 DEF InvOrder
  <1>10. InvPartition /\ InvInsertion /\ InvHeap
    BY <1>2 DEF InvPartition, InvInsertion, InvHeap
  <1>11. InvDepth
    BY <1>2, <1>3, <1>4, PowerOfZero DEF InvDepth
  <1> QED
    BY <1>5, <1>6, <1>7, <1>9, <1>10, <1>11 DEF IInv

LEMMA StandingKeeps == IInv /\ UNCHANGED vars => IInv'
  <1> SUFFICES ASSUME IInv, UNCHANGED vars PROVE IInv'
    OBVIOUS
  <1> USE DEF vars, IInv
  <1>1. Indices' = Indices /\ Last' = Last
    BY DEF Indices, Last
  <1>2. TypeOK' /\ Permutation' /\ InvFrames' /\ InvDepth'
    BY <1>1 DEF TypeOK, FrameOK, Permutation, InvFrames, InvDepth
  <1>3. InvOrder'
    BY <1>1 DEF InvOrder, KeyAt, Together
  <1>4. InvPartition' /\ InvInsertion' /\ InvHeap'
    BY <1>1 DEF InvPartition, InvInsertion, InvHeap, At, KeyAt
  <1> QED
    BY <1>2, <1>3, <1>4

LEMMA StepKeeps == IInv /\ [Next]_vars => IInv'
  BY InsertKeeps, HeapifyKeeps, PartitionKeeps, ScanKeeps, SplitKeeps, SinkKeeps, SunkKeeps,
     InsertedKeeps, BuildNextKeeps, PopKeeps, HeapDoneKeeps, SiftDownKeeps, AtLeafKeeps,
     StandingKeeps DEF Next

(* The array changes by swaps of two places of the running frame.          *)
LEMMA StepSwaps ==
  ASSUME IInv, [Next]_vars
  PROVE  array' = array \/ \E a, b \in 0..Last : array' = Swapped(array, a, b)
  <1>1. TypeOK /\ InvFrames /\ InvPartition /\ InvInsertion /\ InvHeap
    BY DEF IInv
  <1>2. CASE Partition
    <2>1. array' = Swapped(array, frame.count \div 2, Last) /\ 2 <= frame.count /\ frame.count \in Nat
      BY <1>1, <1>2, SortAssumption, Places DEF Partition
    <2>2. frame.count \div 2 \in 0..Last /\ Last \in 0..Last
      BY <2>1 DEF Last
    <2> QED
      BY <2>1, <2>2
  <1>3. CASE Scan
    <2>1. i \in 0..Last /\ j \in 0..Last
      BY <1>1, <1>3, Places DEF Scan, InvPartition
    <2> QED
      BY <1>3, <2>1 DEF Scan
  <1>4. CASE Split
    <2>1. j \in 0..Last /\ Last \in 0..Last
      BY <1>1, <1>4, Places DEF Split, InvPartition
    <2> QED
      BY <1>4, <2>1 DEF Split
  <1>5. CASE Sink
    <2>1. j \in 0..Last /\ j - 1 \in 0..Last
      BY <1>1, <1>5, Places DEF Sink, InvInsertion, Last
    <2> QED
      BY <1>5, <2>1 DEF Sink
  <1>6. CASE Pop
    <2>1. 0 \in 0..Last /\ end \in 0..Last
      BY <1>1, <1>6, Places DEF Pop, InvHeap
    <2> QED
      BY <1>6, <2>1 DEF Pop
  <1>7. CASE SiftDown
    <2>1. PICK child \in Children : array' = array \/ array' = Swapped(array, j, child)
      BY <1>7 DEF SiftDown
    <2>2. pc = "sift" /\ child \in 0..end /\ i \in Nat /\ j \in Nat /\ end \in Nat /\ Last \in Nat
          /\ j <= end /\ end <= Last
      BY <1>7, LargerChild, Sifting DEF SiftDown
    <2>3. j \in 0..Last /\ child \in 0..Last
      BY <2>2
    <2> QED
      BY <2>1, <2>3
  <1>8. CASE \/ Insert \/ Heapify \/ Sunk \/ Inserted \/ BuildNext \/ HeapDone \/ AtLeaf
             \/ UNCHANGED vars
    BY <1>8 DEF Insert, Heapify, Sunk, Inserted, BuildNext, HeapDone, AtLeaf, vars
  <1> QED
    BY <1>2, <1>3, <1>4, <1>5, <1>6, <1>7, <1>8 DEF Next

-----------------------------------------------------------------------------
(* The frames still to be sorted are disjoint parts of the array, whatever *)
(* shares none of them is in order, and the running loop - partition,      *)
(* insertion or heap - keeps its own order inside its frame.               *)
THEOREM Inductive == Spec => []IInv
  BY InitHolds, StepKeeps, PTL DEF Spec

(* Every index of bc_core_sort_with_compare stays in its range, every      *)
(* frame inside the array.                                                 *)
THEOREM TypeCorrect == Spec => []TypeOK
  <1>1. IInv => TypeOK
    BY DEF IInv
  <1> QED
    BY <1>1, Inductive, PTL

(* Whatever the comparison answers no element is lost or doubled, at any   *)
(* step, and with an honest one bc_core_sort_with_compare ends in order:   *)
(* by insertion, by partitions or by the heap.                             *)
THEOREM Sorted == Spec => []SortedPermutation
  <1>1. ASSUME IInv PROVE SortedPermutation
    <2>1. ASSUME pc = "done", comparison = "honest", NEW x \in Indices, NEW y \in Indices, x < y
          PROVE  key[array[x]] <= key[array[y]]
      <3>1. ~Together(x, y)
        BY <1>1, <2>1 DEF IInv, InvFrames, Together
      <3> QED
        BY <1>1, <2>1, <3>1 DEF IInv, InvOrder, KeyAt
    <2> QED
      BY <1>1, <2>1 DEF IInv, SortedPermutation, InOrder
  <1> QED
    BY <1>1, Inductive, PTL

(* bc_core_sort_introsort calls itself on the smaller part, so that it is  *)
(* never deeper than the logarithm of the count, however bad the pivots    *)
(* and the comparison are.                                                 *)
THEOREM Shallow == Spec => []ShallowStack
  <1>1. ASSUME IInv PROVE ShallowStack
    <2>1. size \in Nat /\ stack \in Seq([base : Nat, count : Nat, depth : Nat])
      BY <1>1 DEF IInv, TypeOK, InvFrames
    <2>2. Len(stack) \in Nat /\ Log2Floor(size) \in Nat
      BY <2>1, LenProperties, LogType
    <2>3. CASE stack = <<>>
      BY <2>2, <2>3 DEF ShallowStack
    <2>4. CASE stack # <<>>
      <3>1. 2 ^ Len(stack) <= size
        BY <1>1, <2>4 DEF IInv, InvDepth
      <3> QED
        BY <2>1, <2>2, <3>1, LogBound DEF ShallowStack
    <2> QED
      BY <2>3, <2>4
  <1> QED
    BY <1>1, Inductive, PTL

(* No loop exchanges an element outside the frame that runs.               *)
THEOREM StaysInside == Spec => InsideFrame
  <1>1. ASSUME IInv, [Next]_vars
        PROVE  [\A x \in Indices :
                  x < frame.base \/ x >= frame.base + frame.count => array'[x] = array[x]]_vars
    <2>1. ASSUME NEW x \in Indices, x < frame.base \/ x >= frame.base + frame.count
          PROVE  array'[x] = array[x]
      <3>1. CASE array' = array
        BY <3>1
      <3>2. ASSUME NEW a \in 0..Last, NEW b \in 0..Last, array' = Swapped(array, a, b)
            PROVE  array'[x] = array[x]
        <4>1. TypeOK /\ x \in Int
          BY <1>1 DEF IInv, TypeOK, Indices
        <4>2. x # frame.base + a /\ x # frame.base + b
          BY <2>1, <3>2, <4>1, Places DEF Last
        <4> QED
          BY <3>2, <4>1, <4>2, SwapFacts
      <3> QED
        BY <1>1, <3>1, <3>2, StepSwaps
    <2> QED
      BY <2>1
  <1> QED
    BY <1>1, Inductive, PTL DEF Spec, InsideFrame
=============================================================================
