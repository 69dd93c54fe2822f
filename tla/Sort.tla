-------------------------------- MODULE Sort --------------------------------
(***************************************************************************)
(* bc_core_sort_with_compare: introsort in place, with a comparison the    *)
(* caller provides.  Every call of the comparison is a step, and a caller  *)
(* may be honest (a strict weak order by key) or answer anything at all.   *)
(*                                                                         *)
(* Elements are named by the index they had at the call.  The recursion    *)
(* goes into the smaller part; what the function still has to do when it   *)
(* returns, the larger part, is a frame of the stack.                      *)
(***************************************************************************)
EXTENDS Integers, Sequences, FiniteSets

CONSTANTS
  Counts,       \* the numbers of elements
  Keys,         \* the keys honest comparisons look at
  Comparisons,  \* a subset of {"honest", "arbitrary"}
  Threshold,    \* BC_CORE_SORT_INSERTION_THRESHOLD: 16
  DepthFactors  \* partitions allowed per binary digit of the count: {2}

ASSUME SortAssumption ==
  /\ Counts \subseteq Nat
  /\ Keys \subseteq Int
  /\ Comparisons \subseteq {"honest", "arbitrary"}
  /\ Threshold \in Nat \ {0}
  /\ DepthFactors \subseteq Nat

VARIABLES
  size,        \* the count of the call
  comparison,  \* the kind of comparison the caller provides
  key,         \* the key of every element, if the caller is honest
  array,       \* the elements in their present order, from index 0 on
  frame,       \* base, count and depth limit of the running activation
  stack,       \* the frames of the callers
  pc,          \* the loop that runs
  i, j,        \* its variables: outer and inner, scan and store, start and root
  end          \* the last index of the heap

vars == <<size, comparison, key, array, frame, stack, pc, i, j, end>>

Indices == 0..(size - 1)

Frame(base, count, depth) == [base |-> base, count |-> count, depth |-> depth]

(* bc_core_sort_log2_floor: how often n can be halved before it is 1.      *)
Log2Floor(n) == Cardinality({k \in 1..n : 2 ^ k <= n})

Init ==
  /\ size \in Counts
  /\ comparison \in Comparisons
  /\ key \in [Indices -> IF comparison = "honest" THEN Keys ELSE {0}]
  /\ array = [n \in Indices |-> n]
  /\ \E factor \in DepthFactors : frame = Frame(0, size, factor * Log2Floor(size))
  /\ stack = <<>>
  /\ pc = IF size <= 1 THEN "done" ELSE "sort"
  /\ i = 0
  /\ j = 0
  /\ end = 0

(* bc_core_sort_swap_fast: the elements at two offsets of the frame.       *)
Swapped(a, x, y) ==
  [a EXCEPT ![frame.base + x] = a[frame.base + y],
            ![frame.base + y] = a[frame.base + x]]

(* What less_than may answer for the elements at two offsets.              *)
LessThan(x, y) ==
  IF comparison = "honest"
  THEN {key[array[frame.base + x]] < key[array[frame.base + y]]}
  ELSE BOOLEAN

Unchanged == UNCHANGED <<size, comparison, key>>

-----------------------------------------------------------------------------
(* The loop of bc_core_sort_introsort.                                     *)
Last == frame.count - 1

Insert ==
  /\ pc = "sort"
  /\ frame.count <= Threshold
  /\ pc' = "insert"
  /\ i' = 1
  /\ j' = 1
  /\ Unchanged /\ UNCHANGED <<array, frame, stack, end>>

Heapify ==
  /\ pc = "sort"
  /\ frame.count > Threshold
  /\ frame.depth = 0
  /\ pc' = "build"
  /\ i' = (frame.count - 2) \div 2 + 1
  /\ end' = Last
  /\ Unchanged /\ UNCHANGED <<array, frame, stack, j>>

(* The pivot goes to the end.                                              *)
Partition ==
  /\ pc = "sort"
  /\ frame.count > Threshold
  /\ frame.depth > 0
  /\ array' = Swapped(array, frame.count \div 2, Last)
  /\ frame' = [frame EXCEPT !.depth = @ - 1]
  /\ pc' = "partition"
  /\ i' = 0
  /\ j' = 0
  /\ Unchanged /\ UNCHANGED <<stack, end>>

(* i is scan, j is store.                                                  *)
Scan ==
  /\ pc = "partition"
  /\ i < Last
  /\ \E less \in LessThan(i, Last) :
       IF less
       THEN array' = Swapped(array, i, j) /\ j' = j + 1
       ELSE UNCHANGED <<array, j>>
  /\ i' = i + 1
  /\ Unchanged /\ UNCHANGED <<frame, stack, pc, end>>

LeftPart == Frame(frame.base, j, frame.depth)

RightPart == Frame(frame.base + j + 1, frame.count - j - 1, frame.depth)

(* A fault: the recursion goes into the larger part.                       *)
SplitDeep ==
  /\ pc = "partition"
  /\ i = Last
  /\ array' = Swapped(array, j, Last)
  /\ IF LeftPart.count < RightPart.count
     THEN frame' = RightPart /\ stack' = <<LeftPart>> \o stack
     ELSE frame' = LeftPart /\ stack' = <<RightPart>> \o stack
  /\ pc' = "sort"
  /\ Unchanged /\ UNCHANGED <<i, j, end>>

(* The pivot goes between the parts; the smaller one is sorted first, by a *)
(* call, the larger one by the loop.                                       *)
Split ==
  /\ pc = "partition"
  /\ i = Last
  /\ array' = Swapped(array, j, Last)
  /\ IF LeftPart.count < RightPart.count
     THEN frame' = LeftPart /\ stack' = <<RightPart>> \o stack
     ELSE frame' = RightPart /\ stack' = <<LeftPart>> \o stack
  /\ pc' = "sort"
  /\ Unchanged /\ UNCHANGED <<i, j, end>>

(* The activation returns: its caller goes on with the larger part.        *)
Return ==
  IF stack = <<>>
  THEN pc' = "done" /\ UNCHANGED <<frame, stack>>
  ELSE pc' = "sort" /\ frame' = Head(stack) /\ stack' = Tail(stack)

-----------------------------------------------------------------------------
(* bc_core_sort_insertion: i is outer, j is inner.                         *)

(* A fault: the element before the frame is looked at as well.             *)
SinkFurther ==
  /\ pc = "insert"
  /\ i < frame.count
  /\ frame.base + j > 0
  /\ \E less \in LessThan(j, j - 1) :
       IF less
       THEN array' = Swapped(array, j, j - 1) /\ j' = j - 1 /\ UNCHANGED i
       ELSE i' = i + 1 /\ j' = i + 1 /\ UNCHANGED array
  /\ Unchanged /\ UNCHANGED <<frame, stack, pc, end>>

Sink ==
  /\ pc = "insert"
  /\ i < frame.count
  /\ j > 0
  /\ \E less \in LessThan(j, j - 1) :
       IF less
       THEN array' = Swapped(array, j, j - 1) /\ j' = j - 1 /\ UNCHANGED i
       ELSE i' = i + 1 /\ j' = i + 1 /\ UNCHANGED array
  /\ Unchanged /\ UNCHANGED <<frame, stack, pc, end>>

Sunk ==
  /\ pc = "insert"
  /\ i < frame.count
  /\ j = 0
  /\ i' = i + 1
  /\ j' = i + 1
  /\ Unchanged /\ UNCHANGED <<array, frame, stack, pc, end>>

Inserted ==
  /\ pc = "insert"
  /\ i >= frame.count
  /\ Return
  /\ Unchanged /\ UNCHANGED <<array, i, j, end>>

-----------------------------------------------------------------------------
(* bc_core_sort_heap: i is start_plus_one while the heap is built and 0    *)
(* afterwards, j is the root that sifts down.                              *)

BuildNext ==
  /\ pc = "build"
  /\ i > 0
  /\ i' = i - 1
  /\ j' = i - 1
  /\ pc' = "sift"
  /\ Unchanged /\ UNCHANGED <<array, frame, stack, end>>

(* The heap is built, or has shrunk by one: its top goes to its end.       *)
Pop ==
  /\ pc = "build"
  /\ i = 0
  /\ end > 0
  /\ array' = Swapped(array, 0, end)
  /\ end' = end - 1
  /\ j' = 0
  /\ pc' = "sift"
  /\ Unchanged /\ UNCHANGED <<frame, stack, i>>

HeapDone ==
  /\ pc = "build"
  /\ i = 0
  /\ end = 0
  /\ Return
  /\ Unchanged /\ UNCHANGED <<array, i, j, end>>

(* A fault: the right child is not looked at.                              *)
ChildrenLeft == {2 * j + 1}

(* bc_core_sort_sift_down: the larger child, if the comparison says so.    *)
Children ==
  IF 2 * j + 2 <= end
  THEN {IF less THEN 2 * j + 2 ELSE 2 * j + 1 : less \in LessThan(2 * j + 1, 2 * j + 2)}
  ELSE {2 * j + 1}

(* A fault: the root does not follow the element that sinks.               *)
SiftDownInPlace ==
  /\ pc = "sift"
  /\ 2 * j + 1 <= end
  /\ \E child \in Children : \E less \in LessThan(j, child) :
       IF less
       THEN array' = Swapped(array, j, child) /\ UNCHANGED pc
       ELSE pc' = "build" /\ UNCHANGED array
  /\ Unchanged /\ UNCHANGED <<frame, stack, i, j, end>>

SiftDown ==
  /\ pc = "sift"
  /\ 2 * j + 1 <= end
  /\ \E child \in Children : \E less \in LessThan(j, child) :
       IF less
       THEN array' = Swapped(array, j, child) /\ j' = child /\ UNCHANGED pc
       ELSE pc' = "build" /\ UNCHANGED <<array, j>>
  /\ Unchanged /\ UNCHANGED <<frame, stack, i, end>>

AtLeaf ==
  /\ pc = "sift"
  /\ 2 * j + 1 > end
  /\ pc' = "build"
  /\ Unchanged /\ UNCHANGED <<array, frame, stack, i, j, end>>

-----------------------------------------------------------------------------
Next ==
  \/ Insert \/ Heapify \/ Partition
  \/ Scan \/ Split
  \/ Sink \/ Sunk \/ Inserted
  \/ BuildNext \/ Pop \/ HeapDone \/ SiftDown \/ AtLeaf

Spec == Init /\ [][Next]_vars

(* The call runs, and the comparison returns.                              *)
FairSpec == Spec /\ WF_vars(Next)

-----------------------------------------------------------------------------
(* The types of the variables.                                             *)
FrameOK(f) ==
  /\ f.base \in Nat /\ f.count \in Nat /\ f.depth \in Nat
  /\ f.base + f.count <= size

TypeOK ==
  /\ size \in Nat
  /\ comparison \in {"honest", "arbitrary"}
  /\ key \in [Indices -> IF comparison = "honest" THEN Keys ELSE {0}]
  /\ array \in [Indices -> Indices]
  /\ FrameOK(frame)
  /\ \A n \in DOMAIN stack : FrameOK(stack[n])
  /\ pc \in {"sort", "partition", "insert", "build", "sift", "done"}
  /\ i \in Nat /\ j \in Nat /\ end \in Nat

Permutation == \A x, y \in Indices : x # y => array[x] # array[y]

InOrder == \A x, y \in Indices : x < y => key[array[x]] <= key[array[y]]

(* Whatever the comparison answers, at every moment the array holds every  *)
(* element exactly once, and with an honest one the result is sorted.      *)
SortedPermutation ==
  Permutation /\ (pc = "done" /\ comparison = "honest" => InOrder)

(* The elements outside the frame that runs do not move: an activation     *)
(* stores to its own part only, whatever the comparison answers.           *)
InsideFrame ==
  [][\A x \in Indices :
       x < frame.base \/ x >= frame.base + frame.count => array'[x] = array[x]]_vars

(* Whatever the comparison answers, the recursion is no deeper than the    *)
(* binary logarithm of the count.                                          *)
ShallowStack == Len(stack) <= Log2Floor(size)

(* Whatever the comparison answers, the sort ends.                         *)
Terminates == <>(pc = "done")

-----------------------------------------------------------------------------
(* The parts of the inductive invariant.                                   *)
Inside(f, x) == f.base <= x /\ x < f.base + f.count

Apart(f, g) == f.base + f.count <= g.base \/ g.base + g.count <= f.base

(* Two places that a frame still to be sorted has in common.               *)
Together(x, y) ==
  \/ pc # "done" /\ Inside(frame, x) /\ Inside(frame, y)
  \/ \E n \in DOMAIN stack : Inside(stack[n], x) /\ Inside(stack[n], y)

KeyAt(x) == key[array[x]]

(* The keys by offset in the frame that runs.                              *)
At(x) == KeyAt(frame.base + x)

(* The running frame and those of the callers share no element.            *)
InvFrames ==
  /\ frame \in [base : Nat, count : Nat, depth : Nat]
  /\ stack \in Seq([base : Nat, count : Nat, depth : Nat])
  /\ \A n \in DOMAIN stack : Apart(frame, stack[n])
  /\ \A m, n \in DOMAIN stack : m # n => Apart(stack[m], stack[n])
  /\ pc \in {"partition", "build", "sift"} => 2 <= frame.count
  /\ pc = "done" => stack = <<>>

(* Only what shares a frame is out of order.                               *)
InvOrder ==
  comparison = "honest" =>
    \A x, y \in Indices : x < y /\ ~Together(x, y) => KeyAt(x) <= KeyAt(y)

(* What was scanned is less than the pivot below j, and not less from j on.*)
InvPartition ==
  pc = "partition" =>
    /\ j <= i /\ i <= Last
    /\ comparison = "honest" =>
         /\ \A x \in 0..(j - 1) : At(x) < At(Last)
         /\ \A x \in j..(i - 1) : At(Last) <= At(x)

(* Up to the outer index all is in order but for the element that sinks.   *)
InvInsertion ==
  pc = "insert" =>
    /\ 1 <= i /\ j <= i
    /\ i >= frame.count => j = i
    /\ comparison = "honest" =>
         \A x, y \in 0..Last : x < y /\ y <= i /\ y # j => At(x) <= At(y)

Child(x, y) == y = 2 * x + 1 \/ y = 2 * x + 2

(* From i on every element but the one that sifts down is no less than its *)
(* children, whose parent is no less than what may take its place; what    *)
(* was popped is in order, and no less than the heap.                      *)
InvHeap ==
  pc \in {"build", "sift"} =>
    /\ end <= Last
    /\ i > 0 => end = Last
    /\ i <= frame.count
    /\ pc = "sift" => i <= j /\ j <= end
    /\ comparison = "honest" =>
         /\ \A x, y \in 0..Last : x < y /\ end < y => At(x) <= At(y)
         /\ \A x, y \in 0..end :
              Child(x, y) /\ i <= x /\ (pc = "sift" => x # j) => At(y) <= At(x)
         /\ pc = "sift" =>
              \A x, y \in 0..end : Child(x, j) /\ Child(j, y) /\ i <= x => At(y) <= At(x)

(* A frame that was called has at most half of its caller's elements.      *)
InvDepth ==
  /\ frame.count * 2 ^ Len(stack) <= size
  /\ \A n \in DOMAIN stack : stack[n].count * 2 ^ (Len(stack) - n) <= size
  /\ stack # <<>> => 2 ^ Len(stack) <= size

IInv ==
  /\ TypeOK
  /\ Permutation
  /\ InvFrames
  /\ InvOrder
  /\ InvPartition
  /\ InvInsertion
  /\ InvHeap
  /\ InvDepth
=============================================================================
