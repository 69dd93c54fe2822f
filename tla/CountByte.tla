----------------------------- MODULE CountByte ------------------------------
(***************************************************************************)
(* bc_core_count_byte and bc_core_count_lines: how often a byte occurs,    *)
(* and bc_core_count_matching: how often a byte of a set does.  The AVX2   *)
(* kernel for a byte counts in the lanes of its vectors, which have as     *)
(* many bits as a byte, and adds them up before one of them can overflow;  *)
(* the AVX-512 kernel and the one for a set count the bits of masks.       *)
(* The tables with which a set is looked up are those of module Find.      *)
(***************************************************************************)
EXTENDS CountText, FiniteSets

CONSTANTS
  Vectors,    \* the vectors of a batch step, each with an accumulator: 4
  LaneMax,    \* the largest number a lane holds: 255
  Targets,    \* the byte, or the bytes of the set, that are counted
  ByteTexts   \* the texts they are counted in

ASSUME ByteAssumption ==
  /\ Vectors \in Nat \ {0}
  /\ LaneMax \in Nat \ {0}
  /\ Targets \subseteq Bytes
  /\ ByteTexts \subseteq Seq(Bytes)

VARIABLES
  kernel,      \* "avx2" or "avx512": what g_count_byte_impl points to;
               \* "matching": what g_count_matching_impl points to
  iterations,  \* the steps of the batch that are left
  lane         \* the accumulators, a number for every byte of a step

byteVars == <<kernel, iterations, lane>>

Lanes == 0..(Vectors * W - 1)

(* The bytes of a vector, and those of a batch step.                       *)
VectorBytes == IF kernel = "avx512" THEN 2 * W ELSE W
StepBytes   == Vectors * VectorBytes

ByteInit ==
  /\ function = "byte"
  /\ kernel \in {"avx2", "avx512", "matching"}
  /\ text \in ByteTexts
  /\ pc = IF text = <<>> THEN "done" ELSE "step"
  /\ offset = 0
  /\ iterations = 0
  /\ lane = [l \in Lanes |-> 0]
  /\ count = 0

Unchanged == UNCHANGED <<function, text, kernel>>

(* The byte after n others matches.                                        *)
Hit(n) == text[n + 1] \in Targets

(* How many of the next n bytes match.                                     *)
Hits(n) == Cardinality({p \in offset..(offset + n - 1) : Hit(p)})

StepsLeft == (Len(text) - offset) \div StepBytes

(* A fault: one step more than a lane has room for.                        *)
BatchStepsOver == IF StepsLeft > LaneMax + 1 THEN LaneMax + 1 ELSE StepsLeft

BatchSteps == IF StepsLeft > LaneMax THEN LaneMax ELSE StepsLeft

(* The lanes are cleared.                                                  *)
StartBatch ==
  /\ pc = "step"
  /\ kernel = "avx2"
  /\ offset + StepBytes <= Len(text)
  /\ iterations' = BatchSteps
  /\ lane' = [l \in Lanes |-> 0]
  /\ pc' = "batch"
  /\ Unchanged /\ UNCHANGED <<offset, count>>

(* A lane that overflows starts again from 0.                              *)
BatchStep ==
  /\ pc = "batch"
  /\ iterations > 0
  /\ lane' = [l \in Lanes |->
                IF Hit(offset + l) THEN (lane[l] + 1) % (LaneMax + 1) ELSE lane[l]]
  /\ offset' = offset + StepBytes
  /\ iterations' = iterations - 1
  /\ Unchanged /\ UNCHANGED <<pc, count>>

(* The sum of the lanes.                                                   *)
LaneSum == Cardinality({unit \in Lanes \X (1..LaneMax) : unit[2] <= lane[unit[1]]})

EndBatch ==
  /\ pc = "batch"
  /\ iterations = 0
  /\ count' = count + LaneSum
  /\ pc' = "step"
  /\ Unchanged /\ UNCHANGED <<offset, iterations, lane>>

MaskStep ==
  /\ pc = "step"
  /\ kernel # "avx2"
  /\ offset + StepBytes <= Len(text)
  /\ count' = count + Hits(StepBytes)
  /\ offset' = offset + StepBytes
  /\ Unchanged /\ UNCHANGED <<pc, iterations, lane>>

EndSteps ==
  /\ pc = "step"
  /\ offset + StepBytes > Len(text)
  /\ pc' = "vectors"
  /\ Unchanged /\ UNCHANGED <<offset, iterations, lane, count>>

VectorStep ==
  /\ pc = "vectors"
  /\ offset + VectorBytes <= Len(text)
  /\ count' = count + Hits(VectorBytes)
  /\ offset' = offset + VectorBytes
  /\ Unchanged /\ UNCHANGED <<pc, iterations, lane>>

EndVectors ==
  /\ pc = "vectors"
  /\ offset + VectorBytes > Len(text)
  /\ pc' = "bytes"
  /\ Unchanged /\ UNCHANGED <<offset, iterations, lane, count>>

(* One byte, or, under a mask, what is left of a vector.                   *)
TailStep ==
  /\ pc = "bytes"
  /\ offset < Len(text)
  /\ LET n == IF kernel = "avx512" THEN Len(text) - offset ELSE 1
     IN count' = count + Hits(n) /\ offset' = offset + n
  /\ Unchanged /\ UNCHANGED <<pc, iterations, lane>>

EndBytes ==
  /\ pc = "bytes"
  /\ offset = Len(text)
  /\ pc' = "done"
  /\ Unchanged /\ UNCHANGED <<offset, iterations, lane, count>>

ByteNext ==
  \/ StartBatch \/ BatchStep \/ EndBatch \/ MaskStep \/ EndSteps
  \/ VectorStep \/ EndVectors \/ TailStep \/ EndBytes

-----------------------------------------------------------------------------
(* Every kernel counts every occurrence once: no lane overflows however    *)
(* long the text and wherever the occurrences are, and the batches, the    *)
(* vectors and the bytes left over neither overlap nor leave a gap.        *)
EveryHitCounted ==
  function = "byte" /\ pc = "done" =>
    count = Cardinality({p \in DOMAIN text : text[p] \in Targets})

-----------------------------------------------------------------------------
(* What was found, in the count and in the lanes, are the matches among    *)
(* the bytes taken; a lane has room for the iterations that are left, and  *)
(* the text has their bytes.                                               *)
HitsBefore(n) == Cardinality({p \in 0..(n - 1) : Hit(p)})

InvByte ==
  function = "byte" =>
    /\ kernel \in {"avx2", "avx512", "matching"}
    /\ text \in Seq(Bytes)
    /\ pc \in {"step", "batch", "vectors", "bytes", "done"}
    /\ offset \in 0..Len(text)
    /\ count \in Nat
    /\ iterations \in Nat
    /\ lane \in [Lanes -> 0..LaneMax]
    /\ pc = "batch" => /\ kernel = "avx2"
                       /\ \A l \in Lanes : lane[l] + iterations <= LaneMax
                       /\ offset + iterations * StepBytes <= Len(text)
    /\ count + (IF pc = "batch" THEN LaneSum ELSE 0) = HitsBefore(offset)
    /\ pc = "done" => offset = Len(text)
=============================================================================
