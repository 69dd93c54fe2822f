---------------------------- MODULE ReaderProofs ----------------------------
(***************************************************************************)
(* What a reader guarantees for buffers of every capacity, at every        *)
(* address, and for every stream, cut in every way, as long as no          *)
(* compaction is one that bc_core_copy does not bear.                      *)
(***************************************************************************)
EXTENDS Reader, Integers, SequenceTheorems, TLAPS

(* The numbers an invariant speaks of.                                     *)
LEMMA Sizes ==
  ASSUME InvTypes, InvBuffer
  PROVE  /\ Base \in Nat /\ Capacity \in Nat \ {0} /\ W \in Nat \ {0}
         /\ readPosition \in Nat /\ fillPosition \in Nat /\ capacity \in Nat
         /\ Available \in Nat /\ Available <= capacity /\ capacity <= Capacity
         /\ fillPosition = readPosition + Available
         /\ fillPosition <= Capacity
         /\ received \in Nat /\ stream.length \in Nat /\ received <= stream.length
         /\ Len(delivered) \in Nat
         /\ DOMAIN mem = 0..(Base + Capacity - 1)
  <1>1. stream.length \in Nat
    BY ReaderAssumption DEF InvTypes, TypeOK
  <1> QED
    BY <1>1, ReaderAssumption DEF InvTypes, TypeOK, InvBuffer, Available

(* The steps that neither take nor add a byte.                             *)
LEMMA StillKeeps ==
  ASSUME IInv, pc # "compact", pc' # "compact",
         UNCHANGED <<positions, delivered, mem, stream, received, open, capacity>>
  PROVE  /\ BufferHoldsTheRest' /\ InvCompaction'
         /\ (pc' = "receive" => pc = "receive") => InvBuffer'
  BY DEF IInv, BufferHoldsTheRest, InvCompaction, InvBuffer, positions, Available, Byte

LEMMA StartCallKeeps ==
  ASSUME IInv, NEW c \in Calls, StartCall(c)
  PROVE  IInv'
  <1> USE DEF StartCall, positions, latches, copyVars, kernelVars
  <1>1. c \in [op : {"read", "exact", "line", "destroy"}, want : Nat]
    BY ReaderAssumption DEF Calls, Call
  <1>2. InvTypes'
    BY <1>1, Sizes DEF IInv, InvTypes, TypeOK
  <1>3. InvCall'
    BY <1>1, Sizes DEF IInv, InvCall
  <1>4. InvEnd'
    BY DEF IInv, InvEnd
  <1> QED
    BY <1>2, <1>3, <1>4, StillKeeps DEF IInv

(* The calls that return without a byte, and the answers of the kernel     *)
(* that bring none.                                                        *)
LEMMA ReturnKeeps ==
  ASSUME IInv, Reject \/ NothingToRead \/ ReadEnd \/ LineEnd \/ LineTooLong \/ ReceiveFailed
  PROVE  IInv'
  <1> USE DEF Reject, NothingToRead, ReadEnd, LineEnd, LineTooLong, ReceiveFailed, Return,
              positions, latches, copyVars, kernelVars
  <1>1. /\ UNCHANGED <<positions, delivered, mem, stream, received, open, capacity>>
        /\ UNCHANGED <<call, remaining, interrupts, vector, request, phase, at, eofLatched>>
        /\ pc # "compact" /\ pc' = "idle"
        /\ errorLatched' \in BOOLEAN /\ result' \in BOOLEAN
    BY DEF AtLine, Asks, IInv, InvTypes, TypeOK
  <1>2. InvTypes'
    BY <1>1 DEF IInv, InvTypes, TypeOK
  <1>3. InvCall'
    BY <1>1 DEF IInv, InvCall
  <1>4. InvEnd'
    BY <1>1 DEF IInv, InvEnd
  <1> QED
    BY <1>1, <1>2, <1>3, <1>4, StillKeeps DEF IInv

LEMMA DestroyKeeps == IInv /\ Destroy => IInv'
  <1> SUFFICES ASSUME IInv, Destroy PROVE IInv'
    OBVIOUS
  <1> USE DEF Destroy, Return, latches, copyVars, kernelVars
  <1>1. InvTypes'
    BY DEF IInv, InvTypes, TypeOK
  <1>2. InvCall' /\ InvEnd' /\ InvCompaction' /\ BufferHoldsTheRest'
    BY DEF InvCall, InvEnd, InvCompaction, BufferHoldsTheRest
  <1>3. InvBuffer'
    BY DEF IInv, InvBuffer
  <1> QED
    BY <1>1, <1>2, <1>3 DEF IInv

(* Bytes that leave the buffer are the next ones of the stream.            *)
LEMMA ConsumeKeeps ==
  ASSUME IInv, pc # "compact", pc' \notin {"compact", "receive"},
         NEW n \in Nat, n <= Available, open, Consume(n),
         UNCHANGED <<mem, stream, received, open, capacity>>
  PROVE  /\ delivered' \in Seq(Nat) /\ Len(delivered') = Len(delivered) + n
         /\ delivered' = [i \in 1..(Len(delivered) + n) |-> i]
         /\ readPosition' \in Nat /\ Available' = Available - n
         /\ InvBuffer' /\ BufferHoldsTheRest' /\ InvCompaction'
  <1> USE DEF Consume
  <1>0. /\ readPosition \in Nat /\ fillPosition \in Nat /\ Available \in Nat
        /\ fillPosition = readPosition + Available /\ Len(delivered) \in Nat
    BY Sizes DEF IInv
  <1>1. \A i \in 1..n : Buffered(n)[i] = Len(delivered) + i
    <2> SUFFICES ASSUME NEW i \in 1..n PROVE Byte(readPosition + i - 1) = Len(delivered) + i
      BY DEF Buffered
    <2>1. i \in 1..Available
      BY <1>0
    <2> QED
      BY <2>1 DEF IInv, BufferHoldsTheRest
  <1>2. Buffered(n) = [i \in 1..n |-> Len(delivered) + i]
    BY <1>1 DEF Buffered
  <1>3. Buffered(n) \in Seq(Nat) /\ Len(Buffered(n)) = n
    BY <1>0, <1>2
  <1>4. /\ delivered \in Seq(Nat)
        /\ \A i \in 1..Len(delivered) : delivered[i] = i
    BY DEF IInv, InvTypes, TypeOK, InvBuffer
  <1>5. /\ delivered' \in Seq(Nat) /\ Len(delivered') = Len(delivered) + n
        /\ \A i \in 1..(Len(delivered) + n) :
             delivered'[i] = IF i <= Len(delivered) THEN delivered[i]
                             ELSE Buffered(n)[i - Len(delivered)]
    BY <1>3, <1>4, ConcatProperties
  <1>6. ASSUME NEW i \in 1..(Len(delivered) + n) PROVE delivered'[i] = i
    <2>1. CASE i <= Len(delivered)
      BY <1>0, <1>4, <1>5, <2>1
    <2>2. CASE ~(i <= Len(delivered))
      <3>1. i - Len(delivered) \in 1..n
        BY <1>0, <2>2
      <3>2. delivered'[i] = Buffered(n)[i - Len(delivered)]
        BY <1>0, <1>5, <2>2
      <3>3. Buffered(n)[i - Len(delivered)] = Len(delivered) + (i - Len(delivered))
        BY <1>1, <3>1
      <3> QED
        BY <1>0, <3>2, <3>3
    <2> QED
      BY <2>1, <2>2
  <1>7. delivered' = [i \in 1..(Len(delivered) + n) |-> i]
    <2>1. delivered' = [i \in 1..(Len(delivered) + n) |-> delivered'[i]]
      BY <1>5, LenProperties
    <2> QED
      BY <1>6, <2>1
  <1>8. readPosition' \in Nat /\ Available' = Available - n
    BY <1>0 DEF Available
  <1>9. InvBuffer'
    BY <1>0, <1>5, <1>7, <1>8 DEF IInv, InvBuffer
  <1>10. BufferHoldsTheRest'
    <2>1. ASSUME NEW i \in 1..(Available - n)
          PROVE  Byte(readPosition + i - 1)' = Len(delivered') + i
      <3>1. n + i \in 1..Available /\ readPosition' + i - 1 = readPosition + (n + i) - 1
        BY <1>0
      <3>2. Byte(readPosition + (n + i) - 1) = Len(delivered) + (n + i)
        BY <3>1 DEF IInv, BufferHoldsTheRest
      <3> QED
        BY <1>0, <1>5, <3>1, <3>2 DEF Byte
    <2> QED
      BY <1>5, <1>8, <1>9, <2>1 DEF BufferHoldsTheRest, InvBuffer
  <1>11. InvCompaction'
    BY DEF InvCompaction
  <1> QED
    BY <1>5, <1>7, <1>8, <1>9, <1>10, <1>11

LEMMA TakeKeeps == IInv /\ Take => IInv'
  <1> SUFFICES ASSUME IInv, Take PROVE IInv'
    OBVIOUS
  <1> DEFINE n == IF remaining < Available THEN remaining ELSE Available
  <1> USE DEF Take, Return, latches, copyVars, kernelVars
  <1>1. remaining \in Nat /\ Available \in Nat
    BY Sizes DEF IInv, InvTypes, TypeOK
  <1>2. n \in Nat /\ n <= Available /\ n <= remaining /\ 0 < n
    BY <1>1, Sizes DEF IInv, Empty
  <1>3. open
    BY <1>2, Sizes DEF IInv, InvBuffer
  <1>4. /\ Consume(n) /\ remaining' = remaining - n
        /\ (pc' = "idle" /\ result' = TRUE) \/ (pc' = "call" /\ result' = result /\ call.op # "read")
    OBVIOUS
  <1>5. pc # "compact" /\ pc' \notin {"compact", "receive", "refilled"}
    BY <1>4
  <1> HIDE DEF n
  <1>6. /\ delivered' \in Seq(Nat) /\ Len(delivered') = Len(delivered) + n
        /\ readPosition' \in Nat /\ Available' = Available - n
        /\ InvBuffer' /\ BufferHoldsTheRest' /\ InvCompaction'
    BY <1>2, <1>3, <1>4, <1>5, ConsumeKeeps
  <1>7. InvTypes'
    <2>1. remaining' \in Nat
      BY <1>1, <1>2, <1>4
    <2>2. pc' \in {"idle", "call"} /\ result' \in BOOLEAN
      BY <1>4 DEF IInv, InvTypes, TypeOK
    <2>3. fillPosition' = fillPosition
      BY <1>4 DEF Consume
    <2>4. UNCHANGED <<latches, call, copyVars, kernelVars, open, capacity>>
      OBVIOUS
    <2> HIDE DEF Take
    <2> QED
      BY <1>6, <2>1, <2>2, <2>3, <2>4 DEF IInv, InvTypes, TypeOK
  <1>8. InvCall'
    <2>1. CASE pc' = "idle"
      BY <2>1 DEF InvCall
    <2>2. CASE pc' = "call" /\ call.op # "read"
      <3>1. call' = call /\ call.op = "exact" /\ pc # "idle"
        BY <2>2 DEF Reading
      <3>2. call.start \in Nat /\ call.want \in Nat /\ Len(delivered) \in Nat
        BY Sizes DEF IInv, InvTypes, TypeOK
      <3>3. call.start <= Len(delivered) /\ call.start + call.want = Len(delivered) + remaining
        BY <3>1 DEF IInv, InvCall
      <3>4. call.start <= Len(delivered') /\ call.start + call.want = Len(delivered') + remaining'
        <4> HIDE DEF Take
        <4>1. Len(delivered') = Len(delivered) + n /\ remaining' = remaining - n
          BY <1>4, <1>6
        <4> QED
          BY <4>1, <1>1, <1>2, <3>2, <3>3
      <3> QED
        BY <2>2, <3>1, <3>4 DEF InvCall
    <2> QED
      BY <1>4, <2>1, <2>2
  <1>9. InvEnd'
    BY <1>5 DEF IInv, InvEnd
  <1> QED
    BY <1>6, <1>7, <1>8, <1>9 DEF IInv

(* A line found, and the last one.                                         *)
LEMMA LineKeeps ==
  ASSUME IInv, LineFound \/ LastLine
  PROVE  IInv'
  <1> USE DEF LineFound, LastLine, Return, AtLine, latches, copyVars, kernelVars
  <1>1. PICK n \in Nat : n <= Available /\ 0 < n /\ Consume(n)
    <2>1. /\ Available \in Nat /\ readPosition \in Nat
          /\ fillPosition = readPosition + Available
      BY Sizes DEF IInv
    <2>2. CASE LineFound
      <3>1. PICK i \in 0..(Available - 1) : Consume(i + 1)
        BY <2>2
      <3> QED
        BY <2>1, <3>1
    <2>3. CASE LastLine
      BY <2>1, <2>3 DEF Empty
    <2> QED
      BY <2>2, <2>3
  <1>2. open
    BY <1>1, Sizes DEF IInv, InvBuffer
  <1>3. pc' = "idle" /\ result' = TRUE
    OBVIOUS
  <1>4. UNCHANGED <<latches, call, remaining, copyVars, kernelVars, open, capacity>>
    OBVIOUS
  <1>5. /\ delivered' \in Seq(Nat)
        /\ readPosition' \in Nat /\ InvBuffer' /\ BufferHoldsTheRest' /\ InvCompaction'
    BY <1>1, <1>2, <1>3, <1>4, ConsumeKeeps
  <1>6. InvTypes'
    BY <1>1, <1>3, <1>4, <1>5 DEF IInv, InvTypes, TypeOK, Consume
  <1>7. InvCall' /\ InvEnd'
    BY <1>3, <1>4 DEF IInv, InvCall, InvEnd
  <1> QED
    BY <1>5, <1>6, <1>7 DEF IInv

(* What is left is compacted, if anything, and read(2) is asked for more.  *)
LEMMA RefillKeeps == IInv /\ Refill => IInv'
  <1> SUFFICES ASSUME IInv, Refill PROVE IInv'
    OBVIOUS
  <1>1. /\ UNCHANGED <<latches, callVars, vector, mem, unfenced, kernelVars, open, capacity>>
        /\ \/ Empty /\ readPosition' = 0 /\ fillPosition' = 0 /\ pc' = "receive"
              /\ UNCHANGED <<request, phase, at>>
           \/ ~Empty /\ readPosition > 0 /\ UNCHANGED positions /\ pc' = "compact"
              /\ request' = CopyRequest(readPosition, Available) /\ phase' = "start" /\ at' = 0
           \/ ~Empty /\ ~(readPosition > 0) /\ UNCHANGED positions /\ pc' = "receive"
              /\ UNCHANGED <<request, phase, at>>
    BY DEF Refill
  <1>2. /\ pc = "call" /\ ~errorLatched
        /\ \/ Reading /\ remaining > 0 /\ Empty
           \/ call.op = "line" /\ ~eofLatched /\ ~BufferFull
    BY DEF Refill, NeedsRefill, AtLine
  <1> USE DEF positions, latches, callVars, kernelVars
  <1>3. /\ readPosition \in Nat /\ fillPosition \in Nat /\ Available \in Nat
        /\ fillPosition = readPosition + Available /\ Len(delivered) \in Nat
        /\ Available <= capacity /\ capacity \in Nat /\ received \in Nat
    BY Sizes DEF IInv
  <1>4. /\ BufferHoldsTheRest /\ InvBuffer /\ InvCall /\ InvTypes /\ InvEnd
        /\ capacity = IF open THEN Capacity ELSE 0
    BY DEF IInv, InvBuffer
  <1>5. Empty <=> Available = 0
    BY <1>3 DEF Empty
  <1>6. InvTypes'
    BY <1>1, <1>4 DEF InvTypes, TypeOK
  <1>7. InvCall'
    BY <1>1, <1>2, <1>4 DEF InvCall, Reading
  <1>8. InvEnd'
    BY <1>1, <1>4 DEF InvEnd
  <1>9. CASE Empty
    <2>1. Available' = 0
      BY <1>1, <1>9 DEF Available
    <2>2. InvBuffer'
      <3>1. open => received = Len(delivered)
        BY <1>3, <1>4, <1>5, <1>9 DEF InvBuffer
      <3>2. open => 0 < capacity
        BY <1>4, ReaderAssumption
      <3>3. /\ delivered' = delivered /\ received' = received /\ open' = open
            /\ capacity' = capacity /\ readPosition' = 0 /\ fillPosition' = 0
        BY <1>1, <1>9
      <3>4. /\ delivered = [i \in 1..Len(delivered) |-> i] /\ Len(delivered) <= received
            /\ capacity = IF open THEN Capacity ELSE 0
        BY <1>4 DEF InvBuffer
      <3>5. /\ delivered' = [i \in 1..Len(delivered') |-> i] /\ Len(delivered') <= received'
            /\ capacity' = IF open' THEN Capacity ELSE 0
        BY <3>3, <3>4
      <3>6. /\ readPosition' <= fillPosition' /\ fillPosition' <= capacity'
            /\ open' => Len(delivered') + Available' = received'
            /\ open' => fillPosition' < capacity'
        BY <1>3, <2>1, <3>1, <3>2, <3>3
      <3> QED
        BY <3>5, <3>6 DEF InvBuffer
    <2>3. BufferHoldsTheRest'
      BY <1>1, <1>3, <1>9, <2>1, <2>2 DEF BufferHoldsTheRest, InvBuffer
    <2> QED
      BY <1>1, <1>6, <1>7, <1>8, <1>9, <2>2, <2>3 DEF IInv, InvCompaction
  <1>10. CASE ~Empty
    <2>1. open
      BY <1>3, <1>4, <1>5, <1>10
    <2>2. Available' = Available /\ UNCHANGED positions
      BY <1>1, <1>10 DEF Available
    <2>3. CASE readPosition > 0
      <3>1. InvBuffer' /\ BufferHoldsTheRest'
        BY <1>1, <1>4, <1>10, <2>2, <2>3 DEF InvBuffer, BufferHoldsTheRest
      <3>2. Moved(0)'
        <4>1. ASSUME NEW i \in 0..(Available - 1)
              PROVE  Byte(readPosition + i) = Len(delivered) + i + 1
          <5>1. i + 1 \in 1..Available /\ readPosition + (i + 1) - 1 = readPosition + i
            BY <1>3
          <5>2. Byte(readPosition + (i + 1) - 1) = Len(delivered) + (i + 1)
            BY <1>2, <1>4, <2>1, <5>1 DEF BufferHoldsTheRest
          <5> QED
            BY <1>3, <5>1, <5>2
        <4>2. ASSUME NEW i \in 0..(Available' - 1)
              PROVE  Byte(readPosition + i)' = Len(delivered') + i + 1 /\ ~(i < 0)
          BY <1>1, <1>3, <2>2, <4>1 DEF Byte
        <4> QED
          BY <4>2 DEF Moved
      <3>3. InvCompaction'
        <4>1. CopyRequest(readPosition, Available)' = CopyRequest(readPosition, Available)
          BY <2>2 DEF CopyRequest
        <4> QED
          BY <1>1, <1>2, <1>10, <2>1, <2>2, <2>3, <3>2, <4>1 DEF InvCompaction, Empty
      <3> QED
        BY <1>6, <1>7, <1>8, <3>1, <3>3 DEF IInv
    <2>4. CASE ~(readPosition > 0)
      <3>1. fillPosition < capacity
        BY <1>2, <1>3, <1>4, <1>10, <2>4 DEF InvBuffer, BufferFull
      <3>2. InvBuffer' /\ BufferHoldsTheRest'
        BY <1>1, <1>2, <1>4, <1>10, <2>2, <2>4, <3>1 DEF InvBuffer, BufferHoldsTheRest, Byte
      <3> QED
        BY <1>1, <1>6, <1>7, <1>8, <1>10, <2>4, <3>2 DEF IInv, InvCompaction
    <2> QED
      BY <2>3, <2>4
  <1> QED
    BY <1>9, <1>10

-----------------------------------------------------------------------------
(* The compaction.                                                         *)

LEMMA Compaction ==
  ASSUME IInv, pc = "compact"
  PROVE  /\ Copy!dst = Base /\ Copy!src = Base + readPosition /\ Copy!len = Available
         /\ request.op = "copy"
         /\ Copy!Width \in Nat \ {0} /\ W <= Copy!Width
         /\ W <= Available => Copy!Width <= Available
         /\ Copy!Addresses = DOMAIN mem
         /\ Base \in Nat /\ readPosition \in Nat \ {0} /\ Available \in Nat \ {0}
         /\ at \in Nat /\ Len(delivered) \in Nat
         /\ Base + readPosition + Available <= Base + Capacity
  <1>1. /\ request = CopyRequest(readPosition, Available) /\ 0 < readPosition /\ ~Empty
    BY DEF IInv, InvCompaction
  <1>2. /\ Copy!dst = Base /\ Copy!src = Base + readPosition /\ Copy!len = Available
        /\ request.op = "copy"
    BY <1>1 DEF CopyRequest, Copy!dst, Copy!src, Copy!len
  <1>3. vector \in {W, 2 * W} /\ W \in Nat \ {0}
    BY ReaderAssumption DEF IInv, InvTypes
  <1>4. /\ Copy!Width \in Nat \ {0} /\ W <= Copy!Width
        /\ W <= Available => Copy!Width <= Available
    BY <1>2, <1>3, Sizes DEF IInv, Copy!Width, Copy!Vector
  <1>5. Copy!Addresses = DOMAIN mem
    BY Sizes DEF IInv, Copy!Addresses
  <1> QED
    BY <1>1, <1>2, <1>4, <1>5, Sizes DEF IInv, InvTypes, Empty

(* A block that starts no further below the end of what has been moved     *)
(* than the bytes are moved by.                                            *)
LEMMA BlockMoves ==
  ASSUME IInv, pc = "compact", NEW from \in Nat, NEW n \in Nat, NEW e \in Nat,
         from <= e, e <= from + n, from + n <= Available, e <= readPosition + from,
         Moved(e), Copy!CopyBlock(from, n), UNCHANGED <<positions, delivered>>
  PROVE  Moved(from + n)'
  <1>1. /\ Base \in Nat /\ readPosition \in Nat /\ Available \in Nat
        /\ Len(delivered) \in Nat /\ Capacity \in Nat
        /\ Base + readPosition + Available <= Base + Capacity
        /\ Copy!Addresses = 0..(Base + Capacity - 1)
    BY Compaction, ReaderAssumption DEF Copy!Addresses
  <1>2. \A a \in 0..(Base + Capacity - 1) :
          mem'[a] = IF a >= Base + from /\ a < Base + from + n
                    THEN mem[Base + readPosition + (a - Base)] ELSE mem[a]
    BY <1>1, Compaction DEF Copy!CopyBlock
  <1>3. UNCHANGED <<readPosition, delivered>> /\ Available' = Available
    BY DEF positions, Available
  <1> SUFFICES ASSUME NEW i \in 0..(Available - 1)
               PROVE  /\ i < from + n => mem'[Base + i] = Len(delivered) + i + 1
                      /\ from + n <= readPosition + i =>
                           mem'[Base + (readPosition + i)] = Len(delivered) + i + 1
    BY <1>3 DEF Moved, Byte
  <1>4. /\ i < e => mem[Base + i] = Len(delivered) + i + 1
        /\ e <= readPosition + i =>
             mem[Base + (readPosition + i)] = Len(delivered) + i + 1
    BY DEF Moved, Byte
  <1>5. ASSUME i < from + n PROVE mem'[Base + i] = Len(delivered) + i + 1
    <2>1. Base + i \in 0..(Base + Capacity - 1)
      BY <1>1
    <2>2. CASE i < from
      BY <1>1, <1>2, <1>4, <2>1, <2>2
    <2>3. CASE ~(i < from)
      <3>1. mem'[Base + i] = mem[Base + readPosition + (Base + i - Base)]
        BY <1>1, <1>2, <1>5, <2>1, <2>3
      <3>2. Base + readPosition + (Base + i - Base) = Base + (readPosition + i)
        BY <1>1
      <3>3. e <= readPosition + i
        BY <1>1, <2>3
      <3> QED
        BY <1>4, <3>1, <3>2, <3>3
    <2> QED
      BY <2>2, <2>3
  <1>6. ASSUME from + n <= readPosition + i
        PROVE  mem'[Base + (readPosition + i)] = Len(delivered) + i + 1
    <2>1. Base + (readPosition + i) \in 0..(Base + Capacity - 1)
      BY <1>1
    <2>2. mem'[Base + (readPosition + i)] = mem[Base + (readPosition + i)]
      BY <1>1, <1>2, <1>6, <2>1
    <2> QED
      BY <1>1, <1>4, <1>6, <2>2
  <1> QED
    BY <1>5, <1>6

LEMMA BlockInBuffer ==
  ASSUME IInv, pc = "compact", NEW from \in Nat, NEW n \in Nat, from + n <= Available,
         Copy!CopyBlock(from, n)
  PROVE  mem' \in [0..(Base + Capacity - 1) -> Nat]
  <1>1. /\ Base \in Nat /\ readPosition \in Nat /\ Available \in Nat /\ Capacity \in Nat
        /\ Base + readPosition + Available <= Base + Capacity
        /\ Copy!Addresses = 0..(Base + Capacity - 1)
    BY Compaction, ReaderAssumption DEF Copy!Addresses
  <1>2. mem' = [a \in 0..(Base + Capacity - 1) |->
                  IF a >= Base + from /\ a < Base + from + n
                  THEN mem[Base + readPosition + (a - Base)] ELSE mem[a]]
    BY <1>1, Compaction DEF Copy!CopyBlock
  <1>3. mem \in [0..(Base + Capacity - 1) -> Nat]
    BY DEF IInv, InvTypes, TypeOK
  <1>4. \A a \in 0..(Base + Capacity - 1) :
          a >= Base + from /\ a < Base + from + n =>
            Base + readPosition + (a - Base) \in 0..(Base + Capacity - 1)
    BY <1>1
  <1> QED
    BY <1>2, <1>3, <1>4

(* What a step of bc_core_copy leaves alone.                               *)
LEMMA CompactionKeeps ==
  ASSUME IInv, pc = "compact",
         UNCHANGED <<positions, latches, callVars, kernelVars, open, capacity, pc>>,
         UNCHANGED <<vector, request>>, at' \in Nat,
         mem' \in [0..(Base + Capacity - 1) -> Nat],
         phase' \in {"bytes", "head", "middle", "loop", "tail", "done"},
         phase' = "bytes" => at' < Available,
         phase' = "head" => Moved(0)',
         phase' \in {"bytes", "middle"} => Moved(at)',
         phase' \in {"head", "middle", "loop", "tail"} => W <= Available,
         phase' = "middle" => /\ at' = Copy!Width /\ 2 * Copy!Width < Available
                              /\ Available <= 4 * Copy!Width,
         phase' = "loop" =>
           \E e \in 0..Available : at' <= e /\ e <= at' + Copy!Width /\ Moved(e)',
         phase' = "tail" => \E e \in 0..Available : Available <= e + Copy!Width /\ Moved(e)',
         phase' = "done" => Moved(Available)'
  PROVE  IInv'
  <1> USE DEF positions, latches, callVars, kernelVars
  <1>1. Available' = Available /\ Copy!Width' = Copy!Width
    BY DEF Available, Copy!Width, Copy!Vector, Copy!len
  <1>2. InvTypes'
    BY DEF IInv, InvTypes, TypeOK
  <1>3. InvCall' /\ InvEnd' /\ BufferHoldsTheRest'
    BY <1>1 DEF IInv, InvCall, InvEnd, BufferHoldsTheRest, Reading
  <1>4. InvBuffer'
    BY <1>1 DEF IInv, InvBuffer
  <1>5. /\ (open /\ ~eofLatched /\ 0 < readPosition /\ ~Empty)'
        /\ request' = CopyRequest(readPosition, Available)'
    BY <1>1 DEF IInv, InvCompaction, Empty, CopyRequest
  <1>6. InvCompaction'
    BY <1>1, <1>5 DEF InvCompaction
  <1> QED
    BY <1>2, <1>3, <1>4, <1>6 DEF IInv

(* A compaction that is borne has its blocks start within its distance.    *)
LEMMA CompactBears ==
  ASSUME IInv, CompactsSafely, pc = "compact", W <= Available,
         NEW from \in Nat, NEW e \in 0..Available, e <= from + Copy!Width
  PROVE  e <= readPosition + from
  <1>1. Copy!Width <= readPosition \/ Available <= readPosition
    BY Compaction, ReaderAssumption DEF CompactsSafely
  <1> QED
    BY <1>1, Compaction

LEMMA CompactStepKeeps == IInv /\ CompactsSafely /\ CompactStep => IInv'
  <1> SUFFICES ASSUME IInv, CompactsSafely, CompactStep PROVE IInv'
    OBVIOUS
  <1> DEFINE w == Copy!Width
  <1>1. /\ pc = "compact" /\ Copy!Copying
        /\ UNCHANGED <<positions, latches, callVars, kernelVars, open, capacity, pc>>
    BY DEF CompactStep
  <1>2. UNCHANGED <<positions, delivered>>
    BY <1>1 DEF callVars
  <1>3. /\ w \in Nat \ {0} /\ W <= w /\ Copy!len = Available /\ Available \in Nat \ {0}
        /\ at \in Nat /\ readPosition \in Nat \ {0} /\ Base \in Nat /\ W \in Nat \ {0}
        /\ W <= Available => w <= Available
    BY <1>1, Compaction, ReaderAssumption
  <1>4. InvCompaction /\ mem \in [0..(Base + Capacity - 1) -> Nat]
    BY DEF IInv, InvTypes, TypeOK
  <1> HIDE DEF w
  <1>5. CASE Copy!StartCopy
    <2> USE DEF Copy!StartCopy, Copy!Goto
    <2>1. /\ UNCHANGED <<vector, request, at, mem>> /\ phase = "start"
          /\ phase' \in {"bytes", "head"} /\ at = 0 /\ 0 < Available
          /\ phase' = "head" => W <= Available
      BY <1>1, <1>3, <1>4, <1>5 DEF InvCompaction
    <2>2. Moved(0)' /\ at' = 0
      BY <1>1, <1>2, <1>4, <2>1 DEF InvCompaction, Moved, positions, Available, Byte
    <2>3. Moved(at)'
      BY <2>2 DEF Moved
    <2> QED
      BY <1>1, <1>3, <1>4, <2>1, <2>2, <2>3, CompactionKeeps
  <1>6. CASE Copy!CopyByte
    <2>1. /\ phase = "bytes" /\ at + 1 <= Available /\ Copy!CopyBlock(at, 1)
          /\ UNCHANGED <<vector, request>> /\ at' = at + 1
          /\ phase' = IF at + 1 = Available THEN "done" ELSE "bytes"
      BY <1>3, <1>6 DEF Copy!CopyByte, Copy!Goto
    <2>2. PICK x \in Nat : x = at
      BY <1>3
    <2>3. Moved(x)
      BY <1>1, <1>4, <2>1, <2>2 DEF InvCompaction
    <2>4. Moved(x + 1)' /\ mem' \in [0..(Base + Capacity - 1) -> Nat]
      BY <1>1, <1>2, <1>3, <2>1, <2>2, <2>3, BlockMoves, BlockInBuffer
    <2>5. at' = x + 1 /\ at' \in Nat /\ Available' = Available
      BY <1>2, <2>1, <2>2 DEF positions, Available
    <2>6. Moved(at)' /\ (phase' = "done" => Moved(Available)')
      <3>1. phase' = "done" => Available' = x + 1
        BY <2>1, <2>2, <2>5
      <3> QED
        BY <2>4, <2>5, <3>1 DEF Moved
    <2>7. phase' \in {"bytes", "done"} /\ (phase' = "bytes" => at' < Available)
      BY <1>3, <2>1, <2>2, <2>5
    <2> QED
      BY <1>1, <1>3, <2>1, <2>4, <2>5, <2>6, <2>7, CompactionKeeps
  <1>7. CASE Copy!CopyHead
    <2>1. /\ phase = "head" /\ Copy!CopyBlock(0, w) /\ UNCHANGED <<vector, request>>
          /\ at' = IF Available <= 4 * w THEN w ELSE Copy!AlignOffset
          /\ phase' = IF Available <= 4 * w
                      THEN IF Available > 2 * w THEN "middle" ELSE "tail"
                      ELSE "loop"
      BY <1>3, <1>7 DEF Copy!CopyHead, Copy!Goto, w
    <2>2. W <= Available /\ w <= Available /\ Moved(0)
      BY <1>1, <1>3, <1>4, <2>1 DEF InvCompaction
    <2>3. PICK n \in Nat : n = w
      BY <1>3
    <2>4. Moved(0 + n)' /\ mem' \in [0..(Base + Capacity - 1) -> Nat]
      BY <1>1, <1>2, <1>3, <2>1, <2>2, <2>3, BlockMoves, BlockInBuffer
    <2>5. Copy!AlignOffset \in 1..w
      <3>1. Base % w \in 0..(w - 1)
        BY <1>3
      <3> QED
        BY <1>1, <1>3, <3>1, Compaction DEF Copy!AlignOffset, w
    <2>6. at' \in 1..w /\ (phase' = "middle" => at' = w)
      BY <1>3, <2>1, <2>5
    <2>7. Moved(n)' /\ n \in 0..Available
      BY <1>3, <2>2, <2>3, <2>4
    <2>8. phase' = "middle" => Moved(at)'
      BY <2>3, <2>6, <2>7 DEF Moved
    <2>9. at' <= n /\ n <= at' + w /\ at' \in Nat
      <3>1. \A x \in 1..w : x <= w /\ w <= x + w /\ x \in Nat
        BY <1>3
      <3> QED
        BY <2>3, <2>6, <3>1
    <2>10. /\ phase' \in {"middle", "tail", "loop"}
           /\ phase' = "middle" => 2 * w < Available /\ Available <= 4 * w
           /\ phase' = "tail" => Available <= n + w
      BY <1>3, <2>1, <2>3
    <2> QED
      BY <1>1, <1>3, <2>1, <2>2, <2>4, <2>6, <2>7, <2>8, <2>9, <2>10, CompactionKeeps DEF w
  <1>8. CASE Copy!CopyMiddle
    <2> DEFINE n == IF Available > 3 * w THEN 2 * w ELSE w
    <2>1. /\ phase = "middle" /\ Copy!CopyBlock(at, n) /\ UNCHANGED <<vector, request, at>>
          /\ phase' = "tail"
      BY <1>3, <1>8 DEF Copy!CopyMiddle, Copy!Goto, w
    <2>2. W <= Available /\ at = w /\ 2 * w < Available /\ Available <= 4 * w /\ Moved(at)
      BY <1>1, <1>4, <2>1 DEF InvCompaction, w
    <2>3. PICK x \in Nat, k \in Nat : x = at /\ k = n
      BY <1>3
    <2>4. x + k \in 0..Available /\ Available <= x + k + w /\ Copy!CopyBlock(x, k) /\ Moved(x)
      BY <1>3, <2>1, <2>2, <2>3
    <2> HIDE DEF n
    <2>5. Moved(x + k)' /\ mem' \in [0..(Base + Capacity - 1) -> Nat]
      BY <1>1, <1>2, <1>3, <2>3, <2>4, BlockMoves, BlockInBuffer
    <2> QED
      BY <1>1, <1>3, <2>1, <2>2, <2>4, <2>5, CompactionKeeps DEF w
  <1>9. ASSUME NEW k \in {4 * w, w}, Copy!CopyLoop(k) PROVE IInv'
    <2>1. /\ phase = "loop" /\ at + k <= Available /\ Copy!CopyBlock(at, k)
          /\ UNCHANGED <<vector, request>> /\ at' = at + k /\ phase' = "loop"
      BY <1>3, <1>9 DEF Copy!CopyLoop, Copy!Goto
    <2>2. PICK e \in 0..Available : at <= e /\ e <= at + w /\ Moved(e)
      BY <1>1, <1>4, <2>1 DEF InvCompaction, w
    <2>3. W <= Available
      BY <1>1, <1>4, <2>1 DEF InvCompaction
    <2>4. PICK x \in Nat, n \in Nat : x = at /\ n = k
      BY <1>3
    <2>5. e <= readPosition + x
      BY <1>1, <2>2, <2>3, <2>4, CompactBears DEF w
    <2>6. e \in Nat /\ x <= e /\ e <= x + n /\ x + n \in 0..Available /\ Copy!CopyBlock(x, n)
      BY <1>3, <2>1, <2>2, <2>4
    <2>7. Moved(x + n)' /\ mem' \in [0..(Base + Capacity - 1) -> Nat]
      BY <1>1, <1>2, <2>2, <2>5, <2>6, BlockMoves, BlockInBuffer
    <2>8. at' = x + n /\ at' \in Nat /\ x + n <= at' + w /\ at' <= x + n
      BY <1>3, <2>1, <2>4
    <2> QED
      BY <1>1, <2>1, <2>3, <2>6, <2>7, <2>8, CompactionKeeps DEF w
  <1>10. CASE Copy!EndLoop
    <2>1. /\ phase = "loop" /\ at + w > Available /\ phase' = "tail"
          /\ UNCHANGED <<vector, request, at, mem>>
      BY <1>3, <1>10 DEF Copy!EndLoop, Copy!Goto, w
    <2>2. W <= Available /\ \E e \in 0..Available : at <= e /\ e <= at + w /\ Moved(e)
      BY <1>1, <1>4, <2>1 DEF InvCompaction, w
    <2>3. PICK e \in 0..Available : at <= e /\ Moved(e)
      BY <2>2
    <2>4. Available <= e + w
      BY <1>3, <2>1, <2>3
    <2>5. Moved(e)'
      BY <1>2, <2>1, <2>3 DEF Moved, positions, Available, Byte
    <2> QED
      BY <1>1, <1>3, <1>4, <2>1, <2>2, <2>4, <2>5, CompactionKeeps DEF w
  <1>11. CASE Copy!CopyTail
    <2>1. /\ phase = "tail" /\ Copy!CopyBlock(Available - w, w) /\ phase' = "done"
          /\ UNCHANGED <<vector, request, at>>
      BY <1>3, <1>11 DEF Copy!CopyTail, Copy!Goto, w
    <2>2. W <= Available /\ \E e \in 0..Available : Available <= e + w /\ Moved(e)
      BY <1>1, <1>4, <2>1 DEF InvCompaction, w
    <2>3. PICK e \in 0..Available : Available <= e + w /\ Moved(e)
      BY <2>2
    <2>4. PICK x \in Nat, n \in Nat : x = Available - w /\ n = w
      BY <1>3, <2>2
    <2>5. e <= readPosition + x
      <3>1. e <= x + w
        BY <1>3, <2>2, <2>4
      <3> QED
        BY <1>1, <2>2, <2>4, <3>1, CompactBears DEF w
    <2>6. e \in Nat /\ x <= e /\ e <= x + n /\ x + n = Available /\ Copy!CopyBlock(x, n)
      BY <1>3, <2>1, <2>2, <2>3, <2>4
    <2>7. Moved(x + n)' /\ mem' \in [0..(Base + Capacity - 1) -> Nat]
      BY <1>1, <1>2, <1>3, <2>3, <2>5, <2>6, BlockMoves, BlockInBuffer
    <2>8. Available' = x + n
      BY <1>2, <2>6 DEF positions, Available
    <2>9. Moved(Available)'
      BY <2>7, <2>8 DEF Moved
    <2> QED
      BY <1>1, <1>3, <2>1, <2>7, <2>9, CompactionKeeps
  <1>12. CASE Copy!CopyFour \/ Copy!CopyOne
    BY <1>9, <1>12 DEF Copy!CopyFour, Copy!CopyOne, w
  <1> QED
    BY <1>1, <1>5, <1>6, <1>7, <1>8, <1>10, <1>11, <1>12 DEF Copy!Copying

(* What was left begins where the buffer does, and there is room after it. *)
LEMMA CompactedKeeps == IInv /\ Compacted => IInv'
  <1> SUFFICES ASSUME IInv, Compacted PROVE IInv'
    OBVIOUS
  <1> USE DEF Compacted, latches, callVars, copyVars, kernelVars
  <1>1. /\ pc = "compact" /\ Moved(Available) /\ open /\ 0 < readPosition
        /\ call.op = "line" /\ ~errorLatched
    BY DEF IInv, InvCompaction, InvCall
  <1>2. /\ readPosition \in Nat \ {0} /\ fillPosition \in Nat /\ Available \in Nat
        /\ fillPosition = readPosition + Available /\ Len(delivered) \in Nat
        /\ fillPosition <= capacity /\ capacity \in Nat /\ received \in Nat
        /\ Len(delivered) + Available = received
    BY <1>1, Sizes DEF IInv, InvBuffer
  <1>3. readPosition' = 0 /\ fillPosition' = Available /\ Available' = Available
    BY <1>2 DEF Available
  <1>4. InvTypes'
    BY <1>2, <1>3 DEF IInv, InvTypes, TypeOK
  <1>5. InvCall' /\ InvEnd' /\ InvCompaction'
    BY <1>1 DEF IInv, InvCall, InvEnd, InvCompaction
  <1>6. InvBuffer'
    <2>1. Available < capacity
      BY <1>2
    <2> QED
      BY <1>2, <1>3, <2>1 DEF IInv, InvBuffer
  <1>7. BufferHoldsTheRest'
    <2>1. ASSUME NEW i \in 1..Available PROVE mem[Base + (0 + i - 1)] = Len(delivered) + i
      <3>1. i - 1 \in 0..(Available - 1) /\ i - 1 < Available /\ 0 + i - 1 = i - 1
        BY <1>2
      <3>2. mem[Base + (i - 1)] = Len(delivered) + (i - 1) + 1
        BY <1>1, <3>1 DEF Moved, Byte
      <3> QED
        BY <1>2, <3>1, <3>2
    <2>2. Available <= capacity
      BY <1>2
    <2>3. \A i \in 1..Available' : Byte(readPosition + i - 1)' = Len(delivered') + i
      BY <1>3, <2>1 DEF Byte
    <2> QED
      BY <1>2, <1>3, <2>2, <2>3 DEF BufferHoldsTheRest
  <1> QED
    BY <1>4, <1>5, <1>6, <1>7 DEF IInv

LEMMA AlreadyEndedKeeps == IInv /\ AlreadyEnded => IInv'
  <1> SUFFICES ASSUME IInv, AlreadyEnded PROVE IInv'
    OBVIOUS
  <1> USE DEF AlreadyEnded, Refilled, positions, latches, callVars, copyVars, kernelVars
  <1>1. pc' \in {"refilled", "call"} /\ (pc' = "refilled" <=> Reading) /\ pc = "receive"
    OBVIOUS
  <1>2. InvTypes' /\ InvEnd'
    BY <1>1 DEF IInv, InvTypes, TypeOK, InvEnd
  <1>3. InvCall'
    BY <1>1 DEF IInv, InvCall, Reading
  <1>4. InvBuffer' /\ BufferHoldsTheRest' /\ InvCompaction'
    BY <1>1, StillKeeps DEF IInv
  <1> QED
    BY <1>2, <1>3, <1>4 DEF IInv

(* The kernel's next bytes follow those that were left.                    *)
LEMMA ReceiveKeeps ==
  ASSUME IInv, NEW n \in ReceiveSizes, Receive(n)
  PROVE  IInv'
  <1> USE DEF Receive, Refilled, Asks, latches, callVars
  <1>1. /\ n \in Nat \ {0} /\ open /\ ~eofLatched /\ pc = "receive"
        /\ pc' \in {"refilled", "call"} /\ (pc' = "refilled" <=> Reading)
    BY ReaderAssumption
  <1>2. /\ readPosition \in Nat /\ fillPosition \in Nat /\ Available \in Nat
        /\ fillPosition = readPosition + Available /\ Len(delivered) \in Nat
        /\ capacity = Capacity /\ Capacity \in Nat /\ received \in Nat
        /\ Len(delivered) + Available = received /\ Base \in Nat
        /\ stream.length \in Nat /\ fillPosition + n <= Capacity
    <2>1. /\ capacity = Capacity /\ Len(delivered) + Available = received
          /\ n <= capacity - fillPosition
      BY <1>1 DEF IInv, InvBuffer, Room
    <2> HIDE DEF Receive
    <2> QED
      BY <1>1, <2>1, Sizes DEF IInv
  <1>3. Available' = Available + n /\ fillPosition' \in Nat /\ received' \in 0..stream.length
    BY <1>1, <1>2 DEF Available
  <1>4. /\ mem \in [0..(Base + Capacity - 1) -> Nat]
        /\ mem' = [a \in 0..(Base + Capacity - 1) |->
                     IF a >= Base + fillPosition /\ a < Base + fillPosition + n
                     THEN received + 1 + (a - (Base + fillPosition)) ELSE mem[a]]
    BY DEF IInv, InvTypes, TypeOK
  <1>5. mem' \in [0..(Base + Capacity - 1) -> Nat]
    <2>1. \A a \in 0..(Base + Capacity - 1) :
            a >= Base + fillPosition /\ a < Base + fillPosition + n =>
              received + 1 + (a - (Base + fillPosition)) \in Nat
      BY <1>1, <1>2
    <2> QED
      BY <1>4, <2>1
  <1>6. InvTypes'
    BY <1>1, <1>3, <1>5 DEF IInv, InvTypes, TypeOK, kernelVars
  <1>7. InvCall' /\ InvEnd' /\ InvCompaction'
    <2>1. InvCall'
      BY <1>1 DEF IInv, InvCall, Reading
    <2>2. InvEnd'
      <3>1. Available' # 0 /\ fillPosition' # readPosition'
        BY <1>1, <1>2, <1>3
      <3> QED
        BY <1>1, <3>1 DEF InvEnd, Empty
    <2> QED
      BY <1>1, <2>1, <2>2 DEF InvCompaction
  <1>8. InvBuffer'
    <2>1. /\ readPosition' <= fillPosition' /\ fillPosition' <= capacity'
          /\ Len(delivered') <= received' /\ Len(delivered') + Available' = received'
      BY <1>1, <1>2, <1>3
    <2>2. delivered' = delivered /\ capacity' = capacity /\ open' = open
      OBVIOUS
    <2>3. /\ delivered' = [i \in 1..Len(delivered') |-> i]
          /\ capacity' = IF open' THEN Capacity ELSE 0
      BY <2>2 DEF IInv, InvBuffer
    <2> QED
      BY <1>1, <2>1, <2>3 DEF InvBuffer
  <1>9. BufferHoldsTheRest'
    <2>1. ASSUME NEW i \in 1..(Available + n)
          PROVE  mem'[Base + (readPosition + i - 1)] = Len(delivered) + i
      <3>1. Base + (readPosition + i - 1) \in 0..(Base + Capacity - 1)
        BY <1>1, <1>2
      <3>2. CASE i <= Available
        <4>1. mem'[Base + (readPosition + i - 1)] = mem[Base + (readPosition + i - 1)]
          BY <1>1, <1>2, <1>4, <3>1, <3>2
        <4>2. mem[Base + (readPosition + i - 1)] = Len(delivered) + i
          BY <1>1, <1>2, <3>2 DEF IInv, BufferHoldsTheRest, Byte
        <4> QED
          BY <4>1, <4>2
      <3>3. CASE ~(i <= Available)
        <4>1. mem'[Base + (readPosition + i - 1)]
                = received + 1 + (Base + (readPosition + i - 1) - (Base + fillPosition))
          BY <1>1, <1>2, <1>4, <3>1, <3>3
        <4> QED
          BY <1>1, <1>2, <4>1
      <3> QED
        BY <3>2, <3>3
    <2>2. \A i \in 1..Available' : Byte(readPosition + i - 1)' = Len(delivered') + i
      BY <1>3, <2>1 DEF Byte
    <2>3. readPosition' <= fillPosition' /\ fillPosition' <= capacity'
          /\ Len(delivered') + Available' = received'
      BY <1>1, <1>2, <1>3
    <2> QED
      BY <2>2, <2>3 DEF BufferHoldsTheRest
  <1> QED
    BY <1>6, <1>7, <1>8, <1>9 DEF IInv

(* An answer of 0 is the end: the reader never asks for 0 bytes.           *)
LEMMA ReceiveNothingKeeps == IInv /\ ReceiveNothing => IInv'
  <1> SUFFICES ASSUME IInv, ReceiveNothing PROVE IInv'
    OBVIOUS
  <1> USE DEF ReceiveNothing, Asks, Refilled, positions, callVars, copyVars, kernelVars
  <1>1. pc' \in {"refilled", "call"} /\ (pc' = "refilled" <=> Reading) /\ pc = "receive"
    OBVIOUS
  <1>2. received = stream.length
    BY Sizes DEF IInv, InvBuffer, Room
  <1>3. InvTypes'
    BY <1>1 DEF IInv, InvTypes, TypeOK
  <1>4. InvCall' /\ InvEnd'
    BY <1>1, <1>2 DEF IInv, InvCall, InvEnd, Reading
  <1>5. InvBuffer' /\ BufferHoldsTheRest' /\ InvCompaction'
    BY <1>1, StillKeeps DEF IInv
  <1> QED
    BY <1>3, <1>4, <1>5 DEF IInv

LEMMA ReceiveInterruptedKeeps == IInv /\ ReceiveInterrupted => IInv'
  <1> SUFFICES ASSUME IInv, ReceiveInterrupted PROVE IInv'
    OBVIOUS
  <1> USE DEF ReceiveInterrupted, Asks, positions, latches, callVars, copyVars
  <1>1. InvTypes'
    BY DEF IInv, InvTypes, TypeOK
  <1>2. InvCall' /\ InvEnd'
    BY DEF IInv, InvCall, InvEnd, Reading, Empty
  <1>3. InvBuffer' /\ BufferHoldsTheRest' /\ InvCompaction'
    BY StillKeeps DEF IInv
  <1> QED
    BY <1>1, <1>2, <1>3 DEF IInv

-----------------------------------------------------------------------------
LEMMA InitHolds == Init => IInv
  <1> SUFFICES ASSUME Init PROVE IInv
    OBVIOUS
  <1> USE DEF Init
  <1>1. stream.length \in Nat /\ Base \in Nat /\ Capacity \in Nat \ {0}
    BY ReaderAssumption
  <1>2. mem \in [0..(Base + Capacity - 1) -> Nat]
    OBVIOUS
  <1>3. delivered \in Seq(Nat) /\ Len(delivered) = 0 /\ delivered = [i \in 1..0 |-> i]
    BY EmptySeq
  <1>4. InvTypes
    BY <1>1, <1>2, <1>3 DEF InvTypes, TypeOK
  <1>5. InvCall /\ InvEnd /\ InvCompaction
    BY DEF InvCall, InvEnd, InvCompaction
  <1>6. Available = 0
    BY DEF Available
  <1>7. InvBuffer
    BY <1>1, <1>3, <1>6 DEF InvBuffer
  <1>8. BufferHoldsTheRest
    BY <1>1, <1>3, <1>6 DEF BufferHoldsTheRest
  <1> QED
    BY <1>4, <1>5, <1>7, <1>8 DEF IInv

LEMMA StepKeeps == IInv /\ CompactsSafely /\ [Next]_vars => IInv'
  <1> SUFFICES ASSUME IInv, CompactsSafely, [Next]_vars PROVE IInv'
    OBVIOUS
  <1>1. CASE Running
    <2>1. CASE Reject \/ NothingToRead \/ ReadEnd \/ LineEnd \/ LineTooLong \/ ReceiveFailed
      BY <2>1, ReturnKeeps
    <2>2. CASE LineFound \/ LastLine
      BY <2>2, LineKeeps
    <2> QED
      BY <1>1, <2>1, <2>2, DestroyKeeps, TakeKeeps, RefillKeeps, CompactStepKeeps,
         CompactedKeeps, AlreadyEndedKeeps, ReceiveKeeps, ReceiveNothingKeeps
         DEF Running
  <1>2. CASE UNCHANGED vars
    <2> USE <1>2 DEF vars, positions, latches, callVars, copyVars, kernelVars
    <2>1. InvTypes' /\ InvCall' /\ InvEnd'
      BY DEF IInv, InvTypes, TypeOK, InvCall, InvEnd, Reading, Empty
    <2>2. InvBuffer' /\ BufferHoldsTheRest'
      BY DEF IInv, InvBuffer, BufferHoldsTheRest, Available, Byte
    <2>3. InvCompaction'
      BY DEF IInv, InvCompaction, Available, Empty, CopyRequest, Moved, Byte, Copy!Width,
             Copy!Vector, Copy!len
    <2> QED
      BY <2>1, <2>2, <2>3 DEF IInv
  <1> QED
    BY <1>1, <1>2, StartCallKeeps, ReceiveInterruptedKeeps DEF Next

(* The inductive invariant holds in every state of every reader whose      *)
(* compactions bc_core_copy bears.                                         *)
THEOREM Inductive == Spec /\ []CompactsSafely => []IInv
  BY InitHolds, StepKeeps, PTL DEF Spec

(* The variables have their types.                                         *)
THEOREM TypeCorrect == Spec /\ []CompactsSafely => []TypeOK
  <1>1. IInv => TypeOK
    BY DEF IInv, InvTypes
  <1> QED
    BY <1>1, Inductive, PTL

(* The buffer holds what was received and not given out, in bounds.        *)
THEOREM HoldsTheRest == Spec /\ []CompactsSafely => []BufferHoldsTheRest
  <1>1. IInv => BufferHoldsTheRest
    BY DEF IInv
  <1> QED
    BY <1>1, Inductive, PTL

(* Callers are given the stream from its start, and nothing else.          *)
THEOREM InOrder == Spec /\ []CompactsSafely => []DeliveredInOrder
  <1>1. IInv => DeliveredInOrder
    <2> SUFFICES ASSUME IInv, NEW i \in DOMAIN delivered PROVE delivered[i] = i
      BY DEF DeliveredInOrder
    <2>1. DOMAIN delivered = 1..Len(delivered)
      BY DEF IInv, InvTypes, TypeOK
    <2> QED
      BY <2>1 DEF IInv, InvBuffer
  <1> QED
    BY <1>1, Inductive, PTL

-----------------------------------------------------------------------------
(* Where bc_core_copy bears every compaction.                              *)

(* Every W bytes of a stream hold a newline.                               *)
ShortLines ==
  \A s \in Streams : \A k \in Nat :
    k + W <= s.length => \E m \in 1..W : k + m \in s.newlines

(* The bytes of a buffer without a newline are no newlines of the stream.  *)
LEMMA NoNewlineBuffered ==
  ASSUME IInv, NoNewline, open, pc # "compact"
  PROVE  \A m \in 1..Available : Len(delivered) + m \notin stream.newlines
  <1> SUFFICES ASSUME NEW m \in 1..Available PROVE Len(delivered) + m \notin stream.newlines
    OBVIOUS
  <1>1. m - 1 \in 0..(Available - 1) /\ readPosition + m - 1 = readPosition + (m - 1)
    BY Sizes DEF IInv
  <1>2. Byte(readPosition + (m - 1)) = Len(delivered) + m
    BY <1>1 DEF IInv, BufferHoldsTheRest
  <1> QED
    BY <1>1, <1>2 DEF NoNewline, IsNewline

(* In a buffer no larger than a vector, or on lines shorter than one.      *)
THEOREM SafeCompactions ==
  ASSUME Capacity <= W \/ ShortLines
  PROVE  Spec => []CompactsSafely
  <1>1. Init => CompactsSafely
    BY DEF Init, CompactsSafely
  <1>2. IInv /\ CompactsSafely /\ [Next]_vars => CompactsSafely'
    <2> SUFFICES ASSUME IInv, CompactsSafely, [Next]_vars, pc' = "compact"
                 PROVE  CompactsSafely'
      BY DEF CompactsSafely
    <2> USE DEF positions, latches, callVars, copyVars, kernelVars
    <2>1. CASE CompactStep \/ UNCHANGED vars
      <3>1. UNCHANGED <<readPosition, fillPosition, pc>>
        BY <2>1 DEF CompactStep, vars
      <3>2. UNCHANGED <<vector, request>> \/ ~UNCHANGED vars
        BY <2>1 DEF vars
      <3>3. UNCHANGED <<vector, request>>
        BY <2>1, <3>2 DEF CompactStep, Copy!Copying, Copy!StartCopy, Copy!CopyByte,
             Copy!CopyHead, Copy!CopyMiddle, Copy!CopyFour, Copy!CopyOne, Copy!CopyLoop,
             Copy!EndLoop, Copy!CopyTail, Copy!Goto
      <3> QED
        BY <2>1, <3>1, <3>3
           DEF CompactsSafely, Available, Copy!Width, Copy!Vector, Copy!len
    <2>2. CASE Refill
      <3>1. /\ UNCHANGED <<readPosition, fillPosition>> /\ readPosition > 0 /\ ~Empty
        BY <2>2 DEF Refill
      <3>2. /\ readPosition \in Nat /\ fillPosition \in Nat /\ Available \in Nat \ {0}
            /\ fillPosition = readPosition + Available /\ fillPosition <= Capacity
            /\ Capacity \in Nat /\ W \in Nat \ {0} /\ Len(delivered) \in Nat
            /\ Available <= capacity /\ capacity \in Nat
            /\ received \in Nat /\ stream.length \in Nat /\ received <= stream.length
        BY <3>1, Sizes DEF IInv, Empty
      <3>3. Available < W
        <4>1. CASE Capacity <= W
          BY <3>1, <3>2, <4>1
        <4>2. CASE ShortLines
          <5>1. NoNewline /\ pc = "call"
            BY <2>2, <3>1 DEF Refill, NeedsRefill, AtLine
          <5>2. open
            BY <3>2 DEF IInv, InvBuffer
          <5>3. \A m \in 1..Available : Len(delivered) + m \notin stream.newlines
            BY <5>1, <5>2, NoNewlineBuffered
          <5>4. Len(delivered) + Available = received
            BY <5>2 DEF IInv, InvBuffer
          <5>5. SUFFICES ASSUME W <= Available PROVE FALSE
            BY <3>2
          <5>6. Len(delivered) + W <= stream.length
            BY <3>2, <5>4, <5>5
          <5>7. stream \in Streams
            BY DEF IInv, InvTypes, TypeOK
          <5>8. PICK m \in 1..W : Len(delivered) + m \in stream.newlines
            BY <3>2, <4>2, <5>6, <5>7 DEF ShortLines
          <5> QED
            BY <3>2, <5>3, <5>5, <5>8
        <4> QED
          BY <4>1, <4>2
      <3>4. Available' = Available
        BY <3>1 DEF Available
      <3> QED
        BY <3>3, <3>4 DEF CompactsSafely
    <2> QED
      BY <2>1, <2>2 DEF Next, Running, StartCall, Reject, Destroy, NothingToRead, Take, ReadEnd,
         LineFound, LastLine, LineEnd, LineTooLong, Compacted, AlreadyEnded, Receive,
         ReceiveNothing, ReceiveFailed, ReceiveInterrupted, Return, Refilled, Asks
  <1> QED
    BY <1>1, <1>2, InitHolds, StepKeeps, PTL DEF Spec

(* A reader that is asked for no line compacts nothing.                    *)
THEOREM NoLinesNoCompaction == Spec /\ [](call.op # "line") => []CompactsSafely
  <1>1. IInv /\ call.op # "line" => CompactsSafely
    BY DEF IInv, InvCall, CompactsSafely
  <1> QED
    BY <1>1, InitHolds, StepKeeps, PTL DEF Spec

-----------------------------------------------------------------------------
(* read_line refuses only a line that does not fit the buffer.             *)
THEOREM LongLinesRefused == Spec /\ []CompactsSafely => OnlyLongLinesRefused
  <1>1. IInv /\ [Next]_vars =>
          [AtLine /\ open /\ errorLatched' =>
             \A i \in 1..Capacity : Len(delivered) + i \notin stream.newlines]_vars
    <2> SUFFICES ASSUME IInv, Next, AtLine, open, errorLatched'
                 PROVE  \A i \in 1..Capacity : Len(delivered) + i \notin stream.newlines
      OBVIOUS
    <2>1. pc = "call" /\ call.op = "line" /\ ~errorLatched
      BY DEF AtLine
    <2>2. LineTooLong
      BY <2>1 DEF Next, Running, StartCall, Reject, Destroy, NothingToRead, Take, ReadEnd,
         LineFound, LastLine, LineEnd, Refill, CompactStep, Compacted, AlreadyEnded, Receive,
         ReceiveNothing, ReceiveFailed, ReceiveInterrupted, latches, Reading, Asks
    <2>3. NoNewline /\ Available = Capacity
      BY <2>2, Sizes DEF LineTooLong, BufferFull, IInv, InvBuffer, Available
    <2> QED
      BY <2>1, <2>3, NoNewlineBuffered
  <1> QED
    BY <1>1, Inductive, PTL DEF Spec, OnlyLongLinesRefused

-----------------------------------------------------------------------------
(* The reader implements the stream, step by step.                         *)

Ended == open /\ eofLatched /\ Empty

AllAccounted ==
  /\ Len(delivered) \in 0..stream.length
  /\ Ended => Len(delivered) = stream.length

LEMMA EndedMeansAllGiven == IInv => AllAccounted
  <1> SUFFICES ASSUME IInv PROVE AllAccounted
    OBVIOUS
  <1>1. /\ Len(delivered) \in Nat /\ received \in Nat /\ stream.length \in Nat
        /\ received <= stream.length /\ Len(delivered) <= received
    BY Sizes DEF IInv, InvBuffer
  <1>2. ASSUME open, eofLatched, Empty PROVE Len(delivered) = stream.length
    <2>1. Available = 0 /\ Len(delivered) + Available = received
      BY <1>2, Sizes DEF IInv, InvBuffer, Empty
    <2>2. received = stream.length
      BY <1>2 DEF IInv, InvEnd
    <2> QED
      BY <1>1, <2>1, <2>2
  <1> QED
    BY <1>1, <1>2 DEF AllAccounted, Ended

LEMMA StillAccounted == IInv' => AllAccounted'
  BY EndedMeansAllGiven, PTL

(* Bytes given out are the next ones.                                      *)
LEMMA Gives ==
  ASSUME IInv, IInv', UNCHANGED stream, Len(delivered) <= Len(delivered'),
         errorLatched \/ ~open => delivered' = delivered
  PROVE  Input!Give
  <1>1. /\ Len(delivered) \in Nat /\ Len(delivered') \in Nat
        /\ stream.length \in Nat /\ Len(delivered') <= stream.length
    <2>1. Len(delivered) \in Nat /\ stream.length \in Nat
      BY Sizes DEF IInv
    <2>2. Len(delivered') \in 0..stream.length
      BY StillAccounted DEF AllAccounted
    <2> QED
      BY <2>1, <2>2
  <1>2. delivered' = [i \in 1..Len(delivered') |-> i]
    BY DEF IInv, InvBuffer
  <1> QED
    BY <1>1, <1>2 DEF Input!Give

LEMMA Announces ==
  ASSUME IInv', UNCHANGED stream, Ended => Ended' \/ ~open'
  PROVE  Input!Announce
  <1>1. Ended' => Len(delivered') = stream.length
    BY StillAccounted DEF AllAccounted
  <1> QED
    BY <1>1 DEF Input!Announce, Input!AllGiven, Ended

(* A call that returns.                                                    *)
LEMMA Returns ==
  ASSUME IInv, IInv', UNCHANGED <<stream, call>>, pc # "idle", pc' = "idle",
         Len(delivered) <= Len(delivered'), errorLatched \/ ~open => delivered' = delivered,
         errorLatched \/ ~errorLatched' \/ ~result',
         errorLatched => errorLatched',
         call.op # "destroy" /\ errorLatched' => ~result',
         open' = (open /\ call.op # "destroy"),
         Ended => Ended' \/ ~open',
         Input!ReadReturns \/ Input!ExactReturns \/ Input!LineReturns \/ Input!DestroyReturns
  PROVE  Input!Next
  <1>1. Input!Give /\ Input!Announce
    BY Gives, Announces
  <1>2. /\ result' \in BOOLEAN /\ errorLatched \in BOOLEAN /\ errorLatched' \in BOOLEAN
        /\ open \in BOOLEAN
    BY DEF IInv, InvTypes, TypeOK
  <1>3. errorLatched' = (errorLatched \/ (errorLatched' /\ ~result'))
    BY <1>2
  <1>4. (~open') = (~open \/ call.op = "destroy")
    BY <1>2
  <1> QED
    BY <1>1, <1>2, <1>3, <1>4 DEF Input!Next, Input!Return

(* A step that no caller sees.                                             *)
LEMMA Hidden ==
  ASSUME UNCHANGED <<stream, delivered, call, result, errorLatched, open>>,
         pc # "idle", pc' # "idle", Ended' = Ended
  PROVE  UNCHANGED Input!inputVars
  BY DEF Input!inputVars, Ended

LEMMA AskMaps ==
  ASSUME IInv, IInv', NEW c \in Calls, StartCall(c)
  PROVE  Input!Next
  <1>1. c \in [op : {"read", "exact", "line", "destroy"}, want : Nat]
    BY ReaderAssumption DEF Calls, Call
  <1>2. call' \in [op : {"read", "exact", "line", "destroy"}, want : Nat,
                   start : {Len(delivered)}]
    BY <1>1 DEF StartCall
  <1> QED
    BY <1>2 DEF StartCall, Input!Next, Input!Ask, positions, latches, kernelVars, Empty

(* What a running call has been asked.                                     *)
LEMMA Asked ==
  ASSUME IInv, pc # "idle"
  PROVE  /\ call.op \in {"read", "exact", "line", "destroy"}
         /\ call.start \in Nat /\ call.want \in Nat /\ Len(delivered) \in Nat
         /\ remaining \in Nat
         /\ call.op \in {"read", "line", "destroy"} => call.start = Len(delivered)
         /\ call.op = "read" => remaining = call.want
         /\ call.op = "exact" => /\ call.start <= Len(delivered)
                                 /\ call.start + call.want = Len(delivered) + remaining
  <1>1. call \in [op : {"init", "read", "exact", "line", "destroy"}, want : Nat, start : Nat]
    BY DEF IInv, InvTypes, TypeOK
  <1> QED
    BY <1>1, Sizes DEF IInv, InvCall, InvTypes, TypeOK

(* A call that returns false with the error latched, or the end.           *)
LEMMA FailMaps ==
  ASSUME IInv, IInv', Reject \/ LineTooLong \/ ReceiveFailed
  PROVE  Input!Next
  <1> USE DEF Reject, LineTooLong, ReceiveFailed, Return, positions, latches, kernelVars
  <1>1. /\ UNCHANGED <<stream, call, delivered, open, eofLatched, readPosition, fillPosition>>
        /\ pc # "idle" /\ pc' = "idle" /\ result' = FALSE
    BY DEF AtLine, Asks
  <1>2. errorLatched' /\ call.op # "destroy"
    BY DEF AtLine, Asks, IInv, InvCall, Reading
  <1>3. Input!Served = Len(delivered) - call.start
    BY <1>1 DEF Input!Served
  <1>4. Input!ReadReturns \/ Input!ExactReturns \/ Input!LineReturns
    BY <1>1, <1>2, <1>3, Asked
       DEF Input!ReadReturns, Input!ExactReturns, Input!LineReturns
  <1>5. Len(delivered) <= Len(delivered') /\ Ended' = Ended
    BY <1>1, Asked DEF Ended, Empty
  <1>6. open' = (open /\ call.op # "destroy")
    BY <1>1, <1>2 DEF IInv, InvTypes, TypeOK
  <1> QED
    BY <1>1, <1>2, <1>4, <1>5, <1>6, Returns

(* Calls that return without a byte, for a reason the caller may rely on.  *)
LEMMA StillReturns ==
  ASSUME IInv, IInv', pc # "idle", pc' = "idle", ~errorLatched, call.op # "destroy",
         UNCHANGED <<stream, call, delivered, open, errorLatched, eofLatched>>,
         UNCHANGED <<readPosition, fillPosition>>,
         Input!ReadReturns \/ Input!ExactReturns \/ Input!LineReturns
  PROVE  Input!Next
  <1>1. Len(delivered) <= Len(delivered') /\ Ended' = Ended
    BY Asked DEF Ended, Empty
  <1>2. ~errorLatched'
    OBVIOUS
  <1>3. open' = (open /\ call.op # "destroy")
    BY DEF IInv, InvTypes, TypeOK
  <1> QED
    BY <1>1, <1>2, <1>3, Returns

LEMMA NothingMaps ==
  ASSUME IInv, IInv', NothingToRead \/ ReadEnd \/ LineEnd
  PROVE  Input!Next
  <1>1. /\ UNCHANGED <<stream, call, delivered, open, errorLatched, eofLatched>>
        /\ UNCHANGED <<readPosition, fillPosition>>
        /\ pc # "idle" /\ pc' = "idle" /\ ~errorLatched
    BY DEF NothingToRead, ReadEnd, LineEnd, Return, positions, latches, kernelVars,
           AtLine, IInv, InvCall
  <1>2. Input!Served = Len(delivered) - call.start
    BY <1>1 DEF Input!Served
  <1>3. Ended => Len(delivered) = stream.length
    BY EndedMeansAllGiven DEF AllAccounted
  <1>4. CASE NothingToRead
    <2>1. remaining = 0 /\ result' = TRUE /\ call.op \in {"read", "exact"}
      BY <1>4 DEF NothingToRead, Return, Reading
    <2>2. ASSUME call.op = "read" PROVE Input!ReadReturns
      <3>1. Input!Served <= call.want /\ Input!Served = 0 /\ call.want = 0
        BY <1>1, <1>2, <2>1, <2>2, Asked
      <3> QED
        BY <2>1, <2>2, <3>1 DEF Input!ReadReturns
    <2>3. ASSUME call.op = "exact" PROVE Input!ExactReturns
      <3>1. Input!Served = call.want
        BY <1>1, <1>2, <2>1, <2>3, Asked
      <3> QED
        BY <2>1, <2>3, <3>1 DEF Input!ExactReturns
    <2> QED
      BY <1>1, <2>1, <2>2, <2>3, StillReturns
  <1>5. CASE ReadEnd
    <2>1. /\ remaining > 0 /\ result' = (call.op = "read") /\ call.op \in {"read", "exact"}
          /\ pc = "refilled" /\ Empty
      BY <1>5 DEF ReadEnd, Return, Reading, IInv, InvCall
    <2>2. ~open \/ (Input!AllGiven /\ Input!AllGiven')
      <3>1. open => Len(delivered) = stream.length
        BY <1>3, <2>1 DEF IInv, InvEnd, Ended
      <3> QED
        BY <1>1, <3>1 DEF Input!AllGiven
    <2>3. ASSUME call.op = "read" PROVE Input!ReadReturns
      <3>1. Input!Served <= call.want
        BY <1>1, <1>2, <2>1, <2>3, Asked
      <3> QED
        BY <2>1, <2>2, <2>3, <3>1 DEF Input!ReadReturns
    <2>4. ASSUME call.op = "exact" PROVE Input!ExactReturns
      <3>1. Input!Served < call.want
        BY <1>1, <1>2, <2>1, <2>4, Asked
      <3> QED
        BY <2>1, <2>2, <2>4, <3>1 DEF Input!ExactReturns
    <2> QED
      BY <1>1, <2>1, <2>3, <2>4, StillReturns
  <1>6. CASE LineEnd
    <2>1. /\ result' = FALSE /\ call.op = "line" /\ eofLatched /\ Empty
      BY <1>6 DEF LineEnd, Return, AtLine
    <2>2. Input!Served = 0
      BY <1>1, <1>2, <2>1, Asked
    <2>3. ~open \/ Input!AllGiven
      BY <1>1, <1>3, <2>1 DEF Input!AllGiven, Ended
    <2>4. Input!LineReturns
      <3>1. ~result' /\ call.op = "line"
        BY <2>1
      <3> QED
        BY <2>2, <2>3, <3>1, Zenon DEF Input!LineReturns
    <2> QED
      BY <1>1, <2>1, <2>4, StillReturns
  <1> QED
    BY <1>4, <1>5, <1>6

LEMMA DestroyMaps ==
  ASSUME IInv, IInv', Destroy
  PROVE  Input!Next
  <1> USE DEF Destroy, Return, latches, kernelVars
  <1>1. /\ UNCHANGED <<stream, call, delivered, errorLatched>> /\ pc # "idle"
        /\ pc' = "idle" /\ open' = FALSE /\ result' = TRUE /\ call.op = "destroy"
    OBVIOUS
  <1>2. Input!Served = Len(delivered) - call.start
    BY <1>1 DEF Input!Served
  <1>3. Input!DestroyReturns /\ Len(delivered) <= Len(delivered')
    BY <1>1, <1>2, Asked DEF Input!DestroyReturns
  <1>4. errorLatched \/ ~errorLatched'
    BY <1>1
  <1> QED
    BY <1>1, <1>3, <1>4, Returns DEF IInv, InvTypes, TypeOK

LEMMA TakeMaps ==
  ASSUME IInv, IInv', Take
  PROVE  Input!Next
  <1> DEFINE n == IF remaining < Available THEN remaining ELSE Available
  <1>1. /\ pc \in {"call", "refilled"} /\ Reading /\ ~errorLatched /\ remaining > 0 /\ ~Empty
        /\ Consume(n) /\ remaining' = remaining - n
        /\ UNCHANGED <<stream, call, open, errorLatched, mem, received, capacity>>
        /\ \/ pc' = "idle" /\ result' = TRUE /\ (call.op = "read" \/ n = remaining)
           \/ pc' = "call" /\ result' = result /\ call.op # "read"
    BY DEF Take, Return, latches, copyVars, kernelVars
  <1>2. remaining \in Nat /\ Available \in Nat \ {0}
    BY <1>1, Sizes DEF IInv, Empty, InvTypes, TypeOK
  <1>3. n \in Nat \ {0} /\ n <= Available /\ n <= remaining
    BY <1>1, <1>2
  <1> HIDE DEF n
  <1>4. open
    BY <1>2, Sizes DEF IInv, InvBuffer
  <1>5. Len(delivered') = Len(delivered) + n
    BY <1>1, <1>3, <1>4, ConsumeKeeps
  <1>6. ~Ended /\ call.op \in {"read", "exact"}
    BY <1>1 DEF Ended, Reading
  <1>7. /\ call.start \in Nat /\ call.want \in Nat /\ Len(delivered) \in Nat
        /\ call.op = "read" => call.start = Len(delivered) /\ remaining = call.want
        /\ call.op = "exact" => call.start + call.want = Len(delivered) + remaining
    BY <1>1, Asked
  <1>8. Len(delivered) <= Len(delivered')
    BY <1>3, <1>5, <1>7
  <1>9. CASE pc' = "idle"
    <2>1. /\ Input!Served = Len(delivered) + n - call.start /\ result' = TRUE
          /\ call.op = "read" \/ n = remaining
      <3>1. Input!Served = Len(delivered') - call.start
        BY DEF Input!Served
      <3>2. pc' # "call"
        BY <1>9
      <3>3. result' = TRUE /\ (call.op = "read" \/ n = remaining)
        BY <1>1, <3>2
      <3>4. Input!Served = Len(delivered) + n - call.start
        BY <1>3, <1>5, <1>7, <3>1
      <3> QED
        BY <3>3, <3>4
    <2>2. ASSUME call.op = "read" PROVE Input!ReadReturns
      <3>1. Input!Served <= call.want /\ Input!Served # 0
        <4>1. call.start = Len(delivered) /\ remaining = call.want
          BY <1>7, <2>2
        <4> QED
          BY <1>2, <1>3, <1>7, <2>1, <4>1
      <3> QED
        BY <2>1, <2>2, <3>1 DEF Input!ReadReturns
    <2>3. ASSUME call.op = "exact" PROVE Input!ExactReturns
      <3>1. Input!Served = call.want
        <4>1. call.start + call.want = Len(delivered) + n
          BY <1>7, <2>1, <2>3
        <4> QED
          BY <1>3, <1>7, <2>1, <4>1
      <3> QED
        BY <2>1, <2>3, <3>1 DEF Input!ExactReturns
    <2>4. Input!ReadReturns \/ Input!ExactReturns
      BY <1>6, <2>2, <2>3
    <2>5. /\ UNCHANGED <<stream, call>> /\ pc # "idle" /\ ~errorLatched /\ ~errorLatched'
          /\ open' = (open /\ call.op # "destroy")
      BY <1>1, <1>4, <1>6 DEF IInv, InvTypes, TypeOK
    <2> QED
      BY <1>4, <1>6, <1>8, <1>9, <2>4, <2>5, Returns
  <1>10. CASE pc' = "call"
    <2>1. Input!Give /\ Input!Announce
      BY <1>1, <1>4, <1>6, <1>8, Gives, Announces
    <2> QED
      BY <1>1, <1>4, <1>6, <1>10, <2>1 DEF Input!Next, Input!Part
  <1> QED
    BY <1>1, <1>9, <1>10

LEMMA LineMaps ==
  ASSUME IInv, IInv', LineFound \/ LastLine
  PROVE  Input!Next
  <1>1. /\ pc = "call" /\ call.op = "line" /\ ~errorLatched
        /\ pc' = "idle" /\ result' = TRUE
        /\ UNCHANGED <<stream, call, open, errorLatched, eofLatched, mem, received, capacity>>
    BY DEF LineFound, LastLine, AtLine, Return, latches, copyVars, kernelVars
  <1>2. /\ Available \in Nat /\ readPosition \in Nat /\ fillPosition = readPosition + Available
        /\ Len(delivered) \in Nat /\ call.start = Len(delivered)
    BY <1>1, Asked, Sizes DEF IInv
  <1>3. ASSUME open
        PROVE  \A m \in 0..(Available - 1) :
                 IsNewline(m) <=> Len(delivered) + m + 1 \in stream.newlines
    <2> SUFFICES ASSUME NEW m \in 0..(Available - 1)
                 PROVE  Byte(readPosition + m) = Len(delivered) + m + 1
      BY DEF IsNewline
    <2>1. m + 1 \in 1..Available /\ readPosition + (m + 1) - 1 = readPosition + m
      BY <1>2
    <2>2. Byte(readPosition + (m + 1) - 1) = Len(delivered) + (m + 1)
      BY <1>1, <1>3, <2>1 DEF IInv, BufferHoldsTheRest
    <2> QED
      BY <1>2, <2>1, <2>2
  <1>4. PICK n \in Nat \ {0} :
          /\ n <= Available /\ Consume(n)
          /\ open => \A m \in 0..(n - 2) : Len(delivered) + m + 1 \notin stream.newlines
          /\ open => \/ Len(delivered) + n \in stream.newlines
                     \/ Len(delivered) + n = stream.length
          /\ ~Empty
    <2>1. CASE LineFound
      <3>1. PICK x \in 0..(Available - 1) : FirstNewline(x) /\ Consume(x + 1)
        BY <2>1 DEF LineFound
      <3>2. x + 1 \in Nat \ {0} /\ x + 1 <= Available /\ ~Empty
            /\ (x + 1) - 2 = x - 1 /\ Len(delivered) + (x + 1) = Len(delivered) + x + 1
        BY <1>2, <3>1 DEF Empty
      <3>3. open => \A m \in 0..(x - 1) : Len(delivered) + m + 1 \notin stream.newlines
        <4> SUFFICES ASSUME open, NEW m \in 0..(x - 1)
                     PROVE  Len(delivered) + m + 1 \notin stream.newlines
          OBVIOUS
        <4>1. m \in 0..(Available - 1) /\ ~IsNewline(m)
          BY <1>2, <3>1 DEF FirstNewline
        <4> QED
          BY <1>3, <4>1
      <3>4. open => Len(delivered) + x + 1 \in stream.newlines
        BY <1>3, <3>1 DEF FirstNewline
      <3> QED
        BY <3>1, <3>2, <3>3, <3>4
    <2>2. CASE LastLine
      <3>1. Available # 0 /\ Consume(Available) /\ NoNewline /\ eofLatched /\ ~Empty
        BY <1>2, <2>2 DEF LastLine, Empty
      <3>2. open => Len(delivered) + Available = stream.length
        BY <3>1 DEF IInv, InvEnd, InvBuffer
      <3>3. open => \A m \in 0..(Available - 2) : Len(delivered) + m + 1 \notin stream.newlines
        <4> SUFFICES ASSUME open, NEW m \in 0..(Available - 2)
                     PROVE  Len(delivered) + m + 1 \notin stream.newlines
          OBVIOUS
        <4>1. m \in 0..(Available - 1)
          BY <1>2
        <4> QED
          BY <1>3, <3>1, <4>1 DEF NoNewline
      <3> QED
        <4>1. Available \in Nat \ {0} /\ Available <= Available
          BY <1>2, <3>1
        <4> QED
          BY <3>1, <3>2, <3>3, <4>1
    <2> QED
      BY <2>1, <2>2
  <1>5. open
    BY <1>4, Sizes DEF IInv, InvBuffer
  <1>6. Len(delivered') = Len(delivered) + n
    BY <1>1, <1>4, <1>5, ConsumeKeeps
  <1>7. Len(delivered) <= Len(delivered') /\ ~Ended
    BY <1>2, <1>4, <1>6 DEF Ended
  <1>8. Input!LineReturns
    <2>1. Input!Served > 0
      BY <1>2, <1>4, <1>6 DEF Input!Served
    <2>2. ASSUME NEW k \in (call.start + 1)..(Len(delivered') - 1)
          PROVE  k \notin stream.newlines
      <3>1. k - Len(delivered) - 1 \in 0..(n - 2)
            /\ Len(delivered) + (k - Len(delivered) - 1) + 1 = k
        BY <1>2, <1>6
      <3> QED
        BY <1>4, <1>5, <3>1
    <2>3. Len(delivered') \in stream.newlines \/ Len(delivered') = stream'.length
      BY <1>1, <1>4, <1>5, <1>6
    <2> QED
      BY <1>1, <2>1, <2>2, <2>3 DEF Input!LineReturns, Input!AllGiven
  <1> QED
    BY <1>1, <1>5, <1>7, <1>8, Returns DEF IInv, InvTypes, TypeOK

(* The steps inside a call, but for the kernel's answer of 0.              *)
LEMMA InsideMaps ==
  ASSUME IInv, \/ Refill \/ CompactStep \/ Compacted \/ AlreadyEnded \/ ReceiveInterrupted
               \/ \E n \in ReceiveSizes : Receive(n)
  PROVE  UNCHANGED Input!inputVars
  <1> USE DEF positions, latches, callVars, copyVars, kernelVars
  <1>1. /\ UNCHANGED <<stream, delivered, call, result, errorLatched, open, eofLatched>>
        /\ pc # "idle" /\ pc' # "idle"
    BY DEF Refill, CompactStep, Compacted, AlreadyEnded, ReceiveInterrupted, Receive,
           Refilled, Asks, NeedsRefill, AtLine
  <1>2. CASE Refill
    <2>1. Empty' = Empty
      BY <1>2 DEF Refill, Empty
    <2> QED
      BY <1>1, <2>1, Hidden DEF Ended
  <1>3. CASE CompactStep \/ AlreadyEnded \/ ReceiveInterrupted
    <2>1. Empty' = Empty
      BY <1>3 DEF CompactStep, AlreadyEnded, ReceiveInterrupted, Empty
    <2> QED
      BY <1>1, <2>1, Hidden DEF Ended
  <1>4. CASE Compacted \/ \E n \in ReceiveSizes : Receive(n)
    <2>1. ~eofLatched
      BY <1>4 DEF Compacted, Receive, Asks, IInv, InvCompaction
    <2> QED
      BY <1>1, <2>1, Hidden DEF Ended
  <1> QED
    BY <1>2, <1>3, <1>4

LEMMA EndMaps ==
  ASSUME IInv, IInv', ReceiveNothing
  PROVE  Input!Next
  <1>1. /\ UNCHANGED <<stream, delivered, call, result, errorLatched, open>>
        /\ pc # "idle" /\ pc' # "idle" /\ ~Ended
    BY DEF ReceiveNothing, Asks, Refilled, latches, callVars, kernelVars, copyVars, Ended
  <1>2. Input!Announce
    BY <1>1, Announces
  <1> QED
    BY <1>1, <1>2 DEF Input!Next, Input!End

LEMMA InitMaps == Init => Input!Init
  BY DEF Init, Input!Init, Empty

LEMMA StepMaps == IInv /\ IInv' /\ [Next]_vars => [Input!Next]_Input!inputVars
  <1> SUFFICES ASSUME IInv, IInv', [Next]_vars PROVE [Input!Next]_Input!inputVars
    OBVIOUS
  <1>1. CASE Running
    BY <1>1, FailMaps, NothingMaps, DestroyMaps, TakeMaps, LineMaps, InsideMaps, EndMaps
       DEF Running
  <1>2. CASE UNCHANGED vars
    BY <1>2 DEF vars, positions, latches, callVars, copyVars, kernelVars, Input!inputVars, Empty
  <1> QED
    BY <1>1, <1>2, AskMaps, InsideMaps DEF Next

(* The reader implements the stream of module InputStream.                 *)
THEOREM Implementation == Spec /\ []CompactsSafely => ImplementsInput
  BY InitMaps, StepMaps, Inductive, PTL DEF Spec, ImplementsInput, Input!Spec

(* On short lines, and in a small buffer, it does so whatever happens.     *)
THEOREM ShortLinesImplementation ==
  ASSUME Capacity <= W \/ ShortLines
  PROVE  Spec => ImplementsInput
  BY SafeCompactions, Implementation, PTL

(* And so it does when it is only asked for bytes, by read and read_exact. *)
THEOREM NoLinesImplementation == Spec /\ [](call.op # "line") => ImplementsInput
  BY NoLinesNoCompaction, Implementation, PTL
=============================================================================
