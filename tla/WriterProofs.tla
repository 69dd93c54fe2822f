---------------------------- MODULE WriterProofs ----------------------------
(***************************************************************************)
(* Proofs about Writer for every set of modes, capacities, lengths and     *)
(* widths: the inductive invariant IInv, the safety invariants it implies, *)
(* and the finality of an error.                                           *)
(***************************************************************************)
EXTENDS Writer, SequenceTheorems, TLAPS

(* size_t subtraction gives the true difference while the position is      *)
(* within the capacity.                                                    *)
LEMMA RemainingIsDifference ==
  ASSUME TypeOK, InvBuffer, SizeModulus \in Nat \ {0}
  PROVE  Remaining = capacity - Len(buffer)
<1>1. Len(buffer) \in Nat
  BY DEF TypeOK
<1>. DEFINE r == capacity - Len(buffer)
<1>2. r \in 0..(SizeModulus - 1)
  BY <1>1 DEF InvBuffer, TypeOK
<1>3. SizeModulus + capacity - Len(buffer) = SizeModulus + r
  BY <1>1 DEF TypeOK
<1>4. \A m \in Nat \ {0} : \A a \in 0..(m - 1) : (m + a) % m = a
  OBVIOUS
<1>. QED
  BY <1>2, <1>3, <1>4 DEF Remaining

(* Consecutive runs are glued and cut like the intervals they stand for.   *)
LEMMA ConsecutiveConcat ==
  ASSUME NEW s \in Seq(Nat), NEW t \in Seq(Nat), NEW a \in Nat,
         Consecutive(s, a), Consecutive(t, a + Len(s))
  PROVE  /\ s \o t \in Seq(Nat)
         /\ Len(s \o t) = Len(s) + Len(t)
         /\ Consecutive(s \o t, a)
<1>1. /\ s \o t \in Seq(Nat)
      /\ Len(s \o t) = Len(s) + Len(t)
      /\ \A i \in 1..(Len(s) + Len(t)) :
           (s \o t)[i] = IF i <= Len(s) THEN s[i] ELSE t[i - Len(s)]
  BY ConcatProperties
<1>2. DOMAIN (s \o t) = 1..(Len(s) + Len(t))
  BY <1>1
<1>3. ASSUME NEW i \in 1..(Len(s) + Len(t))
      PROVE  (s \o t)[i] = a + i
  <2>1. CASE i <= Len(s)
    BY <1>1, <2>1 DEF Consecutive
  <2>2. CASE i > Len(s)
    <3>1. i - Len(s) \in 1..Len(t)
      BY <2>2
    <3>. QED
      BY <1>1, <2>2, <3>1 DEF Consecutive
  <2>. QED
    BY <2>1, <2>2
<1>. QED
  BY <1>1, <1>2, <1>3 DEF Consecutive

(* Cutting a run of consecutive bytes leaves two such runs.                *)
LEMMA ConsecutiveSplit ==
  ASSUME NEW s \in Seq(Nat), NEW a \in Nat, NEW n \in 1..Len(s), Consecutive(s, a)
  PROVE  /\ SubSeq(s, 1, n) \in Seq(Nat)
         /\ SubSeq(s, n + 1, Len(s)) \in Seq(Nat)
         /\ Len(SubSeq(s, 1, n)) = n
         /\ Len(SubSeq(s, n + 1, Len(s))) = Len(s) - n
         /\ Consecutive(SubSeq(s, 1, n), a)
         /\ Consecutive(SubSeq(s, n + 1, Len(s)), a + n)
<1>. DEFINE h == SubSeq(s, 1, n)
            t == SubSeq(s, n + 1, Len(s))
<1>1. PICK m \in Nat : m = Len(s) /\ DOMAIN s = 1..m /\ 1 <= n /\ n <= m
  BY LenProperties
<1>2. h \in Seq(Nat) /\ Len(h) = n /\ DOMAIN h = 1..n /\ \A i \in 1..n : h[i] = s[i]
  BY <1>1, SubSeqProperties
<1>3. t \in Seq(Nat) /\ Len(t) = m - n /\ DOMAIN t = 1..(m - n)
      /\ \A i \in 1..(m - n) : t[i] = s[n + i]
  BY <1>1, SubSeqProperties
<1>. HIDE DEF h, t
<1>4. \A i \in 1..m : s[i] = a + i
  BY <1>1 DEF Consecutive
<1>5. Consecutive(h, a)
  <2>1. \A i \in 1..n : i \in 1..m
    BY <1>1
  <2>2. \A i \in 1..n : h[i] = a + i
    BY <1>2, <1>4, <2>1
  <2>. QED
    BY <1>2, <2>2 DEF Consecutive
<1>6. Consecutive(t, a + n)
  <2>1. \A i \in 1..(m - n) : n + i \in 1..m /\ a + (n + i) = (a + n) + i
    BY <1>1
  <2>. QED
    BY <1>3, <1>4, <2>1 DEF Consecutive
<1>. QED
  BY <1>1, <1>2, <1>3, <1>5, <1>6 DEF h, t

(* The empty sequence is a run that ends where it starts.                  *)
LEMMA ConsecutiveEmpty ==
  ASSUME NEW a
  PROVE  Consecutive(<<>>, a) /\ <<>> \in Seq(Nat) /\ Len(<<>>) = 0
  BY DEF Consecutive

(* The bytes of a new piece follow those issued before.                    *)
LEMMA FreshIsConsecutive ==
  ASSUME NEW n \in Nat, issued \in Nat
  PROVE  /\ Fresh(n) \in Seq(Nat)
         /\ Len(Fresh(n)) = n
         /\ Consecutive(Fresh(n), issued)
  BY DEF Fresh, Consecutive

(* The program of every call is a non-empty sequence of primitives, a char *)
(* hands over one byte, and flush and destroy are alone in theirs.         *)
WellFormed(program) ==
  /\ program \in Seq(Primitive)
  /\ program # <<>>
  /\ \A i \in DOMAIN program : program[i].kind = "char" => program[i].len = 1

(* A program of one primitive is a program.                                *)
LEMMA SingletonIsWellFormed ==
  ASSUME NEW p \in Primitive, p.kind = "char" => p.len = 1
  PROVE  WellFormed(<<p>>) /\ Len(<<p>>) = 1 /\ Head(<<p>>) = p
  BY DEF WellFormed

(* Two programs one after the other are a program.                         *)
LEMMA ConcatIsWellFormed ==
  ASSUME NEW s \in Seq(Primitive), NEW t, WellFormed(t),
         \A i \in DOMAIN s : s[i].kind = "char" => s[i].len = 1
  PROVE  WellFormed(s \o t)
<1>1. /\ s \o t \in Seq(Primitive)
      /\ Len(s \o t) = Len(s) + Len(t)
      /\ \A i \in 1..(Len(s) + Len(t)) :
           (s \o t)[i] = IF i <= Len(s) THEN s[i] ELSE t[i - Len(s)]
  BY ConcatProperties DEF WellFormed
<1>2. Len(t) \in Nat \ {0}
  BY EmptySeq DEF WellFormed
<1>3. s \o t # <<>>
  BY <1>1, <1>2, EmptySeq
<1>4. ASSUME NEW i \in 1..(Len(s) + Len(t)), (s \o t)[i].kind = "char"
      PROVE  (s \o t)[i].len = 1
  <2>1. CASE i <= Len(s)
    BY <1>1, <1>4, <2>1
  <2>2. CASE i > Len(s)
    <3>1. i - Len(s) \in 1..Len(t)
      BY <2>2, <1>2
    <3>. QED
      BY <1>1, <1>4, <2>2, <3>1 DEF WellFormed
  <2>. QED
    BY <2>1, <2>2
<1>. QED
  BY <1>1, <1>3, <1>4 DEF WellFormed

(* Padding is a program.                                                   *)
LEMMA PadIsWellFormed ==
  ASSUME NEW n \in Nat
  PROVE  /\ Pad(n) \in Seq(Primitive)
         /\ \A i \in DOMAIN Pad(n) : Pad(n)[i].kind = "char" => Pad(n)[i].len = 1
  BY DEF Pad, Char, Primitive, Kinds

(* Every API call runs a program.                                          *)
LEMMA CallsAreWellFormed ==
  ASSUME NEW c \in Calls
  PROVE  /\ WellFormed(c.program)
         /\ c.op \in Ops
         /\ c.field \in Nat
         /\ c.op \in {"flush", "destroy"} =>
              Len(c.program) = 1 /\ Head(c.program).kind = c.op
<1>. USE WriterAssumption DEF WriterAssumption
<1>1. \A n \in Nat : Bytes(n) \in Primitive /\ Bytes(n).kind = "bytes"
  BY DEF Bytes, Primitive, Kinds
<1>2. Char \in Primitive /\ Char.kind = "char" /\ Char.len = 1
  BY DEF Char, Primitive, Kinds
<1>3. \A n, w \in Nat : PadCount(n, w) \in Nat /\ FieldOf(n, w) \in Nat
  BY DEF PadCount, FieldOf
<1>4. \A n \in Nat : WellFormed(<<Bytes(n)>>)
  BY <1>1, SingletonIsWellFormed
<1>5. WellFormed(<<Char>>)
  BY <1>2, SingletonIsWellFormed
<1>6. \A n, w \in Nat : WellFormed(PaddedField(n, w))
  BY <1>3, <1>4, PadIsWellFormed, ConcatIsWellFormed DEF PaddedField
<1>7. ASSUME NEW n \in Nat \ {0, 1}, NEW w \in Nat
      PROVE  WellFormed(ZeroPaddedNegative(n, w))
  <2>1. CASE n >= w
    BY <1>4, <2>1 DEF ZeroPaddedNegative
  <2>2. CASE n < w
    <3>1. /\ n - 1 \in Nat
          /\ PadCount(n, w) \in Nat
      BY <1>3
    <3>2. <<Char>> \in Seq(Primitive)
      BY <1>2
    <3>3. \A i \in DOMAIN <<Char>> : <<Char>>[i].kind = "char" => <<Char>>[i].len = 1
      BY <1>5 DEF WellFormed
    <3>4. DEFINE t == Pad(PadCount(n, w)) \o <<Bytes(n - 1)>>
    <3>5. WellFormed(t)
      BY <1>4, <3>1, PadIsWellFormed, ConcatIsWellFormed
    <3>6. WellFormed(<<Char>> \o t)
      BY <3>2, <3>3, <3>5, ConcatIsWellFormed
    <3>7. <<Char>> \o t = ZeroPaddedNegative(n, w)
      <4>1. /\ Pad(PadCount(n, w)) \in Seq(Primitive)
            /\ <<Bytes(n - 1)>> \in Seq(Primitive)
        BY <1>1, <3>1, PadIsWellFormed
      <4>2. <<Char>> \o t = (<<Char>> \o Pad(PadCount(n, w))) \o <<Bytes(n - 1)>>
        BY <3>2, <4>1, ConcatAssociative
      <4>3. ~(n >= w)
        BY <2>2
      <4>. QED
        BY <4>2, <4>3 DEF ZeroPaddedNegative
    <3>. QED
      BY <3>6, <3>7
  <2>. QED
    BY <2>1, <2>2
<1>. DEFINE Good(d) ==
         /\ WellFormed(d.program)
         /\ d.op \in Ops
         /\ d.field \in Nat
         /\ d.op \in {"flush", "destroy"} =>
              Len(d.program) = 1 /\ Head(d.program).kind = d.op
<1>8. ASSUME NEW op \in Ops, op \notin {"flush", "destroy"},
             NEW program, WellFormed(program), NEW field \in Nat
      PROVE  Good(Call(op, program, field))
  <2>1. /\ Call(op, program, field).op = op
        /\ Call(op, program, field).program = program
        /\ Call(op, program, field).field = field
    BY DEF Call
  <2>. QED
    BY <1>8, <2>1, Zenon DEF Good
<1>. HIDE DEF Good
<1>. DEFINE WritingOps == {"write_bytes", "write_char", "write_padded", "write_signed_padded",
                        "write_invalid"}
<1>0. \A op \in WritingOps : op \in Ops /\ op \notin {"flush", "destroy"}
  BY DEF Ops
<1>9. \A n \in Lengths : Good(Call("write_bytes", <<Bytes(n)>>, n))
  BY <1>0, <1>4, <1>8
<1>10. Good(Call("write_char", <<Char>>, 1))
  BY <1>0, <1>5, <1>8
<1>11. \A n \in Lengths \ {0}, w \in Widths :
          Good(Call("write_padded", PaddedField(n, w), FieldOf(n, w)))
  BY <1>0, <1>3, <1>6, <1>8
<1>12. \A n \in Lengths \ {0, 1}, w \in Widths :
          Good(Call("write_signed_padded", ZeroPaddedNegative(n, w), FieldOf(n, w)))
  BY <1>0, <1>3, <1>7, <1>8
<1>14. Good(Call("write_invalid", <<Latch>>, 0))
  <2>1. Latch \in Primitive /\ Latch.kind # "char"
    BY DEF Latch, Primitive, Kinds
  <2>2. WellFormed(<<Latch>>)
    BY <2>1, SingletonIsWellFormed
  <2>. QED
    BY <1>0, <1>8, <2>2
<1>15. ASSUME NEW op \in {"flush", "destroy"}
       PROVE  Good(Call(op, <<[kind |-> op, len |-> 0]>>, 0))
  <2>1. [kind |-> op, len |-> 0] \in Primitive
    BY DEF Primitive, Kinds
  <2>2. /\ WellFormed(<<[kind |-> op, len |-> 0]>>)
        /\ Len(<<[kind |-> op, len |-> 0]>>) = 1
        /\ Head(<<[kind |-> op, len |-> 0]>>) = [kind |-> op, len |-> 0]
    BY <2>1, SingletonIsWellFormed
  <2>3. /\ Call(op, <<[kind |-> op, len |-> 0]>>, 0).op = op
        /\ Call(op, <<[kind |-> op, len |-> 0]>>, 0).program = <<[kind |-> op, len |-> 0]>>
        /\ Call(op, <<[kind |-> op, len |-> 0]>>, 0).field = 0
    BY DEF Call
  <2>4. op \in Ops
    BY DEF Ops
  <2>5. [kind |-> op, len |-> 0].kind = op
    OBVIOUS
  <2>. QED
    BY <2>2, <2>3, <2>4, <2>5 DEF Good
<1>16. /\ Good(Call("flush", <<[kind |-> "flush", len |-> 0]>>, 0))
       /\ Good(Call("destroy", <<[kind |-> "destroy", len |-> 0]>>, 0))
  BY <1>15
<1>17. \/ \E n \in Lengths : c = Call("write_bytes", <<Bytes(n)>>, n)
       \/ c = Call("write_char", <<Char>>, 1)
       \/ \E n \in Lengths \ {0}, w \in Widths :
            c = Call("write_padded", PaddedField(n, w), FieldOf(n, w))
       \/ \E n \in Lengths \ {0, 1}, w \in Widths :
            c = Call("write_signed_padded", ZeroPaddedNegative(n, w), FieldOf(n, w))
       \/ c = Call("write_invalid", <<Latch>>, 0)
       \/ c = Call("flush", <<[kind |-> "flush", len |-> 0]>>, 0)
       \/ c = Call("destroy", <<[kind |-> "destroy", len |-> 0]>>, 0)
  BY DEF Calls
<1>18. Good(c)
  BY <1>9, <1>10, <1>11, <1>12, <1>14, <1>16, <1>17, Zenon
<1>. QED
  BY <1>18 DEF Good
-----------------------------------------------------------------------------
(* The primitive at the head of a call's program, and what is left of it.  *)
LEMMA HeadOfTodo ==
  ASSUME TypeOK, InvProgram, todo # <<>>
  PROVE  /\ Length \in Nat
         /\ Head(todo).kind \in Kinds
         /\ Head(todo).kind = "char" => Length = 1
         /\ Tail(todo) \in Seq(Primitive)
         /\ Len(todo) = 1 => Tail(todo) = <<>>
         /\ \A i \in DOMAIN Tail(todo) :
              Tail(todo)[i].kind = "char" => Tail(todo)[i].len = 1
<1>1. /\ todo \in Seq(Primitive)
      /\ Len(todo) \in Nat \ {0}
      /\ Head(todo) = todo[1]
  BY EmptySeq DEF TypeOK
<1>2. /\ Head(todo) \in Primitive
      /\ Tail(todo) \in Seq(Primitive)
      /\ Len(Tail(todo)) = Len(todo) - 1
      /\ \A i \in 1..Len(Tail(todo)) : Tail(todo)[i] = todo[i + 1]
  BY <1>1, HeadTailProperties
<1>3. Length \in Nat /\ Head(todo).kind \in Kinds
  BY <1>2 DEF Length, Primitive
<1>4. Head(todo).kind = "char" => Length = 1
  BY <1>1 DEF InvProgram, Length
<1>5. Len(todo) = 1 => Tail(todo) = <<>>
  <2>1. Tail(todo) # <<>> => Len(Tail(todo)) \in Nat \ {0}
    BY <1>2, EmptySeq
  <2>2. Len(todo) = 1 => Len(Tail(todo)) = 0
    BY <1>2
  <2>. QED
    BY <2>1, <2>2
<1>6. ASSUME NEW i \in DOMAIN Tail(todo), Tail(todo)[i].kind = "char"
      PROVE  Tail(todo)[i].len = 1
  <2>1. /\ i \in 1..Len(Tail(todo))
        /\ i + 1 \in DOMAIN todo
    BY <1>1, <1>2
  <2>. QED
    BY <1>2, <1>6, <2>1 DEF InvProgram
<1>. QED
  BY <1>2, <1>3, <1>4, <1>5, <1>6

(* The inductive invariant holds when a writer is initialised.             *)
LEMMA InitEstablishesIInv ==
  ASSUME Init
  PROVE  IInv
<1>. USE WriterAssumption DEF WriterAssumption, Init
<1>1. TypeOK
  <2>1. mode \in {"fd", "memory"} /\ capacity \in Nat
    OBVIOUS
  <2>2. fd \in BOOLEAN
    BY Zenon
  <2>3. buffer \in Seq(Nat) /\ output \in Seq(Nat) /\ data \in Seq(Nat) /\ raw \in Seq(Nat)
    OBVIOUS
  <2>4. todo \in Seq(Primitive)
    OBVIOUS
  <2>5. call \in [op : Ops, field : Nat, start : Nat]
    BY DEF Ops
  <2>6. /\ errorLatched \in BOOLEAN /\ result \in BOOLEAN
        /\ issued \in Nat /\ interrupts \in Nat
        /\ pc \in {"idle", "run", "flush", "direct"}
    OBVIOUS
  <2>. QED
    BY <2>1, <2>2, <2>3, <2>4, <2>5, <2>6, Zenon DEF TypeOK
<1>2. InvProgram
  BY DEF InvProgram
<1>3. InvRaw
  BY DEF InvRaw, InRaw
<1>4. InvBuffer
  <2>1. mode = "fd" <=> fd
    BY Zenon
  <2>2. Len(buffer) <= capacity /\ capacity < SizeModulus
    OBVIOUS
  <2>3. fd => capacity > 0
    BY Zenon
  <2>. QED
    BY <2>1, <2>2, <2>3 DEF InvBuffer
<1>5. InvWhere /\ OutputIsPrefix /\ MemoryIsPrefix /\ TrueMeansDelivered
  BY DEF InvWhere, OutputIsPrefix, MemoryIsPrefix, TrueMeansDelivered, Consecutive
<1>. QED
  BY <1>1, <1>2, <1>3, <1>4, <1>5 DEF IInv

(* A call that returns changes neither the buffer nor the output.          *)
LEMMA ReturnPreserves ==
  ASSUME IInv, Return
  PROVE  IInv'
<1>. USE DEF IInv, Return, writerVars, callVars, Runs, Length, Writes, NoRoom, Full, FlushDone, FitsEmpty, InRaw, Succeed, Fail, Detach, EnterRaw
<1>0. todo # <<>> => Length \in Nat /\ Tail(todo) \in Seq(Primitive)
  BY HeadOfTodo
<1>1. TypeOK'
  <2>1. buffer' \in Seq(Nat) /\ output' \in Seq(Nat) /\ data' \in Seq(Nat) /\ raw' \in Seq(Nat)
    BY <1>0, FreshIsConsecutive DEF TypeOK
  <2>2. todo' \in Seq(Primitive) /\ issued' \in Nat /\ capacity' \in Nat /\ interrupts' \in Nat
    BY <1>0 DEF TypeOK
  <2>3. fd' \in BOOLEAN /\ errorLatched' \in BOOLEAN /\ result' \in BOOLEAN
    BY Zenon DEF TypeOK
  <2>4. mode' \in {"fd", "memory"} /\ pc' \in {"idle", "run", "flush", "direct"}
        /\ call' \in [op : Ops, field : Nat, start : Nat]
    BY DEF TypeOK
  <2>. QED
    BY <2>1, <2>2, <2>3, <2>4 DEF TypeOK
<1>2. InvProgram'
  BY HeadOfTodo DEF TypeOK, InvProgram, InvRaw, InvWhere, InvBuffer
<1>3. InvRaw'
  BY HeadOfTodo, FreshIsConsecutive DEF TypeOK, InvProgram, InvRaw
<1>4. InvBuffer'
  BY HeadOfTodo DEF TypeOK, InvProgram, InvRaw, InvBuffer
<1>5. InvWhere'
  BY HeadOfTodo, FreshIsConsecutive DEF TypeOK, InvProgram, InvRaw, InvWhere, InvBuffer, Consecutive
<1>6. OutputIsPrefix'
  BY <1>0 DEF TypeOK, OutputIsPrefix, InvWhere, Consecutive
<1>7. MemoryIsPrefix'
  BY HeadOfTodo DEF TypeOK, InvProgram, InvRaw, InvBuffer, MemoryIsPrefix
<1>8. TrueMeansDelivered'
  BY HeadOfTodo DEF TypeOK, InvProgram, TrueMeansDelivered, InvWhere, InvBuffer
<1>. QED
  BY <1>1, <1>2, <1>3, <1>4, <1>5, <1>6, <1>7, <1>8 DEF IInv

(* A latched writer refuses, and keeps what it had.                        *)
LEMMA RejectPreserves ==
  ASSUME IInv, Reject
  PROVE  IInv'
<1>. USE DEF IInv, Reject, writerVars, callVars, Runs, Length, Writes, NoRoom, Full, FlushDone, FitsEmpty, InRaw, Succeed, Fail, Detach, EnterRaw
<1>0. todo # <<>> => Length \in Nat /\ Tail(todo) \in Seq(Primitive)
  BY HeadOfTodo
<1>1. TypeOK'
  <2>1. buffer' \in Seq(Nat) /\ output' \in Seq(Nat) /\ data' \in Seq(Nat) /\ raw' \in Seq(Nat)
    BY <1>0, FreshIsConsecutive DEF TypeOK
  <2>2. todo' \in Seq(Primitive) /\ issued' \in Nat /\ capacity' \in Nat /\ interrupts' \in Nat
    BY <1>0 DEF TypeOK
  <2>3. fd' \in BOOLEAN /\ errorLatched' \in BOOLEAN /\ result' \in BOOLEAN
    BY Zenon DEF TypeOK
  <2>4. mode' \in {"fd", "memory"} /\ pc' \in {"idle", "run", "flush", "direct"}
        /\ call' \in [op : Ops, field : Nat, start : Nat]
    BY DEF TypeOK
  <2>. QED
    BY <2>1, <2>2, <2>3, <2>4 DEF TypeOK
<1>2. InvProgram'
  BY HeadOfTodo DEF TypeOK, InvProgram, InvRaw, InvWhere, InvBuffer
<1>3. InvRaw'
  BY HeadOfTodo, FreshIsConsecutive DEF TypeOK, InvProgram, InvRaw
<1>4. InvBuffer'
  BY HeadOfTodo DEF TypeOK, InvProgram, InvRaw, InvBuffer
<1>5. InvWhere'
  BY HeadOfTodo, FreshIsConsecutive DEF TypeOK, InvProgram, InvRaw, InvWhere, InvBuffer, Consecutive
<1>6. OutputIsPrefix'
  BY <1>0 DEF TypeOK, OutputIsPrefix, InvWhere, Consecutive
<1>7. MemoryIsPrefix'
  BY HeadOfTodo DEF TypeOK, InvProgram, InvRaw, InvBuffer, MemoryIsPrefix
<1>8. TrueMeansDelivered'
  BY HeadOfTodo DEF TypeOK, InvProgram, TrueMeansDelivered, InvWhere, InvBuffer
<1>. QED
  BY <1>1, <1>2, <1>3, <1>4, <1>5, <1>6, <1>7, <1>8 DEF IInv

(* An argument that is refused latches the error.                          *)
LEMMA RefuseArgumentPreserves ==
  ASSUME IInv, RefuseArgument
  PROVE  IInv'
<1>. USE DEF IInv, RefuseArgument, writerVars, callVars, Runs, Length, Writes, NoRoom, Full, FlushDone, FitsEmpty, InRaw, Succeed, Fail, Detach, EnterRaw
<1>0. todo # <<>> => Length \in Nat /\ Tail(todo) \in Seq(Primitive)
  BY HeadOfTodo
<1>1. TypeOK'
  <2>1. buffer' \in Seq(Nat) /\ output' \in Seq(Nat) /\ data' \in Seq(Nat) /\ raw' \in Seq(Nat)
    BY <1>0, FreshIsConsecutive DEF TypeOK
  <2>2. todo' \in Seq(Primitive) /\ issued' \in Nat /\ capacity' \in Nat /\ interrupts' \in Nat
    BY <1>0 DEF TypeOK
  <2>3. fd' \in BOOLEAN /\ errorLatched' \in BOOLEAN /\ result' \in BOOLEAN
    BY Zenon DEF TypeOK
  <2>4. mode' \in {"fd", "memory"} /\ pc' \in {"idle", "run", "flush", "direct"}
        /\ call' \in [op : Ops, field : Nat, start : Nat]
    BY DEF TypeOK
  <2>. QED
    BY <2>1, <2>2, <2>3, <2>4 DEF TypeOK
<1>2. InvProgram'
  BY HeadOfTodo DEF TypeOK, InvProgram, InvRaw, InvWhere, InvBuffer
<1>3. InvRaw'
  BY HeadOfTodo, FreshIsConsecutive DEF TypeOK, InvProgram, InvRaw
<1>4. InvBuffer'
  BY HeadOfTodo DEF TypeOK, InvProgram, InvRaw, InvBuffer
<1>5. InvWhere'
  BY HeadOfTodo, FreshIsConsecutive DEF TypeOK, InvProgram, InvRaw, InvWhere, InvBuffer, Consecutive
<1>6. OutputIsPrefix'
  BY <1>0 DEF TypeOK, OutputIsPrefix, InvWhere, Consecutive
<1>7. MemoryIsPrefix'
  BY HeadOfTodo DEF TypeOK, InvProgram, InvRaw, InvBuffer, MemoryIsPrefix
<1>8. TrueMeansDelivered'
  BY HeadOfTodo DEF TypeOK, InvProgram, TrueMeansDelivered, InvWhere, InvBuffer
<1>. QED
  BY <1>1, <1>2, <1>3, <1>4, <1>5, <1>6, <1>7, <1>8 DEF IInv

(* Bytes that fit are appended to the buffer.                              *)
LEMMA BufferPreserves ==
  ASSUME IInv, Buffer
  PROVE  IInv'
<1>. USE DEF IInv, Buffer, writerVars, callVars, Runs, Length, Writes, NoRoom, Full, FlushDone, FitsEmpty, InRaw, Succeed, Fail, Detach, EnterRaw
<1>0. todo # <<>> => Length \in Nat /\ Tail(todo) \in Seq(Primitive)
  BY HeadOfTodo
<1>9. /\ todo # <<>> /\ Length \in Nat /\ buffer \in Seq(Nat) /\ pc = "run"
      /\ Fresh(Length) \in Seq(Nat)
      /\ Len(Fresh(Length)) = Length
      /\ Consecutive(Fresh(Length), issued)
  BY <1>0, FreshIsConsecutive DEF TypeOK
<1>10. buffer' \in Seq(Nat) /\ Len(buffer') = Len(buffer) + Length
  <2>. DEFINE t == Fresh(Length)
  <2>1. t \in Seq(Nat) /\ Len(t) = Length /\ buffer' = buffer \o t
    BY <1>9
  <2>. HIDE DEF t
  <2>. QED
    BY <1>9, <2>1, ConcatProperties
<1>1. TypeOK'
  <2>1. buffer' \in Seq(Nat) /\ output' \in Seq(Nat) /\ data' \in Seq(Nat) /\ raw' \in Seq(Nat)
    BY <1>10 DEF TypeOK
  <2>2. todo' \in Seq(Primitive) /\ issued' \in Nat /\ capacity' \in Nat /\ interrupts' \in Nat
    BY <1>0 DEF TypeOK
  <2>3. fd' \in BOOLEAN /\ errorLatched' \in BOOLEAN /\ result' \in BOOLEAN
    BY Zenon DEF TypeOK
  <2>4. mode' \in {"fd", "memory"} /\ pc' \in {"idle", "run", "flush", "direct"}
        /\ call' \in [op : Ops, field : Nat, start : Nat]
    BY DEF TypeOK
  <2>. QED
    BY <2>1, <2>2, <2>3, <2>4 DEF TypeOK
<1>2. InvProgram'
  BY HeadOfTodo DEF TypeOK, InvProgram, InvRaw, InvWhere, InvBuffer
<1>3. InvRaw'
  BY HeadOfTodo, FreshIsConsecutive DEF TypeOK, InvProgram, InvRaw
<1>4. InvBuffer'
  <2>1. Length <= capacity - Len(buffer)
    <3>1. CASE Head(todo).kind = "char"
      BY <1>9, <3>1, HeadOfTodo DEF TypeOK, InvBuffer
    <3>2. CASE Head(todo).kind # "char"
      <4>1. Remaining = capacity - Len(buffer)
        BY WriterAssumption, RemainingIsDifference DEF WriterAssumption
      <4>2. ~(Length > capacity - Len(buffer))
        BY <3>2, <4>1
      <4>3. Len(buffer) \in Nat /\ capacity \in Nat
        BY DEF TypeOK
      <4>. QED
        BY <1>9, <4>2, <4>3
    <3>. QED
      BY <3>1, <3>2
  <2>2. Len(buffer) + Length <= capacity
    BY <1>9, <2>1 DEF TypeOK
  <2>. QED
    BY <1>10, <2>2 DEF InvBuffer
<1>5. InvWhere'
  <2>. SUFFICES ASSUME mode = "fd"
                PROVE  /\ Consecutive(buffer', Len(output))
                       /\ Len(output) + Len(buffer') = issued + Length
    BY <1>9 DEF InvWhere, Consecutive
  <2>1. Consecutive(buffer, Len(output)) /\ Len(output) + Len(buffer) = issued
    BY <1>9 DEF InvWhere
  <2>2. Consecutive(buffer', Len(output))
    BY <1>9, <2>1, ConsecutiveConcat DEF TypeOK
  <2>. QED
    <3>1. Len(output) \in Nat /\ Len(buffer) \in Nat
      BY DEF TypeOK
    <3>2. Length \in Nat
      BY <1>9
    <3>. HIDE DEF IInv, Buffer, Length
    <3>3. Len(output) + Len(buffer') = issued + Length
      BY <1>10, <2>1, <3>1, <3>2
    <3>. QED
      BY <2>2, <3>3
<1>6. OutputIsPrefix'
  BY <1>0 DEF TypeOK, OutputIsPrefix, InvWhere, Consecutive
<1>7. MemoryIsPrefix'
  <2>. SUFFICES ASSUME mode = "memory", fd = FALSE, capacity > 0
                PROVE  Consecutive(buffer', 0) /\ Len(buffer') = issued + Length
    BY DEF MemoryIsPrefix, Consecutive
  <2>1. Consecutive(buffer, 0) /\ Len(buffer) = issued
    BY DEF MemoryIsPrefix
  <2>2. Consecutive(buffer', 0)
    BY <1>9, <2>1, ConsecutiveConcat DEF TypeOK
  <2>. QED
    BY <1>9, <1>10, <2>1, <2>2
<1>8. TrueMeansDelivered'
  BY HeadOfTodo DEF TypeOK, InvProgram, TrueMeansDelivered, InvWhere, InvBuffer
<1>. QED
  BY <1>1, <1>2, <1>3, <1>4, <1>5, <1>6, <1>7, <1>8 DEF IInv

(* Bytes that do not fit a buffer without descriptor latch the error.      *)
LEMMA OverflowPreserves ==
  ASSUME IInv, Overflow
  PROVE  IInv'
<1>. USE DEF IInv, Overflow, writerVars, callVars, Runs, Length, Writes, NoRoom, Full, FlushDone, FitsEmpty, InRaw, Succeed, Fail, Detach, EnterRaw
<1>0. todo # <<>> => Length \in Nat /\ Tail(todo) \in Seq(Primitive)
  BY HeadOfTodo
<1>1. TypeOK'
  <2>1. buffer' \in Seq(Nat) /\ output' \in Seq(Nat) /\ data' \in Seq(Nat) /\ raw' \in Seq(Nat)
    BY <1>0, FreshIsConsecutive DEF TypeOK
  <2>2. todo' \in Seq(Primitive) /\ issued' \in Nat /\ capacity' \in Nat /\ interrupts' \in Nat
    BY <1>0 DEF TypeOK
  <2>3. fd' \in BOOLEAN /\ errorLatched' \in BOOLEAN /\ result' \in BOOLEAN
    BY Zenon DEF TypeOK
  <2>4. mode' \in {"fd", "memory"} /\ pc' \in {"idle", "run", "flush", "direct"}
        /\ call' \in [op : Ops, field : Nat, start : Nat]
    BY DEF TypeOK
  <2>. QED
    BY <2>1, <2>2, <2>3, <2>4 DEF TypeOK
<1>2. InvProgram'
  BY HeadOfTodo DEF TypeOK, InvProgram, InvRaw, InvWhere, InvBuffer
<1>3. InvRaw'
  BY HeadOfTodo, FreshIsConsecutive DEF TypeOK, InvProgram, InvRaw
<1>4. InvBuffer'
  BY HeadOfTodo DEF TypeOK, InvProgram, InvRaw, InvBuffer
<1>5. InvWhere'
  BY HeadOfTodo, FreshIsConsecutive DEF TypeOK, InvProgram, InvRaw, InvWhere, InvBuffer, Consecutive
<1>6. OutputIsPrefix'
  BY <1>0 DEF TypeOK, OutputIsPrefix, InvWhere, Consecutive
<1>7. MemoryIsPrefix'
  BY HeadOfTodo DEF TypeOK, InvProgram, InvRaw, InvBuffer, MemoryIsPrefix
<1>8. TrueMeansDelivered'
  BY HeadOfTodo DEF TypeOK, InvProgram, TrueMeansDelivered, InvWhere, InvBuffer
<1>. QED
  BY <1>1, <1>2, <1>3, <1>4, <1>5, <1>6, <1>7, <1>8 DEF IInv

(* Bytes that do not fit first flush what was buffered before them.        *)
LEMMA SpillPreserves ==
  ASSUME IInv, Spill
  PROVE  IInv'
<1>. USE DEF IInv, Spill, writerVars, callVars, Runs, Length, Writes, NoRoom, Full, FlushDone, FitsEmpty, InRaw, Succeed, Fail, Detach, EnterRaw
<1>0. todo # <<>> => Length \in Nat /\ Tail(todo) \in Seq(Primitive)
  BY HeadOfTodo
<1>1. TypeOK'
  <2>1. buffer' \in Seq(Nat) /\ output' \in Seq(Nat) /\ data' \in Seq(Nat) /\ raw' \in Seq(Nat)
    BY <1>0, FreshIsConsecutive DEF TypeOK
  <2>2. todo' \in Seq(Primitive) /\ issued' \in Nat /\ capacity' \in Nat /\ interrupts' \in Nat
    BY <1>0 DEF TypeOK
  <2>3. fd' \in BOOLEAN /\ errorLatched' \in BOOLEAN /\ result' \in BOOLEAN
    BY Zenon DEF TypeOK
  <2>4. mode' \in {"fd", "memory"} /\ pc' \in {"idle", "run", "flush", "direct"}
        /\ call' \in [op : Ops, field : Nat, start : Nat]
    BY DEF TypeOK
  <2>. QED
    BY <2>1, <2>2, <2>3, <2>4 DEF TypeOK
<1>2. InvProgram'
  BY HeadOfTodo DEF TypeOK, InvProgram, InvRaw, InvWhere, InvBuffer
<1>3. InvRaw'
  BY HeadOfTodo, FreshIsConsecutive DEF TypeOK, InvProgram, InvRaw
<1>4. InvBuffer'
  BY HeadOfTodo DEF TypeOK, InvProgram, InvRaw, InvBuffer
<1>5. InvWhere'
  <2>1. /\ Fresh(Length) \in Seq(Nat)
        /\ Len(Fresh(Length)) = Length
        /\ Consecutive(Fresh(Length), issued)
    BY <1>0, FreshIsConsecutive DEF TypeOK
  <2>2. mode = "fd" /\ pc = "run"
    BY DEF InvBuffer
  <2>3. Consecutive(buffer, Len(output)) /\ Len(output) + Len(buffer) = issued
    BY <2>2 DEF InvWhere
  <2>4. pc' = "flush" /\ raw' = buffer /\ data' = Fresh(Length) /\ issued' = issued + Length
    OBVIOUS
  <2>5. Len(output) + Len(buffer) + Length = issued + Length
    BY <2>3
  <2>. QED
    BY <2>1, <2>3, <2>4, <2>5 DEF InvWhere, Consecutive
<1>6. OutputIsPrefix'
  BY <1>0 DEF TypeOK, OutputIsPrefix, InvWhere, Consecutive
<1>7. MemoryIsPrefix'
  BY HeadOfTodo DEF TypeOK, InvProgram, InvRaw, InvBuffer, MemoryIsPrefix
<1>8. TrueMeansDelivered'
  BY HeadOfTodo DEF TypeOK, InvProgram, TrueMeansDelivered, InvWhere, InvBuffer
<1>. QED
  BY <1>1, <1>2, <1>3, <1>4, <1>5, <1>6, <1>7, <1>8 DEF IInv

(* A flush starts to write the whole buffer.                               *)
LEMMA FlushPreserves ==
  ASSUME IInv, Flush
  PROVE  IInv'
<1>. USE DEF IInv, Flush, writerVars, callVars, Runs, Length, Writes, NoRoom, Full, FlushDone, FitsEmpty, InRaw, Succeed, Fail, Detach, EnterRaw
<1>0. todo # <<>> => Length \in Nat /\ Tail(todo) \in Seq(Primitive)
  BY HeadOfTodo
<1>1. TypeOK'
  <2>1. buffer' \in Seq(Nat) /\ output' \in Seq(Nat) /\ data' \in Seq(Nat) /\ raw' \in Seq(Nat)
    BY <1>0, FreshIsConsecutive DEF TypeOK
  <2>2. todo' \in Seq(Primitive) /\ issued' \in Nat /\ capacity' \in Nat /\ interrupts' \in Nat
    BY <1>0 DEF TypeOK
  <2>3. fd' \in BOOLEAN /\ errorLatched' \in BOOLEAN /\ result' \in BOOLEAN
    BY Zenon DEF TypeOK
  <2>4. mode' \in {"fd", "memory"} /\ pc' \in {"idle", "run", "flush", "direct"}
        /\ call' \in [op : Ops, field : Nat, start : Nat]
    BY DEF TypeOK
  <2>. QED
    BY <2>1, <2>2, <2>3, <2>4 DEF TypeOK
<1>2. InvProgram'
  BY HeadOfTodo DEF TypeOK, InvProgram, InvRaw, InvWhere, InvBuffer
<1>3. InvRaw'
  BY HeadOfTodo, FreshIsConsecutive DEF TypeOK, InvProgram, InvRaw
<1>4. InvBuffer'
  BY HeadOfTodo DEF TypeOK, InvProgram, InvRaw, InvBuffer
<1>5. InvWhere'
  <2>1. mode = "fd" /\ pc = "run" /\ data = <<>>
    BY DEF InvBuffer, InvRaw
  <2>2. Consecutive(buffer, Len(output)) /\ Len(output) + Len(buffer) = issued
    BY <2>1 DEF InvWhere
  <2>3. pc' = "flush" /\ raw' = buffer /\ data' = <<>>
    BY <2>1
  <2>4. Len(output) + Len(buffer) + 0 = issued
    BY <2>2 DEF TypeOK
  <2>. QED
    BY <2>2, <2>3, <2>4, ConsecutiveEmpty DEF InvWhere, Consecutive
<1>6. OutputIsPrefix'
  BY <1>0 DEF TypeOK, OutputIsPrefix, InvWhere, Consecutive
<1>7. MemoryIsPrefix'
  BY HeadOfTodo DEF TypeOK, InvProgram, InvRaw, InvBuffer, MemoryIsPrefix
<1>8. TrueMeansDelivered'
  BY HeadOfTodo DEF TypeOK, InvProgram, TrueMeansDelivered, InvWhere, InvBuffer
<1>. QED
  BY <1>1, <1>2, <1>3, <1>4, <1>5, <1>6, <1>7, <1>8 DEF IInv

(* Without a descriptor a flush does nothing.                              *)
LEMMA FlushMemoryPreserves ==
  ASSUME IInv, FlushMemory
  PROVE  IInv'
<1>. USE DEF IInv, FlushMemory, writerVars, callVars, Runs, Length, Writes, NoRoom, Full, FlushDone, FitsEmpty, InRaw, Succeed, Fail, Detach, EnterRaw
<1>0. todo # <<>> => Length \in Nat /\ Tail(todo) \in Seq(Primitive)
  BY HeadOfTodo
<1>1. TypeOK'
  <2>1. buffer' \in Seq(Nat) /\ output' \in Seq(Nat) /\ data' \in Seq(Nat) /\ raw' \in Seq(Nat)
    BY <1>0, FreshIsConsecutive DEF TypeOK
  <2>2. todo' \in Seq(Primitive) /\ issued' \in Nat /\ capacity' \in Nat /\ interrupts' \in Nat
    BY <1>0 DEF TypeOK
  <2>3. fd' \in BOOLEAN /\ errorLatched' \in BOOLEAN /\ result' \in BOOLEAN
    BY Zenon DEF TypeOK
  <2>4. mode' \in {"fd", "memory"} /\ pc' \in {"idle", "run", "flush", "direct"}
        /\ call' \in [op : Ops, field : Nat, start : Nat]
    BY DEF TypeOK
  <2>. QED
    BY <2>1, <2>2, <2>3, <2>4 DEF TypeOK
<1>2. InvProgram'
  BY HeadOfTodo DEF TypeOK, InvProgram, InvRaw, InvWhere, InvBuffer
<1>3. InvRaw'
  BY HeadOfTodo, FreshIsConsecutive DEF TypeOK, InvProgram, InvRaw
<1>4. InvBuffer'
  BY HeadOfTodo DEF TypeOK, InvProgram, InvRaw, InvBuffer
<1>5. InvWhere'
  BY HeadOfTodo, FreshIsConsecutive DEF TypeOK, InvProgram, InvRaw, InvWhere, InvBuffer, Consecutive
<1>6. OutputIsPrefix'
  BY <1>0 DEF TypeOK, OutputIsPrefix, InvWhere, Consecutive
<1>7. MemoryIsPrefix'
  BY HeadOfTodo DEF TypeOK, InvProgram, InvRaw, InvBuffer, MemoryIsPrefix
<1>8. TrueMeansDelivered'
  BY HeadOfTodo DEF TypeOK, InvProgram, TrueMeansDelivered, InvWhere, InvBuffer
<1>. QED
  BY <1>1, <1>2, <1>3, <1>4, <1>5, <1>6, <1>7, <1>8 DEF IInv

(* Without a descriptor destroy forgets the buffer.                        *)
LEMMA DestroyMemoryPreserves ==
  ASSUME IInv, DestroyMemory
  PROVE  IInv'
<1>. USE DEF IInv, DestroyMemory, writerVars, callVars, Runs, Length, Writes, NoRoom, Full, FlushDone, FitsEmpty, InRaw, Succeed, Fail, Detach, EnterRaw
<1>0. todo # <<>> => Length \in Nat /\ Tail(todo) \in Seq(Primitive)
  BY HeadOfTodo
<1>1. TypeOK'
  <2>1. buffer' \in Seq(Nat) /\ output' \in Seq(Nat) /\ data' \in Seq(Nat) /\ raw' \in Seq(Nat)
    BY <1>0, FreshIsConsecutive DEF TypeOK
  <2>2. todo' \in Seq(Primitive) /\ issued' \in Nat /\ capacity' \in Nat /\ interrupts' \in Nat
    BY <1>0 DEF TypeOK
  <2>3. fd' \in BOOLEAN /\ errorLatched' \in BOOLEAN /\ result' \in BOOLEAN
    BY Zenon DEF TypeOK
  <2>4. mode' \in {"fd", "memory"} /\ pc' \in {"idle", "run", "flush", "direct"}
        /\ call' \in [op : Ops, field : Nat, start : Nat]
    BY DEF TypeOK
  <2>. QED
    BY <2>1, <2>2, <2>3, <2>4 DEF TypeOK
<1>2. InvProgram'
  BY HeadOfTodo DEF TypeOK, InvProgram, InvRaw, InvWhere, InvBuffer
<1>3. InvRaw'
  BY HeadOfTodo, FreshIsConsecutive DEF TypeOK, InvProgram, InvRaw
<1>4. InvBuffer'
  <2>1. capacity' = 0 /\ buffer' = <<>> /\ mode' = mode
    OBVIOUS
  <2>2. 0 <= 0 /\ 0 < SizeModulus
    BY WriterAssumption DEF WriterAssumption
  <2>3. ~fd'
    BY Zenon
  <2>. QED
    BY <2>1, <2>2, <2>3, ConsecutiveEmpty DEF InvBuffer
<1>5. InvWhere'
  BY HeadOfTodo, FreshIsConsecutive DEF TypeOK, InvProgram, InvRaw, InvWhere, InvBuffer, Consecutive
<1>6. OutputIsPrefix'
  BY <1>0 DEF TypeOK, OutputIsPrefix, InvWhere, Consecutive
<1>7. MemoryIsPrefix'
  BY HeadOfTodo DEF TypeOK, InvProgram, InvRaw, InvBuffer, MemoryIsPrefix
<1>8. TrueMeansDelivered'
  BY HeadOfTodo DEF TypeOK, InvProgram, TrueMeansDelivered, InvWhere, InvBuffer
<1>. QED
  BY <1>1, <1>2, <1>3, <1>4, <1>5, <1>6, <1>7, <1>8 DEF IInv

(* A latched writer is destroyed without a flush.                          *)
LEMMA DestroyLatchedPreserves ==
  ASSUME IInv, DestroyLatched
  PROVE  IInv'
<1>. USE DEF IInv, DestroyLatched, writerVars, callVars, Runs, Length, Writes, NoRoom, Full, FlushDone, FitsEmpty, InRaw, Succeed, Fail, Detach, EnterRaw
<1>0. todo # <<>> => Length \in Nat /\ Tail(todo) \in Seq(Primitive)
  BY HeadOfTodo
<1>1. TypeOK'
  <2>1. buffer' \in Seq(Nat) /\ output' \in Seq(Nat) /\ data' \in Seq(Nat) /\ raw' \in Seq(Nat)
    BY <1>0, FreshIsConsecutive DEF TypeOK
  <2>2. todo' \in Seq(Primitive) /\ issued' \in Nat /\ capacity' \in Nat /\ interrupts' \in Nat
    BY <1>0 DEF TypeOK
  <2>3. fd' \in BOOLEAN /\ errorLatched' \in BOOLEAN /\ result' \in BOOLEAN
    BY Zenon DEF TypeOK
  <2>4. mode' \in {"fd", "memory"} /\ pc' \in {"idle", "run", "flush", "direct"}
        /\ call' \in [op : Ops, field : Nat, start : Nat]
    BY DEF TypeOK
  <2>. QED
    BY <2>1, <2>2, <2>3, <2>4 DEF TypeOK
<1>2. InvProgram'
  BY HeadOfTodo DEF TypeOK, InvProgram, InvRaw, InvWhere, InvBuffer
<1>3. InvRaw'
  BY HeadOfTodo, FreshIsConsecutive DEF TypeOK, InvProgram, InvRaw
<1>4. InvBuffer'
  <2>1. capacity' = 0 /\ buffer' = <<>> /\ mode' = mode
    OBVIOUS
  <2>2. 0 <= 0 /\ 0 < SizeModulus
    BY WriterAssumption DEF WriterAssumption
  <2>3. ~fd'
    BY Zenon
  <2>. QED
    BY <2>1, <2>2, <2>3, ConsecutiveEmpty DEF InvBuffer
<1>5. InvWhere'
  BY HeadOfTodo, FreshIsConsecutive DEF TypeOK, InvProgram, InvRaw, InvWhere, InvBuffer, Consecutive
<1>6. OutputIsPrefix'
  BY <1>0 DEF TypeOK, OutputIsPrefix, InvWhere, Consecutive
<1>7. MemoryIsPrefix'
  BY HeadOfTodo DEF TypeOK, InvProgram, InvRaw, InvBuffer, MemoryIsPrefix
<1>8. TrueMeansDelivered'
  BY HeadOfTodo DEF TypeOK, InvProgram, TrueMeansDelivered, InvWhere, InvBuffer
<1>. QED
  BY <1>1, <1>2, <1>3, <1>4, <1>5, <1>6, <1>7, <1>8 DEF IInv

(* An interrupted write takes nothing.                                     *)
LEMMA WriteInterruptedPreserves ==
  ASSUME IInv, WriteInterrupted
  PROVE  IInv'
<1>. USE DEF IInv, WriteInterrupted, writerVars, callVars, Runs, Length, Writes, NoRoom, Full, FlushDone, FitsEmpty, InRaw, Succeed, Fail, Detach, EnterRaw
<1>0. todo # <<>> => Length \in Nat /\ Tail(todo) \in Seq(Primitive)
  BY HeadOfTodo
<1>1. TypeOK'
  <2>1. buffer' \in Seq(Nat) /\ output' \in Seq(Nat) /\ data' \in Seq(Nat) /\ raw' \in Seq(Nat)
    BY <1>0, FreshIsConsecutive DEF TypeOK
  <2>2. todo' \in Seq(Primitive) /\ issued' \in Nat /\ capacity' \in Nat /\ interrupts' \in Nat
    BY <1>0 DEF TypeOK
  <2>3. fd' \in BOOLEAN /\ errorLatched' \in BOOLEAN /\ result' \in BOOLEAN
    BY Zenon DEF TypeOK
  <2>4. mode' \in {"fd", "memory"} /\ pc' \in {"idle", "run", "flush", "direct"}
        /\ call' \in [op : Ops, field : Nat, start : Nat]
    BY DEF TypeOK
  <2>. QED
    BY <2>1, <2>2, <2>3, <2>4 DEF TypeOK
<1>2. InvProgram'
  BY HeadOfTodo DEF TypeOK, InvProgram, InvRaw, InvWhere, InvBuffer
<1>3. InvRaw'
  BY HeadOfTodo, FreshIsConsecutive DEF TypeOK, InvProgram, InvRaw
<1>4. InvBuffer'
  BY HeadOfTodo DEF TypeOK, InvProgram, InvRaw, InvBuffer
<1>5. InvWhere'
  BY HeadOfTodo, FreshIsConsecutive DEF TypeOK, InvProgram, InvRaw, InvWhere, InvBuffer, Consecutive
<1>6. OutputIsPrefix'
  BY <1>0 DEF TypeOK, OutputIsPrefix, InvWhere, Consecutive
<1>7. MemoryIsPrefix'
  BY HeadOfTodo DEF TypeOK, InvProgram, InvRaw, InvBuffer, MemoryIsPrefix
<1>8. TrueMeansDelivered'
  BY HeadOfTodo DEF TypeOK, InvProgram, TrueMeansDelivered, InvWhere, InvBuffer
<1>. QED
  BY <1>1, <1>2, <1>3, <1>4, <1>5, <1>6, <1>7, <1>8 DEF IInv

(* A refused write latches the error.                                      *)
LEMMA WriteRefusedPreserves ==
  ASSUME IInv, WriteRefused
  PROVE  IInv'
<1>. USE DEF IInv, WriteRefused, writerVars, callVars, Runs, Length, Writes, NoRoom, Full, FlushDone, FitsEmpty, InRaw, Succeed, Fail, Detach, EnterRaw
<1>0. todo # <<>> => Length \in Nat /\ Tail(todo) \in Seq(Primitive)
  BY HeadOfTodo
<1>1. TypeOK'
  <2>1. buffer' \in Seq(Nat) /\ output' \in Seq(Nat) /\ data' \in Seq(Nat) /\ raw' \in Seq(Nat)
    BY ConsecutiveEmpty DEF TypeOK
  <2>2. todo' \in Seq(Primitive) /\ issued' \in Nat /\ capacity' \in Nat /\ interrupts' \in Nat
    BY EmptySeq DEF TypeOK
  <2>3. fd' \in BOOLEAN /\ errorLatched' \in BOOLEAN /\ result' \in BOOLEAN
    BY Zenon DEF TypeOK
  <2>4. mode' \in {"fd", "memory"} /\ pc' \in {"idle", "run", "flush", "direct"}
        /\ call' \in [op : Ops, field : Nat, start : Nat]
    BY DEF TypeOK
  <2>. QED
    BY <2>1, <2>2, <2>3, <2>4 DEF TypeOK
<1>2. InvProgram'
  BY HeadOfTodo DEF TypeOK, InvProgram, InvRaw, InvWhere, InvBuffer
<1>3. InvRaw'
  BY HeadOfTodo, FreshIsConsecutive DEF TypeOK, InvProgram, InvRaw
<1>4. InvBuffer'
  <2>1. CASE Head(todo).kind = "destroy"
    <3>1. capacity' = 0 /\ buffer' = <<>> /\ mode' = mode
      BY <2>1
    <3>2. 0 <= 0 /\ 0 < SizeModulus
      BY WriterAssumption DEF WriterAssumption
    <3>3. ~fd'
      BY <2>1, Zenon
    <3>. QED
      BY <3>1, <3>2, <3>3, ConsecutiveEmpty DEF InvBuffer
  <2>2. CASE Head(todo).kind # "destroy"
    BY <2>2 DEF InvBuffer
  <2>. QED
    BY <2>1, <2>2
<1>5. InvWhere'
  BY HeadOfTodo, FreshIsConsecutive DEF TypeOK, InvProgram, InvRaw, InvWhere, InvBuffer, Consecutive
<1>6. OutputIsPrefix'
  BY <1>0 DEF TypeOK, OutputIsPrefix, InvWhere, Consecutive
<1>7. MemoryIsPrefix'
  BY HeadOfTodo DEF TypeOK, InvProgram, InvRaw, InvBuffer, MemoryIsPrefix
<1>8. TrueMeansDelivered'
  BY HeadOfTodo DEF TypeOK, InvProgram, TrueMeansDelivered, InvWhere, InvBuffer
<1>. QED
  BY <1>1, <1>2, <1>3, <1>4, <1>5, <1>6, <1>7, <1>8 DEF IInv

(* After the flush the bytes are buffered, if the buffer holds them.       *)
LEMMA ThenBufferPreserves ==
  ASSUME IInv, ThenBuffer
  PROVE  IInv'
<1>. USE DEF IInv, ThenBuffer, writerVars, callVars, Runs, Length, Writes, NoRoom, Full, FlushDone, FitsEmpty, InRaw, Succeed, Fail, Detach, EnterRaw
<1>0. todo # <<>> => Length \in Nat /\ Tail(todo) \in Seq(Primitive)
  BY HeadOfTodo
<1>1. TypeOK'
  <2>1. buffer' \in Seq(Nat) /\ output' \in Seq(Nat) /\ data' \in Seq(Nat) /\ raw' \in Seq(Nat)
    BY <1>0, FreshIsConsecutive DEF TypeOK
  <2>2. todo' \in Seq(Primitive) /\ issued' \in Nat /\ capacity' \in Nat /\ interrupts' \in Nat
    BY <1>0 DEF TypeOK, InvRaw
  <2>3. fd' \in BOOLEAN /\ errorLatched' \in BOOLEAN /\ result' \in BOOLEAN
    BY Zenon DEF TypeOK
  <2>4. mode' \in {"fd", "memory"} /\ pc' \in {"idle", "run", "flush", "direct"}
        /\ call' \in [op : Ops, field : Nat, start : Nat]
    BY DEF TypeOK
  <2>. QED
    BY <2>1, <2>2, <2>3, <2>4 DEF TypeOK
<1>2. InvProgram'
  BY HeadOfTodo DEF TypeOK, InvProgram, InvRaw, InvWhere, InvBuffer
<1>3. InvRaw'
  BY HeadOfTodo, FreshIsConsecutive DEF TypeOK, InvProgram, InvRaw
<1>4. InvBuffer'
  BY HeadOfTodo DEF TypeOK, InvProgram, InvRaw, InvBuffer
<1>5. InvWhere'
  BY HeadOfTodo, FreshIsConsecutive DEF TypeOK, InvProgram, InvRaw, InvWhere, InvBuffer, Consecutive
<1>6. OutputIsPrefix'
  BY <1>0 DEF TypeOK, OutputIsPrefix, InvWhere, Consecutive
<1>7. MemoryIsPrefix'
  BY HeadOfTodo DEF TypeOK, InvProgram, InvRaw, InvBuffer, MemoryIsPrefix
<1>8. TrueMeansDelivered'
  BY HeadOfTodo DEF TypeOK, InvProgram, TrueMeansDelivered, InvWhere, InvBuffer
<1>. QED
  BY <1>1, <1>2, <1>3, <1>4, <1>5, <1>6, <1>7, <1>8 DEF IInv

(* After the flush the bytes are written directly, if it does not.         *)
LEMMA ThenDirectPreserves ==
  ASSUME IInv, ThenDirect
  PROVE  IInv'
<1>. USE DEF IInv, ThenDirect, writerVars, callVars, Runs, Length, Writes, NoRoom, Full, FlushDone, FitsEmpty, InRaw, Succeed, Fail, Detach, EnterRaw
<1>0. todo # <<>> => Length \in Nat /\ Tail(todo) \in Seq(Primitive)
  BY HeadOfTodo
<1>1. TypeOK'
  <2>1. buffer' \in Seq(Nat) /\ output' \in Seq(Nat) /\ data' \in Seq(Nat) /\ raw' \in Seq(Nat)
    BY <1>0, FreshIsConsecutive DEF TypeOK
  <2>2. todo' \in Seq(Primitive) /\ issued' \in Nat /\ capacity' \in Nat /\ interrupts' \in Nat
    BY <1>0 DEF TypeOK
  <2>3. fd' \in BOOLEAN /\ errorLatched' \in BOOLEAN /\ result' \in BOOLEAN
    BY Zenon DEF TypeOK
  <2>4. mode' \in {"fd", "memory"} /\ pc' \in {"idle", "run", "flush", "direct"}
        /\ call' \in [op : Ops, field : Nat, start : Nat]
    BY DEF TypeOK
  <2>. QED
    BY <2>1, <2>2, <2>3, <2>4 DEF TypeOK
<1>2. InvProgram'
  BY HeadOfTodo DEF TypeOK, InvProgram, InvRaw, InvWhere, InvBuffer
<1>3. InvRaw'
  BY HeadOfTodo, FreshIsConsecutive DEF TypeOK, InvProgram, InvRaw
<1>4. InvBuffer'
  BY HeadOfTodo DEF TypeOK, InvProgram, InvRaw, InvBuffer
<1>5. InvWhere'
  BY HeadOfTodo, FreshIsConsecutive DEF TypeOK, InvProgram, InvRaw, InvWhere, InvBuffer, Consecutive
<1>6. OutputIsPrefix'
  BY <1>0 DEF TypeOK, OutputIsPrefix, InvWhere, Consecutive
<1>7. MemoryIsPrefix'
  BY HeadOfTodo DEF TypeOK, InvProgram, InvRaw, InvBuffer, MemoryIsPrefix
<1>8. TrueMeansDelivered'
  BY HeadOfTodo DEF TypeOK, InvProgram, TrueMeansDelivered, InvWhere, InvBuffer
<1>. QED
  BY <1>1, <1>2, <1>3, <1>4, <1>5, <1>6, <1>7, <1>8 DEF IInv

(* A flush that has written everything empties the buffer.                 *)
LEMMA ThenFlushedPreserves ==
  ASSUME IInv, ThenFlushed
  PROVE  IInv'
<1>. USE DEF IInv, ThenFlushed, writerVars, callVars, Runs, Length, Writes, NoRoom, Full, FlushDone, FitsEmpty, InRaw, Succeed, Fail, Detach, EnterRaw
<1>0. todo # <<>> => Length \in Nat /\ Tail(todo) \in Seq(Primitive)
  BY HeadOfTodo
<1>1. TypeOK'
  <2>1. buffer' \in Seq(Nat) /\ output' \in Seq(Nat) /\ data' \in Seq(Nat) /\ raw' \in Seq(Nat)
    BY <1>0, FreshIsConsecutive DEF TypeOK
  <2>2. todo' \in Seq(Primitive) /\ issued' \in Nat /\ capacity' \in Nat /\ interrupts' \in Nat
    BY <1>0 DEF TypeOK, InvRaw
  <2>3. fd' \in BOOLEAN /\ errorLatched' \in BOOLEAN /\ result' \in BOOLEAN
    BY Zenon DEF TypeOK
  <2>4. mode' \in {"fd", "memory"} /\ pc' \in {"idle", "run", "flush", "direct"}
        /\ call' \in [op : Ops, field : Nat, start : Nat]
    BY DEF TypeOK
  <2>. QED
    BY <2>1, <2>2, <2>3, <2>4 DEF TypeOK
<1>2. InvProgram'
  BY HeadOfTodo DEF TypeOK, InvProgram, InvRaw, InvWhere, InvBuffer
<1>3. InvRaw'
  BY HeadOfTodo, FreshIsConsecutive DEF TypeOK, InvProgram, InvRaw
<1>4. InvBuffer'
  BY HeadOfTodo DEF TypeOK, InvProgram, InvRaw, InvBuffer
<1>5. InvWhere'
  <2>1. mode = "fd" /\ raw = <<>> /\ data = <<>>
    BY DEF InvBuffer, InvRaw
  <2>2. Len(output) + Len(raw) + Len(data) = issued
    BY <2>1 DEF InvWhere, InvRaw
  <2>3. Len(output) = issued
    BY <2>1, <2>2 DEF TypeOK
  <2>4. pc' = "run" /\ buffer' = <<>> /\ output' = output /\ issued' = issued
    OBVIOUS
  <2>5. Len(output) + 0 = issued
    BY <2>3 DEF TypeOK
  <2>. QED
    BY <2>4, <2>5, ConsecutiveEmpty DEF InvWhere, Consecutive
<1>6. OutputIsPrefix'
  BY <1>0 DEF TypeOK, OutputIsPrefix, InvWhere, Consecutive
<1>7. MemoryIsPrefix'
  BY HeadOfTodo DEF TypeOK, InvProgram, InvRaw, InvBuffer, MemoryIsPrefix
<1>8. TrueMeansDelivered'
  BY HeadOfTodo DEF TypeOK, InvProgram, TrueMeansDelivered, InvWhere, InvBuffer
<1>. QED
  BY <1>1, <1>2, <1>3, <1>4, <1>5, <1>6, <1>7, <1>8 DEF IInv

(* A destroy that has flushed detaches the writer.                         *)
LEMMA ThenDestroyedPreserves ==
  ASSUME IInv, ThenDestroyed
  PROVE  IInv'
<1>. USE DEF IInv, ThenDestroyed, writerVars, callVars, Runs, Length, Writes, NoRoom, Full, FlushDone, FitsEmpty, InRaw, Succeed, Fail, Detach, EnterRaw
<1>0. todo # <<>> => Length \in Nat /\ Tail(todo) \in Seq(Primitive)
  BY HeadOfTodo
<1>1. TypeOK'
  <2>1. buffer' \in Seq(Nat) /\ output' \in Seq(Nat) /\ data' \in Seq(Nat) /\ raw' \in Seq(Nat)
    BY <1>0, FreshIsConsecutive DEF TypeOK
  <2>2. todo' \in Seq(Primitive) /\ issued' \in Nat /\ capacity' \in Nat /\ interrupts' \in Nat
    BY <1>0 DEF TypeOK, InvRaw
  <2>3. fd' \in BOOLEAN /\ errorLatched' \in BOOLEAN /\ result' \in BOOLEAN
    BY Zenon DEF TypeOK
  <2>4. mode' \in {"fd", "memory"} /\ pc' \in {"idle", "run", "flush", "direct"}
        /\ call' \in [op : Ops, field : Nat, start : Nat]
    BY DEF TypeOK
  <2>. QED
    BY <2>1, <2>2, <2>3, <2>4 DEF TypeOK
<1>2. InvProgram'
  BY HeadOfTodo DEF TypeOK, InvProgram, InvRaw, InvWhere, InvBuffer
<1>3. InvRaw'
  BY HeadOfTodo, FreshIsConsecutive DEF TypeOK, InvProgram, InvRaw
<1>4. InvBuffer'
  <2>1. capacity' = 0 /\ buffer' = <<>> /\ mode' = mode
    OBVIOUS
  <2>2. 0 <= 0 /\ 0 < SizeModulus
    BY WriterAssumption DEF WriterAssumption
  <2>3. ~fd'
    BY Zenon
  <2>. QED
    BY <2>1, <2>2, <2>3, ConsecutiveEmpty DEF InvBuffer
<1>5. InvWhere'
  <2>1. mode = "fd" /\ raw = <<>> /\ data = <<>>
    BY DEF InvBuffer, InvRaw
  <2>2. Len(output) + Len(raw) + Len(data) = issued
    BY <2>1 DEF InvWhere, InvRaw
  <2>3. Len(output) = issued
    BY <2>1, <2>2 DEF TypeOK
  <2>4. pc' = "run" /\ buffer' = <<>> /\ output' = output /\ issued' = issued
    OBVIOUS
  <2>5. Len(output) + 0 = issued
    BY <2>3 DEF TypeOK
  <2>. QED
    BY <2>4, <2>5, ConsecutiveEmpty DEF InvWhere, Consecutive
<1>6. OutputIsPrefix'
  BY <1>0 DEF TypeOK, OutputIsPrefix, InvWhere, Consecutive
<1>7. MemoryIsPrefix'
  BY HeadOfTodo DEF TypeOK, InvProgram, InvRaw, InvBuffer, MemoryIsPrefix
<1>8. TrueMeansDelivered'
  BY HeadOfTodo DEF TypeOK, InvProgram, TrueMeansDelivered, InvWhere, InvBuffer
<1>. QED
  BY <1>1, <1>2, <1>3, <1>4, <1>5, <1>6, <1>7, <1>8 DEF IInv

(* Bytes written directly leave the buffer empty.                          *)
LEMMA DirectDonePreserves ==
  ASSUME IInv, DirectDone
  PROVE  IInv'
<1>. USE DEF IInv, DirectDone, writerVars, callVars, Runs, Length, Writes, NoRoom, Full, FlushDone, FitsEmpty, InRaw, Succeed, Fail, Detach, EnterRaw
<1>0. todo # <<>> => Length \in Nat /\ Tail(todo) \in Seq(Primitive)
  BY HeadOfTodo
<1>1. TypeOK'
  <2>1. buffer' \in Seq(Nat) /\ output' \in Seq(Nat) /\ data' \in Seq(Nat) /\ raw' \in Seq(Nat)
    BY <1>0, FreshIsConsecutive DEF TypeOK
  <2>2. todo' \in Seq(Primitive) /\ issued' \in Nat /\ capacity' \in Nat /\ interrupts' \in Nat
    BY <1>0 DEF TypeOK, InvRaw
  <2>3. fd' \in BOOLEAN /\ errorLatched' \in BOOLEAN /\ result' \in BOOLEAN
    BY Zenon DEF TypeOK
  <2>4. mode' \in {"fd", "memory"} /\ pc' \in {"idle", "run", "flush", "direct"}
        /\ call' \in [op : Ops, field : Nat, start : Nat]
    BY DEF TypeOK
  <2>. QED
    BY <2>1, <2>2, <2>3, <2>4 DEF TypeOK
<1>2. InvProgram'
  BY HeadOfTodo DEF TypeOK, InvProgram, InvRaw, InvWhere, InvBuffer
<1>3. InvRaw'
  BY HeadOfTodo, FreshIsConsecutive DEF TypeOK, InvProgram, InvRaw
<1>4. InvBuffer'
  BY HeadOfTodo DEF TypeOK, InvProgram, InvRaw, InvBuffer
<1>5. InvWhere'
  BY HeadOfTodo, FreshIsConsecutive DEF TypeOK, InvProgram, InvRaw, InvWhere, InvBuffer, Consecutive
<1>6. OutputIsPrefix'
  BY <1>0 DEF TypeOK, OutputIsPrefix, InvWhere, Consecutive
<1>7. MemoryIsPrefix'
  BY HeadOfTodo DEF TypeOK, InvProgram, InvRaw, InvBuffer, MemoryIsPrefix
<1>8. TrueMeansDelivered'
  BY HeadOfTodo DEF TypeOK, InvProgram, TrueMeansDelivered, InvWhere, InvBuffer
<1>. QED
  BY <1>1, <1>2, <1>3, <1>4, <1>5, <1>6, <1>7, <1>8 DEF IInv

(* A write moves the bytes it takes from what is left to the output.       *)
LEMMA WriteSomePreserves ==
  ASSUME IInv, NEW n \in 1..Len(raw), WriteSome(n)
  PROVE  IInv'
<1>. USE DEF IInv, WriteSome, writerVars, InRaw, Advance
<1>0. mode = "fd" /\ ~errorLatched /\ pc \in {"flush", "direct"} /\ todo # <<>>
  BY DEF InvRaw, InvBuffer
<1>1. /\ raw \in Seq(Nat) /\ output \in Seq(Nat) /\ issued \in Nat /\ data \in Seq(Nat)
      /\ Len(raw) \in Nat /\ Len(output) \in Nat /\ Len(data) \in Nat
  BY DEF TypeOK
<1>2. /\ Consecutive(raw, Len(output))
      /\ Len(output) + Len(raw) <= issued
  BY <1>0, <1>1 DEF InvWhere
<1>. DEFINE head == SubSeq(raw, 1, n)
            rest == SubSeq(raw, n + 1, Len(raw))
<1>3. /\ head \in Seq(Nat) /\ rest \in Seq(Nat)
      /\ Len(head) = n /\ Len(rest) = Len(raw) - n
      /\ Consecutive(head, Len(output)) /\ Consecutive(rest, Len(output) + n)
  BY <1>1, <1>2, ConsecutiveSplit
<1>4. output' = output \o head /\ raw' = rest
  OBVIOUS
<1>. HIDE DEF head, rest
<1>5. output' \in Seq(Nat) /\ Len(output') = Len(output) + n
  BY <1>1, <1>3, <1>4, ConcatProperties
<1>6. Consecutive(output', 0)
  <2>1. Consecutive(output, 0) /\ Consecutive(head, 0 + Len(output))
    BY <1>1, <1>3 DEF OutputIsPrefix
  <2>. QED
    BY <1>1, <1>3, <1>4, <2>1, ConsecutiveConcat
<1>7. TypeOK'
  BY <1>3, <1>4, <1>5 DEF TypeOK
<1>8. InvProgram'
  BY <1>0, <1>1 DEF InvProgram
<1>9. InvRaw'
  BY <1>0, <1>1 DEF InvRaw, Length
<1>10. InvBuffer'
  BY DEF InvBuffer
<1>11. InvWhere'
  <2>1. Consecutive(raw', Len(output'))
    BY <1>3, <1>4, <1>5
  <2>2. Len(output') + Len(raw') = Len(output) + Len(raw)
    <3>1. \A a, b \in Nat : \A k \in 1..b : (a + k) + (b - k) = a + b
      OBVIOUS
    <3>2. Len(output') = Len(output) + n /\ Len(raw') = Len(raw) - n
      BY <1>3, <1>4, <1>5
    <3>. HIDE DEF IInv, WriteSome
    <3>. QED
      BY <1>1, <3>1, <3>2
  <2>3. CASE pc = "flush"
    <3>1. /\ Consecutive(data, Len(output) + Len(raw))
          /\ Len(output) + Len(raw) + Len(data) = issued
      BY <1>0, <1>1, <2>3 DEF InvWhere
    <3>2. pc' = "flush" /\ data' = data /\ issued' = issued
      BY <2>3
    <3>. QED
      BY <2>1, <2>2, <3>1, <3>2 DEF InvWhere, Consecutive
  <2>4. CASE pc = "direct"
    <3>1. buffer = <<>> /\ Len(output) + Len(raw) = issued
      BY <1>0, <1>1, <2>4 DEF InvWhere
    <3>2. pc' = "direct" /\ buffer' = buffer /\ issued' = issued
      BY <2>4
    <3>. QED
      BY <2>1, <2>2, <3>1, <3>2 DEF InvWhere
  <2>. QED
    BY <1>0, <1>1, <2>3, <2>4
<1>12. OutputIsPrefix'
  <2>1. Len(output') <= issued /\ issued' = issued
    BY <1>1, <1>2, <1>5
  <2>. QED
    BY <1>6, <2>1 DEF OutputIsPrefix
<1>13. MemoryIsPrefix' /\ TrueMeansDelivered'
  BY <1>0, <1>1 DEF MemoryIsPrefix, TrueMeansDelivered
<1>. QED
  BY <1>7, <1>8, <1>9, <1>10, <1>11, <1>12, <1>13

(* A call that starts hands over no byte before its first primitive runs.  *)
LEMMA StartCallPreserves ==
  ASSUME IInv, NEW c \in Calls, StartCall(c)
  PROVE  IInv'
<1>. USE DEF IInv, StartCall, writerVars
<1>1. /\ WellFormed(c.program)
      /\ c.op \in Ops /\ c.field \in Nat
      /\ c.op \in {"flush", "destroy"} =>
           Len(c.program) = 1 /\ Head(c.program).kind = c.op
  BY CallsAreWellFormed
<1>2. TypeOK'
  BY <1>1 DEF TypeOK, WellFormed
<1>3. InvProgram'
  BY <1>1 DEF InvProgram, WellFormed
<1>4. InvRaw' /\ InvBuffer'
  BY DEF InvRaw, InvBuffer, InRaw
<1>5. InvWhere' /\ OutputIsPrefix'
  BY DEF InvWhere, OutputIsPrefix, Consecutive
<1>6. MemoryIsPrefix' /\ TrueMeansDelivered'
  BY DEF MemoryIsPrefix, TrueMeansDelivered, Consecutive
<1>. QED
  BY <1>2, <1>3, <1>4, <1>5, <1>6

(* What changes nothing disturbs nothing.                                  *)
LEMMA StutteringPreserves ==
  ASSUME IInv, UNCHANGED vars
  PROVE  IInv'
<1>. USE DEF IInv, vars, writerVars, callVars
<1>1. TypeOK' /\ InvProgram' /\ InvRaw' /\ InvBuffer'
  BY DEF TypeOK, InvProgram, InvRaw, InvBuffer, InRaw, Length
<1>2. InvWhere' /\ OutputIsPrefix' /\ MemoryIsPrefix' /\ TrueMeansDelivered'
  BY DEF InvWhere, OutputIsPrefix, MemoryIsPrefix, TrueMeansDelivered, Consecutive
<1>. QED
  BY <1>1, <1>2

-----------------------------------------------------------------------------
(* The inductive invariant holds in every state of every writer.           *)
THEOREM Inductive == Spec => []IInv
<1>1. Init => IInv
  BY InitEstablishesIInv
<1>2. IInv /\ [Next]_vars => IInv'
  <2>. SUFFICES ASSUME IInv, [Next]_vars
                PROVE  IInv'
    OBVIOUS
  <2>1. ASSUME NEW c \in Calls, StartCall(c)
        PROVE  IInv'
    BY <2>1, StartCallPreserves
  <2>2. ASSUME NEW n \in 1..Len(raw), WriteSome(n)
        PROVE  IInv'
    BY <2>2, WriteSomePreserves
  <2>3. CASE Writing
    BY <2>2, <2>3, ReturnPreserves, RejectPreserves, RefuseArgumentPreserves, BufferPreserves, OverflowPreserves,
        SpillPreserves, FlushPreserves, FlushMemoryPreserves, DestroyMemoryPreserves,
       DestroyLatchedPreserves, WriteRefusedPreserves, ThenBufferPreserves, ThenDirectPreserves,
       ThenFlushedPreserves, ThenDestroyedPreserves, DirectDonePreserves
       DEF Writing
  <2>4. CASE WriteInterrupted
    BY <2>4, WriteInterruptedPreserves
  <2>5. CASE UNCHANGED vars
    BY <2>5, StutteringPreserves
  <2>. QED
    BY <2>1, <2>3, <2>4, <2>5 DEF Next
<1>. QED
  BY <1>1, <1>2, PTL DEF Spec

(* The variables have their types.                                         *)
THEOREM TypeCorrect == Spec => []TypeOK
<1>1. IInv => TypeOK
  BY DEF IInv
<1>. QED
  BY <1>1, Inductive, PTL

(* Nothing reaches the descriptor twice, out of order or after a hole,     *)
(* whatever write(2) answers.                                              *)
THEOREM OutputPrefix == Spec => []OutputIsPrefix
<1>1. IInv => OutputIsPrefix
  BY DEF IInv
<1>. QED
  BY <1>1, Inductive, PTL

(* While no error is latched no byte that a call took is lost.             *)
THEOREM NoLoss == Spec => []NoSilentLoss
<1>1. IInv => NoSilentLoss
  BY DEF IInv, InvWhere, NoSilentLoss
<1>. QED
  BY <1>1, Inductive, PTL

(* A flush or a destroy that returns true has delivered everything.        *)
THEOREM Delivery == Spec => []TrueMeansDelivered
<1>1. IInv => TrueMeansDelivered
  BY DEF IInv
<1>. QED
  BY <1>1, Inductive, PTL

(* A writer without a descriptor holds a prefix of what it was given.      *)
THEOREM MemoryPrefix == Spec => []MemoryIsPrefix
<1>1. IInv => MemoryIsPrefix
  BY DEF IInv
<1>. QED
  BY <1>1, Inductive, PTL

(* The position never passes the capacity.                                 *)
THEOREM InBounds == Spec => []BufferInBounds
<1>1. IInv => BufferInBounds
  BY DEF IInv, InvBuffer, BufferInBounds
<1>. QED
  BY <1>1, Inductive, PTL

-----------------------------------------------------------------------------
(* A program emits a field: all its primitives but the last are single     *)
(* bytes, and together they are as many as the field has.                  *)
Emits(program, field) ==
  /\ program \in Seq(Primitive)
  /\ program # <<>>
  /\ \A i \in DOMAIN program : i # Len(program) => program[i].len = 1
  /\ \A i \in DOMAIN program : program[i].kind \in {"flush", "destroy"} => program[i].len = 0
  /\ Len(program) - 1 + program[Len(program)].len = field

(* A program of one primitive emits its bytes.                             *)
LEMMA SingletonEmits ==
  ASSUME NEW p \in Primitive, p.kind \in {"flush", "destroy"} => p.len = 0
  PROVE  Emits(<<p>>, p.len)
<1>1. <<p>> \in Seq(Primitive) /\ Len(<<p>>) = 1 /\ <<p>>[1] = p /\ p.len \in Nat
  BY DEF Primitive
<1>. QED
  BY <1>1 DEF Emits

(* Single bytes in front of a text lengthen its field.                     *)
LEMMA PaddingEmits ==
  ASSUME NEW s \in Seq(Primitive), \A i \in 1..Len(s) : s[i] = Char, NEW n \in Nat
  PROVE  Emits(s \o <<Bytes(n)>>, Len(s) + n)
<1>. DEFINE p == s \o <<Bytes(n)>>
<1>1. PICK k \in Nat : k = Len(s)
  BY LenProperties
<1>2. Bytes(n) \in Primitive /\ Bytes(n).len = n /\ Bytes(n).kind = "bytes"
  BY DEF Bytes, Primitive, Kinds
<1>3. /\ <<Bytes(n)>> \in Seq(Primitive) /\ Len(<<Bytes(n)>>) = 1
      /\ <<Bytes(n)>>[1] = Bytes(n)
  BY <1>2
<1>4. /\ p \in Seq(Primitive) /\ Len(p) = k + 1
      /\ \A i \in 1..(k + 1) : p[i] = IF i <= k THEN s[i] ELSE <<Bytes(n)>>[i - k]
  BY <1>1, <1>3, ConcatProperties
<1>5. p[k + 1] = Bytes(n) /\ \A i \in 1..k : p[i] = Char
  BY <1>1, <1>3, <1>4
<1>6. DOMAIN p = 1..(k + 1) /\ p # <<>>
  BY <1>1, <1>4, LenProperties, EmptySeq
<1>7. Char.len = 1 /\ Char.kind = "char"
  BY DEF Char
<1>. HIDE DEF p
<1>8. \A i \in 1..(k + 1) : i = k + 1 \/ i \in 1..k
  BY <1>1
<1>9. Emits(p, k + n)
  <2>1. \A i \in DOMAIN p : i # Len(p) => p[i].len = 1
    BY <1>4, <1>5, <1>6, <1>7, <1>8
  <2>2. \A i \in DOMAIN p : p[i].kind \notin {"flush", "destroy"}
    BY <1>2, <1>5, <1>6, <1>7, <1>8
  <2>3. Len(p) - 1 + p[Len(p)].len = k + n
    BY <1>1, <1>2, <1>4, <1>5
  <2>. QED
    BY <1>4, <1>6, <2>1, <2>2, <2>3 DEF Emits
<1>. QED
  BY <1>1, <1>9 DEF p

(* Every API call runs a program that emits its field.                     *)
LEMMA CallsEmit ==
  ASSUME NEW c \in Calls
  PROVE  Emits(c.program, c.field) /\ c.field \in Nat
<1>. USE WriterAssumption DEF WriterAssumption
<1>1. \A k \in Nat : /\ Pad(k) \in Seq(Primitive) /\ Len(Pad(k)) = k
                     /\ \A i \in 1..Len(Pad(k)) : Pad(k)[i] = Char
  BY DEF Pad, Char, Primitive, Kinds
<1>2. ASSUME NEW n \in Nat PROVE Emits(<<Bytes(n)>>, n)
  <2>1. Bytes(n) \in Primitive /\ Bytes(n).kind = "bytes" /\ Bytes(n).len = n
    BY DEF Bytes, Primitive, Kinds
  <2>. QED
    BY <2>1, SingletonEmits
<1>3. ASSUME NEW n \in Nat, NEW w \in Nat PROVE Emits(PaddedField(n, w), FieldOf(n, w))
  <2>1. PadCount(n, w) \in Nat /\ PadCount(n, w) + n = FieldOf(n, w)
    BY DEF PadCount, FieldOf
  <2>. QED
    BY <1>1, <2>1, PaddingEmits DEF PaddedField
<1>4. ASSUME NEW n \in Nat \ {0, 1}, NEW w \in Nat
      PROVE  Emits(ZeroPaddedNegative(n, w), FieldOf(n, w))
  <2>1. CASE n >= w
    BY <1>2, <2>1 DEF ZeroPaddedNegative, FieldOf
  <2>2. CASE ~(n >= w)
    <3>. DEFINE s == <<Char>> \o Pad(PadCount(n, w))
    <3>0. PadCount(n, w) \in Nat
      BY DEF PadCount
    <3>1. PICK k \in Nat : k = PadCount(n, w)
      BY <3>0
    <3>2. /\ <<Char>> \in Seq(Primitive) /\ Len(<<Char>>) = 1 /\ <<Char>>[1] = Char
          /\ Pad(k) \in Seq(Primitive) /\ Len(Pad(k)) = k
          /\ \A i \in 1..k : Pad(k)[i] = Char
      <4>1. Char \in Primitive
        BY DEF Char, Primitive, Kinds
      <4>. QED
        BY <1>1, <4>1
    <3>3. /\ s \in Seq(Primitive) /\ Len(s) = 1 + k
          /\ \A i \in 1..(1 + k) : s[i] = IF i <= 1 THEN <<Char>>[i] ELSE Pad(k)[i - 1]
      BY <3>1, <3>2, ConcatProperties
    <3>4. \A i \in 1..Len(s) : s[i] = Char
      <4>1. \A i \in 1..(1 + k) : (i <= 1 => i = 1) /\ (~(i <= 1) => i - 1 \in 1..k)
        OBVIOUS
      <4>. HIDE DEF s
      <4>. QED
        BY <3>2, <3>3, <4>1
    <3>5. n - 1 \in Nat /\ (1 + k) + (n - 1) = FieldOf(n, w)
      BY <2>2, <3>1 DEF PadCount, FieldOf
    <3>. HIDE DEF s
    <3>6. Emits(s \o <<Bytes(n - 1)>>, FieldOf(n, w))
      BY <3>3, <3>4, <3>5, PaddingEmits
    <3>. QED
      BY <2>2, <3>6 DEF ZeroPaddedNegative, s
  <2>. QED
    BY <2>1, <2>2
<1>5. ASSUME NEW kind \in Kinds, NEW n \in Nat, kind \in {"flush", "destroy"} => n = 0
      PROVE  Emits(<<[kind |-> kind, len |-> n]>>, n)
  BY <1>5, SingletonEmits DEF Primitive
<1>6. /\ Emits(<<Char>>, 1) /\ Emits(<<Latch>>, 0)
      /\ Emits(<<[kind |-> "flush", len |-> 0]>>, 0)
      /\ Emits(<<[kind |-> "destroy", len |-> 0]>>, 0)
  BY <1>5 DEF Kinds, Char, Latch
<1>7. \A n, w \in Nat : FieldOf(n, w) \in Nat
  BY DEF FieldOf
<1>8. \A op, program, field : /\ Call(op, program, field).program = program
                              /\ Call(op, program, field).field = field
  BY DEF Call
<1>9. \/ \E n \in Lengths : c = Call("write_bytes", <<Bytes(n)>>, n)
      \/ c = Call("write_char", <<Char>>, 1)
      \/ \E n \in Lengths \ {0}, w \in Widths :
           c = Call("write_padded", PaddedField(n, w), FieldOf(n, w))
      \/ \E n \in Lengths \ {0, 1}, w \in Widths :
           c = Call("write_signed_padded", ZeroPaddedNegative(n, w), FieldOf(n, w))
      \/ c = Call("write_invalid", <<Latch>>, 0)
      \/ c = Call("flush", <<[kind |-> "flush", len |-> 0]>>, 0)
      \/ c = Call("destroy", <<[kind |-> "destroy", len |-> 0]>>, 0)
  BY DEF Calls
<1>10. CASE \E n \in Lengths : c = Call("write_bytes", <<Bytes(n)>>, n)
  BY <1>2, <1>8, <1>10
<1>11. CASE \E n \in Lengths \ {0}, w \in Widths :
              c = Call("write_padded", PaddedField(n, w), FieldOf(n, w))
  <2>1. PICK n \in Lengths \ {0}, w \in Widths :
               c = Call("write_padded", PaddedField(n, w), FieldOf(n, w))
    BY <1>11
  <2>2. n \in Nat /\ w \in Nat
    BY <2>1
  <2>3. Emits(PaddedField(n, w), FieldOf(n, w)) /\ FieldOf(n, w) \in Nat
    BY <1>3, <1>7, <2>2
  <2>4. c.program = PaddedField(n, w) /\ c.field = FieldOf(n, w)
    BY <1>8, <2>1
  <2>. QED
    BY <2>3, <2>4
<1>12. CASE \E n \in Lengths \ {0, 1}, w \in Widths :
              c = Call("write_signed_padded", ZeroPaddedNegative(n, w), FieldOf(n, w))
  <2>1. PICK n \in Lengths \ {0, 1}, w \in Widths :
               c = Call("write_signed_padded", ZeroPaddedNegative(n, w), FieldOf(n, w))
    BY <1>12
  <2>2. n \in Nat \ {0, 1} /\ w \in Nat
    BY <2>1
  <2>3. Emits(ZeroPaddedNegative(n, w), FieldOf(n, w)) /\ FieldOf(n, w) \in Nat
    BY <1>4, <1>7, <2>2
  <2>4. c.program = ZeroPaddedNegative(n, w) /\ c.field = FieldOf(n, w)
    BY <1>8, <2>1
  <2>. QED
    BY <2>3, <2>4
<1>13. CASE \/ c = Call("write_char", <<Char>>, 1)
            \/ c = Call("write_invalid", <<Latch>>, 0)
            \/ c = Call("flush", <<[kind |-> "flush", len |-> 0]>>, 0)
            \/ c = Call("destroy", <<[kind |-> "destroy", len |-> 0]>>, 0)
  BY <1>6, <1>8, <1>13
<1>. QED
  BY <1>9, <1>10, <1>11, <1>12, <1>13

(* What a program owes after its first primitive.                          *)
LEMMA TailOwes ==
  ASSUME TypeOK, InvField, todo # <<>>, todo' = Tail(todo)
  PROVE  /\ Length \in Nat /\ Owed \in Nat /\ Owed' \in Nat /\ Owed = Length + Owed'
         /\ \A i \in DOMAIN todo' : i # Len(todo') => todo'[i].len = 1
         /\ \A i \in DOMAIN todo' : todo'[i].kind \in {"flush", "destroy"} => todo'[i].len = 0
         /\ Head(todo).kind \in {"flush", "destroy"} => Length = 0
<1>1. PICK n \in Nat \ {0} : n = Len(todo)
  BY EmptySeq DEF TypeOK
<1>2. /\ todo \in Seq(Primitive) /\ DOMAIN todo = 1..n /\ Head(todo) = todo[1]
      /\ todo' \in Seq(Primitive) /\ Len(todo') = n - 1 /\ DOMAIN todo' = 1..(n - 1)
      /\ \A i \in 1..(n - 1) : todo'[i] = todo[i + 1]
  BY <1>1, HeadTailProperties, LenProperties DEF TypeOK
<1>3. /\ \A i \in 1..n : todo[i].len \in Nat
      /\ \A i \in 1..n : i # n => todo[i].len = 1
      /\ \A i \in 1..n : todo[i].kind \in {"flush", "destroy"} => todo[i].len = 0
  <2>1. \A i \in 1..n : todo[i] \in Primitive
    BY <1>1, <1>2, ElementOfSeq
  <2>. QED
    BY <1>1, <1>2, <2>1 DEF InvField, Primitive
<1>4. \A i \in 1..(n - 1) : i + 1 \in 1..n /\ (i # n - 1 => i + 1 # n)
  OBVIOUS
<1>5. Length = todo[1].len /\ Length \in Nat /\ 1 \in 1..n /\ n \in 1..n
  BY <1>2, <1>3 DEF Length
<1>6. Owed = n - 1 + todo[n].len
  BY <1>1 DEF Owed
<1>7. CASE n = 1
  <2>1. todo' = <<>>
    BY <1>2, <1>7, EmptySeq
  <2>2. Owed' = 0
    BY <2>1 DEF Owed
  <2>. QED
    BY <1>2, <1>3, <1>5, <1>6, <1>7, <2>2
<1>8. CASE n # 1
  <2>1. n - 1 \in 1..(n - 1) /\ (n - 1) + 1 = n
    BY <1>8
  <2>2. todo' # <<>>
    BY <1>2, <1>8
  <2>3. Owed' = (n - 1) - 1 + todo[n].len
    BY <1>2, <2>1, <2>2 DEF Owed
  <2>4. Length = 1
    BY <1>3, <1>5, <1>8
  <2>5. todo[n].len \in Nat
    BY <1>3, <1>5
  <2>6. Owed \in Nat /\ Owed' \in Nat /\ Owed = Length + Owed'
    <3>1. PICK m \in Nat : m = todo[n].len
      BY <2>5
    <3>. QED
      BY <1>6, <1>8, <2>3, <2>4, <3>1
  <2>7. \A i \in 1..(n - 1) : i # n - 1 => todo'[i].len = 1
    BY <1>2, <1>3, <1>4
  <2>8. \A i \in 1..(n - 1) : todo'[i].kind \in {"flush", "destroy"} => todo'[i].len = 0
    BY <1>2, <1>3, <1>4
  <2>9. Head(todo).kind \in {"flush", "destroy"} => Length = 0
    BY <1>2, <1>3, <1>5
  <2>. QED
    BY <1>2, <1>5, <2>6, <2>7, <2>8, <2>9
<1>. QED
  BY <1>7, <1>8

(* The running primitive succeeds, at once or after raw_write_all.         *)
LEMMA SuccessKeepsField ==
  ASSUME IInv, InvField, todo # <<>>, Succeed,
         \/ pc = "run" /\ issued' = issued + Length
         \/ pc = "run" /\ issued' = issued /\ Head(todo).kind \in {"flush", "destroy"}
         \/ InRaw /\ issued' = issued
  PROVE  InvField'
<1>1. TypeOK /\ todo' = Tail(todo) /\ pc' = "run" /\ call' = call
  BY DEF IInv, Succeed
<1>2. issued \in Nat /\ call.start \in Nat /\ call.field \in Nat
  BY <1>1 DEF TypeOK
<1>3. /\ Length \in Nat /\ Owed \in Nat /\ Owed' \in Nat /\ Owed = Length + Owed'
      /\ \A i \in DOMAIN todo' : i # Len(todo') => todo'[i].len = 1
      /\ \A i \in DOMAIN todo' : todo'[i].kind \in {"flush", "destroy"} => todo'[i].len = 0
      /\ Head(todo).kind \in {"flush", "destroy"} => Length = 0
  BY <1>1, TailOwes
<1>4. /\ pc = "run" => issued + Owed = call.start + call.field
      /\ InRaw => issued + Owed = call.start + call.field + Length
  BY DEF InvField
<1>5. issued' + Owed' = call.start + call.field
  <2>1. PICK l, w, v, s, f \in Nat : /\ l = Length /\ w = Owed /\ v = Owed'
                                     /\ s = call.start /\ f = call.field
    BY <1>2, <1>3
  <2>2. l + v = w /\ \A x \in Nat : x + w = s + f + l => x + v = s + f
    <3>1. l + v = w
      BY <1>3, <2>1, Zenon
    <3>. QED
      BY <3>1
  <2>3. CASE pc = "run" /\ issued' = issued + Length
    <3>1. issued + w = s + f /\ issued' = issued + l
      BY <1>4, <2>1, <2>3
    <3>. QED
      BY <1>2, <2>1, <2>2, <3>1
  <2>4. CASE pc = "run" /\ issued' = issued /\ Head(todo).kind \in {"flush", "destroy"}
    <3>1. issued + w = s + f /\ issued' = issued /\ l = 0
      BY <1>3, <1>4, <2>1, <2>4
    <3>. QED
      BY <1>2, <2>1, <2>2, <3>1
  <2>5. CASE InRaw /\ issued' = issued
    <3>1. issued + w = s + f + l /\ issued' = issued
      BY <1>4, <2>1, <2>5
    <3>. QED
      BY <1>2, <2>1, <2>2, <3>1
  <2>. QED
    BY <2>3, <2>4, <2>5
<1>. QED
  BY <1>1, <1>3, <1>5 DEF InvField, InRaw, WholeField

(* raw_write_all is entered, or goes on.                                   *)
LEMMA RawKeepsField ==
  ASSUME IInv, InvField, todo # <<>>, UNCHANGED <<todo, call>>, pc' \in {"flush", "direct"},
         \/ pc = "run" /\ issued' = issued + Length
         \/ pc = "run" /\ issued' = issued /\ Head(todo).kind \in {"flush", "destroy"}
         \/ InRaw /\ issued' = issued
  PROVE  InvField'
<1>1. TypeOK
  BY DEF IInv
<1>2. PICK n \in Nat \ {0} : n = Len(todo) /\ DOMAIN todo = 1..n
  BY <1>1, EmptySeq, LenProperties DEF TypeOK
<1>3. /\ issued \in Nat /\ call.start \in Nat /\ call.field \in Nat /\ Length \in Nat
      /\ Owed \in Nat /\ Owed' = Owed /\ Length' = Length
  <2>1. todo[n] \in Primitive /\ todo[1] \in Primitive /\ Head(todo) = todo[1]
    BY <1>1, <1>2, ElementOfSeq DEF TypeOK
  <2>. QED
    BY <1>1, <1>2, <2>1 DEF TypeOK, Owed, Length, Primitive
<1>4. Head(todo).kind \in {"flush", "destroy"} => Length = 0
  <2>1. Head(todo) = todo[1] /\ 1 \in DOMAIN todo
    BY <1>1, <1>2, HeadTailProperties DEF TypeOK
  <2>. QED
    BY <2>1 DEF InvField, Length
<1>5. issued' + Owed' = call.start + call.field + Length
  BY <1>3, <1>4 DEF InvField
<1>. QED
  BY <1>3, <1>5 DEF InvField, WholeField

(* A call that fails promises nothing.                                     *)
LEMMA FailureKeepsField ==
  ASSUME IInv, Fail
  PROVE  InvField'
<1>1. pc' = "idle" /\ result' = FALSE /\ todo' = <<>>
  BY DEF Fail
<1>. QED
  BY <1>1 DEF InvField, InRaw, WholeField

(* A call begins with its program, and returns when it is done.            *)
LEMMA CallKeepsField ==
  ASSUME IInv, InvField, Return \/ \E c \in Calls : StartCall(c)
  PROVE  InvField'
<1>1. issued \in Nat
  BY DEF IInv, TypeOK
<1>2. CASE Return
  <2>1. /\ pc = "run" /\ todo = <<>> /\ pc' = "idle" /\ UNCHANGED <<call, todo, issued>>
    BY <1>2 DEF Return
  <2>2. issued + 0 = call.start + call.field
    BY <2>1 DEF InvField, Owed
  <2>. QED
    BY <1>1, <2>1, <2>2 DEF InvField, InRaw, WholeField
<1>3. ASSUME NEW c \in Calls, StartCall(c) PROVE InvField'
  <2>1. /\ todo' = c.program /\ pc' = "run" /\ issued' = issued
        /\ call' = [op |-> c.op, field |-> c.field, start |-> issued]
    BY <1>3 DEF StartCall
  <2>2. Emits(todo', c.field) /\ c.field \in Nat
    BY <2>1, CallsEmit
  <2>3. Owed' = c.field
    BY <2>2 DEF Emits, Owed
  <2>4. issued' + Owed' = call'.start + call'.field
    BY <1>1, <2>1, <2>2, <2>3
  <2>. QED
    BY <2>1, <2>2, <2>4 DEF Emits, InvField, InRaw, WholeField
<1>. QED
  BY <1>2, <1>3

(* Every step keeps the account of the bytes a call has still to emit.     *)
LEMMA StepKeepsField ==
  ASSUME IInv, InvField, [Next]_vars
  PROVE  InvField'
<1>1. CASE Return \/ \E c \in Calls : StartCall(c)
  BY <1>1, CallKeepsField
<1>2. CASE Reject \/ RefuseArgument \/ Overflow \/ DestroyLatched \/ WriteRefused
  BY <1>2, FailureKeepsField DEF Reject, RefuseArgument, Overflow, DestroyLatched, WriteRefused
<1>3. CASE Buffer \/ FlushMemory \/ DestroyMemory
  BY <1>3, SuccessKeepsField DEF Buffer, FlushMemory, DestroyMemory, Writes, Runs
<1>4. CASE ThenBuffer \/ ThenFlushed \/ ThenDestroyed \/ DirectDone
  <2>1. InRaw /\ todo # <<>>
    BY <1>4 DEF ThenBuffer, ThenFlushed, ThenDestroyed, DirectDone, FlushDone, InRaw, IInv, InvRaw
  <2>2. Succeed /\ issued' = issued
    BY <1>4 DEF ThenBuffer, ThenFlushed, ThenDestroyed, DirectDone
  <2>. QED
    BY <2>1, <2>2, SuccessKeepsField
<1>5. CASE Spill \/ Flush
  BY <1>5, RawKeepsField DEF Spill, Flush, EnterRaw, Writes, Runs
<1>6. CASE ThenDirect \/ WriteInterrupted \/ \E n \in 1..Len(raw) : WriteSome(n)
  <2>1. InRaw /\ todo # <<>>
    BY <1>6 DEF ThenDirect, WriteInterrupted, WriteSome, FlushDone, InRaw, IInv, InvRaw
  <2>2. UNCHANGED <<todo, call, issued>> /\ pc' \in {"flush", "direct"}
    BY <1>6, <2>1 DEF ThenDirect, WriteInterrupted, WriteSome, EnterRaw, callVars, InRaw
  <2>. QED
    BY <2>1, <2>2, RawKeepsField
<1>7. CASE UNCHANGED vars
  BY <1>7 DEF vars, callVars, InvField, WholeField, InRaw, Owed, Length
<1>. QED
  BY <1>1, <1>2, <1>3, <1>4, <1>5, <1>6, <1>7 DEF Next, Writing

(* A padded number, a text or a byte for which the call returns true was   *)
(* emitted as a whole, padding included, whatever the widths and lengths.  *)
THEOREM FieldIsWhole == Spec => []WholeField
<1>1. Init => InvField
  BY DEF Init, InvField, InRaw, WholeField
<1>2. IInv /\ InvField /\ [Next]_vars => InvField'
  BY StepKeepsField
<1>3. InvField => WholeField
  BY DEF InvField
<1>. QED
  BY <1>1, <1>2, <1>3, Inductive, PTL DEF Spec

-----------------------------------------------------------------------------
(* After the first error the descriptor receives nothing more and every    *)
(* call returns false, for good.                                           *)
THEOREM Finality == Spec => ErrorIsFinal
<1>1. IInv /\ [Next]_vars =>
        [errorLatched => /\ errorLatched'
                         /\ output' = output
                         /\ pc = "run" /\ pc' = "idle" => ~result']_vars
  <2>. SUFFICES ASSUME IInv, Next, errorLatched
                PROVE  /\ errorLatched'
                       /\ output' = output
                       /\ pc = "run" /\ pc' = "idle" => ~result'
    BY Zenon
  <2>1. ~InRaw /\ (pc = "run" => todo # <<>>)
    BY DEF IInv, InvRaw, InvProgram
  <2>2. CASE \E c \in Calls : StartCall(c)
    BY <2>2 DEF StartCall, writerVars
  <2>3. CASE WriteInterrupted
    BY <2>1, <2>3 DEF WriteInterrupted
  <2>4. CASE Writing
    <3>1. CASE Reject \/ RefuseArgument \/ DestroyLatched
      BY <3>1, Zenon DEF Reject, RefuseArgument, DestroyLatched, Fail
    <3>2. ~Return /\ ~Buffer /\ ~Overflow /\ ~Spill /\ ~Flush /\ ~FlushMemory /\ ~DestroyMemory
      BY <2>1 DEF Return, Buffer, Overflow, Spill, Flush, FlushMemory, DestroyMemory
    <3>3. ~WriteRefused /\ ~ThenBuffer /\ ~ThenDirect /\ ~ThenFlushed /\ ~ThenDestroyed
          /\ ~DirectDone /\ \A n \in 1..Len(raw) : ~WriteSome(n)
      BY <2>1 DEF InRaw, FlushDone, WriteRefused, ThenBuffer, ThenDirect, ThenFlushed,
                  ThenDestroyed, DirectDone, WriteSome
    <3>. QED
      BY <2>4, <3>1, <3>2, <3>3 DEF Writing
  <2>. QED
    BY <2>2, <2>3, <2>4 DEF Next
<1>. QED
  BY <1>1, Inductive, PTL DEF Spec, ErrorIsFinal

(* A writer implements the stream, whatever its buffer and the answers of  *)
(* write(2).                                                               *)
THEOREM Implementation == Spec => ImplementsStream
<1>1. Init => Stream!Init
  BY WriterAssumption DEF Init, Stream!Init, StreamState
<1>2. Next => mode' = mode
  BY DEF Next, vars, writerVars, callVars, StartCall, WriteInterrupted, Writing, Return, Reject,
         RefuseArgument, Buffer, Overflow, Spill, Flush, FlushMemory, DestroyMemory,
         DestroyLatched, WriteSome, WriteRefused, ThenBuffer, ThenDirect, ThenFlushed,
         ThenDestroyed, DirectDone
<1>3. IInv /\ IInv' /\ [Next]_vars => [Stream!Next]_(Stream!streamVars)
  <2>. SUFFICES ASSUME IInv, IInv', Next
                PROVE  Stream!Next \/ UNCHANGED <<issued, output, StreamState>>
    BY DEF vars, writerVars, callVars, StreamState, Stream!streamVars
  <2>1. /\ issued \in Nat /\ issued' \in Nat
        /\ InRaw => fd /\ ~errorLatched /\ todo # <<>>
        /\ todo # <<>> => Length \in Nat
        /\ mode' = mode
        /\ fd => mode = "fd"
    BY <1>2, HeadOfTodo DEF IInv, TypeOK, InvRaw, InvBuffer
  <2>2. CASE \/ \E c \in Calls : StartCall(c)
             \/ WriteInterrupted \/ Return \/ Flush \/ FlushMemory
             \/ ThenBuffer \/ ThenDirect \/ ThenFlushed \/ DirectDone
    BY <2>1, <2>2 DEF StartCall, WriteInterrupted, Return, Flush, FlushMemory, ThenBuffer, ThenDirect,
                ThenFlushed, DirectDone, EnterRaw, Succeed, writerVars, StreamState
  <2>3. CASE DestroyMemory \/ DestroyLatched
    <3>1. issued' = issued /\ output' = output
      BY <2>3 DEF DestroyMemory, DestroyLatched
    <3>2. \/ errorLatched /\ errorLatched'
          \/ ~fd /\ ~fd' /\ ~errorLatched /\ ~errorLatched'
      BY <2>3, Zenon DEF DestroyMemory, DestroyLatched, Fail, Detach
    <3>3. StreamState' = StreamState
      BY <2>1, <3>2 DEF StreamState
    <3>. QED
      BY <3>1, <3>3
  <2>4. CASE Buffer \/ Spill \/ Reject
    <3>1. issued' = issued + Length /\ output' = output /\ todo # <<>>
      BY <2>4 DEF Buffer, Spill, Reject, Writes, Runs
    <3>2. StreamState' = StreamState
      <4>1. \/ errorLatched /\ errorLatched'
            \/ (fd' <=> fd) /\ ~errorLatched /\ ~errorLatched'
        BY <2>4, Zenon DEF Buffer, Spill, Reject, Fail, writerVars
      <4>. QED
        BY <2>1, <4>1 DEF StreamState
    <3>3. issued' = issued \/ issued' > issued
      BY <2>1, <3>1
    <3>. QED
      BY <2>1, <3>1, <3>2, <3>3 DEF Stream!Next, Stream!Issue
  <2>5. CASE RefuseArgument \/ Overflow \/ WriteRefused
    <3>1. output' = output /\ issued' >= issued
      BY <2>1, <2>5 DEF RefuseArgument, Overflow, WriteRefused, Writes, Runs
    <3>2. ~errorLatched /\ errorLatched'
      BY <2>1, <2>5, Zenon DEF RefuseArgument, Overflow, WriteRefused, Fail
    <3>3. StreamState # "broken" /\ StreamState' = "broken"
      BY <3>2 DEF StreamState
    <3>. QED
      BY <2>1, <3>1, <3>3 DEF Stream!Next, Stream!Break
  <2>6. ASSUME NEW n \in 1..Len(raw), WriteSome(n)
        PROVE  Stream!Next
    <3>1. /\ output \in Seq(Nat) /\ output' \in Seq(Nat) /\ raw \in Seq(Nat)
          /\ Consecutive(output', 0) /\ Len(output') <= issued'
      BY DEF IInv, TypeOK, OutputIsPrefix
    <3>2. /\ output' = output \o SubSeq(raw, 1, n) /\ InRaw
          /\ issued' = issued /\ fd' = fd /\ errorLatched' = errorLatched
      BY <2>6 DEF WriteSome, Advance, writerVars
    <3>3. SubSeq(raw, 1, n) \in Seq(Nat) /\ Len(SubSeq(raw, 1, n)) = n
      BY <3>1
    <3>4. Len(output') = Len(output) + n
      BY <3>1, <3>2, <3>3, ConcatProperties
    <3>5. Len(output') \in (Len(output) + 1)..issued
      BY <2>1, <3>1, <3>2, <3>4
    <3>6. output' = [i \in 1..Len(output') |-> i]
      <4>1. output' \in [1..Len(output') -> Nat]
        BY <3>1, LenProperties
      <4>2. \A i \in 1..Len(output') : output'[i] = 0 + i
        BY <3>1, <4>1 DEF Consecutive
      <4>. QED
        BY <4>1, <4>2
    <3>7. StreamState = "open" /\ StreamState' = "open"
      BY <2>1, <3>2 DEF StreamState
    <3>. QED
      BY <3>2, <3>5, <3>6, <3>7 DEF Stream!Next, Stream!Deliver
  <2>7. CASE ThenDestroyed
    <3>1. /\ output' = output /\ issued' = issued
          /\ fd' = FALSE /\ errorLatched' = errorLatched
          /\ pc = "flush" /\ raw = <<>> /\ Head(todo).kind = "destroy"
      BY <2>7 DEF ThenDestroyed, FlushDone, Detach
    <3>2. /\ fd /\ ~errorLatched
          /\ data = <<>>
          /\ Len(output) + Len(raw) + Len(data) = issued
      BY <2>1, <3>1 DEF IInv, InvRaw, InvWhere, InRaw
    <3>3. Len(output) = issued
      BY <3>1, <3>2 DEF IInv, TypeOK
    <3>4. StreamState = "open" /\ StreamState' = "closed"
      BY <2>1, <3>1, <3>2 DEF StreamState
    <3>. QED
      BY <3>1, <3>3, <3>4 DEF Stream!Next, Stream!Close
  <2>. QED
    BY <2>2, <2>3, <2>4, <2>5, <2>6, <2>7 DEF Next, Writing
<1>. QED
  BY <1>1, <1>3, Inductive, PTL DEF Spec, ImplementsStream, Stream!Spec
=============================================================================
