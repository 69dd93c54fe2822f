-------------------------- MODULE ConversionProofs --------------------------
(***************************************************************************)
(* The rest of what the functions that keep nothing between calls          *)
(* guarantee: encodings of every length, numbers of every kind as texts,   *)
(* and globs, for every pattern and text; and, with what module            *)
(* StatelessProofs says of the others, the theorems about all of them.     *)
(***************************************************************************)
EXTENDS StatelessProofs, FiniteSetTheorems

-----------------------------------------------------------------------------
(* Induction upwards, as a fact about sets of numbers; a function that is  *)
(* defined from 0 upwards exists and has the type of its steps.            *)
LEMMA Upwards ==
  ASSUME NEW m \in Nat, NEW T, 0 \in T, \A n \in 1..m : n - 1 \in T => n \in T
  PROVE  \A n \in 0..m : n \in T
  <1> DEFINE R == {n \in 0..m : n \notin T}
  <1>1. ASSUME R # {} PROVE FALSE
    <2>1. PICK n \in R : \A k \in R : n <= k
      <3>1. R \in SUBSET Nat
        OBVIOUS
      <3> HIDE DEF R
      <3> QED
        BY <1>1, <3>1, LeastNat
    <2>2. n \in 0..m /\ n \notin T /\ n \in Nat /\ n # 0
      OBVIOUS
    <2>3. n \in 1..m /\ n - 1 \in 0..m /\ ~(n <= n - 1)
      BY <2>2
    <2>4. n - 1 \notin R
      BY <2>1, <2>3
    <2> QED
      BY <2>2, <2>3, <2>4
  <1> QED
    BY <1>1

StepsOf(step, S, m) == \A x \in S : \A n \in 1..m : step[<<x, n>>] \in S

IteratesOf(f, S, base, step, m) ==
  f \in [0..m -> S] /\ f[0] = base /\ \A n \in 1..m : f[n] = step[<<f[n - 1], n>>]

LEMMA Iterates ==
  ASSUME NEW m \in Nat, NEW S, NEW base \in S, NEW step, StepsOf(step, S, m)
  PROVE  \E f : IteratesOf(f, S, base, step, m)
  <1> DEFINE Good(f, k) == f \in [0..k -> S] /\ f[0] = base /\ \A n \in 1..k : f[n] = step[<<f[n - 1], n>>]
             T == {k \in 0..m : \E f : Good(f, k)}
  <1>1. 0 \in T
    <2> DEFINE f == [n \in 0..0 |-> base]
    <2>1. f \in [0..0 -> S] /\ f[0] = base /\ \A n \in 1..0 : f[n] = step[<<f[n - 1], n>>]
      OBVIOUS
    <2>2. Good(f, 0)
      BY <2>1
    <2> HIDE DEF f, Good
    <2> QED
      BY <2>2
  <1>2. ASSUME NEW k \in 1..m, k - 1 \in T PROVE k \in T
    <2>1. PICK f : Good(f, k - 1)
      BY <1>2
    <2> DEFINE g == [n \in 0..k |-> IF n < k THEN f[n] ELSE step[<<f[k - 1], k>>]]
    <2>2. k \in Nat /\ k - 1 \in 0..(k - 1) /\ f[k - 1] \in S /\ k \in 0..m
      BY <2>1
    <2>3. \A n \in 0..(k - 1) : g[n] = f[n] /\ f[n] \in S
      BY <2>1, <2>2
    <2>4. g[k] = step[<<f[k - 1], k>>] /\ g[k] \in S
      BY <2>2 DEF StepsOf
    <2>5. g \in [0..k -> S]
      <3>1. ASSUME NEW n \in 0..k PROVE g[n] \in S
        <4>1. n = k \/ n \in 0..(k - 1)
          BY <2>2
        <4> HIDE DEF g
        <4> QED
          BY <2>3, <2>4, <4>1
      <3> QED
        BY <3>1
    <2> HIDE DEF g
    <2>6. g[0] = base
      <3>1. 0 \in 0..(k - 1)
        BY <2>2
      <3> QED
        BY <2>1, <2>3, <3>1
    <2>7. ASSUME NEW n \in 1..k PROVE g[n] = step[<<g[n - 1], n>>]
      <3>1. n - 1 \in 0..(k - 1) /\ g[n - 1] = f[n - 1]
        BY <2>2, <2>3
      <3>2. CASE n = k
        BY <2>4, <3>1, <3>2
      <3>3. CASE n # k
        <4>1. n \in 1..(k - 1) /\ n \in 0..(k - 1)
          BY <2>2, <3>3
        <4>2. f[n] = step[<<f[n - 1], n>>] /\ g[n] = f[n]
          BY <2>1, <2>3, <4>1
        <4> QED
          BY <3>1, <4>2
      <3> QED
        BY <3>2, <3>3
    <2>8. Good(g, k)
      BY <2>5, <2>6, <2>7
    <2> HIDE DEF Good
    <2> QED
      BY <2>2, <2>8
  <1>3. m \in T
    <2> HIDE DEF T
    <2>1. \A n \in 0..m : n \in T
      BY <1>1, <1>2, Upwards
    <2> QED
      BY <2>1
  <1> QED
    BY <1>3 DEF IteratesOf

-----------------------------------------------------------------------------
(* Powers.                                                                 *)
PowersOf(f, base, n) == f = [k \in 0..n |-> IF k = 0 THEN 1 ELSE base * f[k - 1]]

LEMMA PowersExist ==
  ASSUME NEW base \in Nat, NEW n \in Nat
  PROVE  \E f \in [0..n -> Nat] : PowersOf(f, base, n)
  <1> DEFINE step == [p \in Nat \X (1..n) |-> base * p[1]]
             one  == 1
  <1>1. one \in Nat /\ step \in [Nat \X (1..n) -> Nat]
    OBVIOUS
  <1>2. \A x \in Nat, k \in 1..n : step[<<x, k>>] = base * x
    OBVIOUS
  <1> DEFINE S == Nat
  <1>6. one \in S /\ StepsOf(step, S, n)
    BY <1>1 DEF StepsOf
  <1> HIDE DEF step, one, S
  <1>7. PICK f : IteratesOf(f, S, one, step, n)
    BY <1>6, Iterates
  <1>3. f \in [0..n -> Nat] /\ f[0] = one /\ \A k \in 1..n : f[k] = step[<<f[k - 1], k>>]
    BY <1>7 DEF S, IteratesOf
  <1>4. ASSUME NEW k \in 0..n PROVE f[k] = IF k = 0 THEN 1 ELSE base * f[k - 1]
    <2>1. CASE k = 0
      BY <1>3, <2>1 DEF one
    <2>2. CASE k # 0
      <3>1. k - 1 \in 0..n /\ k \in 1..n /\ f[k - 1] \in Nat
        BY <1>3, <2>2
      <3> QED
        BY <1>2, <1>3, <2>2, <3>1
    <2> QED
      BY <2>1, <2>2
  <1>5. f = [k \in 0..n |-> IF k = 0 THEN 1 ELSE base * f[k - 1]]
    BY <1>3, <1>4
  <1> QED
    BY <1>3, <1>5 DEF PowersOf

LEMMA PowersAre ==
  ASSUME NEW base \in Nat, NEW n \in Nat
  PROVE  \E f : PowersOf(f, base, n) /\ Power(base, n) = f[n]
  <1> DEFINE f == CHOOSE g : g = [k \in 0..n |-> IF k = 0 THEN 1 ELSE base * g[k - 1]]
  <1>1. Power(base, n) = f[n]
    BY DEF Power
  <1>2. \E g : g = [k \in 0..n |-> IF k = 0 THEN 1 ELSE base * g[k - 1]]
    BY PowersExist DEF PowersOf
  <1>3. f = [k \in 0..n |-> IF k = 0 THEN 1 ELSE base * f[k - 1]]
    BY <1>2
  <1> HIDE DEF f
  <1> QED
    BY <1>1, <1>3 DEF PowersOf

(* The first powers of two rows are the same.                              *)
LEMMA PowersAgree ==
  ASSUME NEW base \in Nat, NEW n \in Nat, NEW m \in Nat, n <= m,
         NEW f, PowersOf(f, base, n), NEW g, PowersOf(g, base, m)
  PROVE  \A k \in 0..n : f[k] = g[k] /\ g[k] \in Nat
  <1> DEFINE T == {k \in 0..n : f[k] = g[k] /\ g[k] \in Nat}
  <1>1. /\ \A k \in 0..n : f[k] = IF k = 0 THEN 1 ELSE base * f[k - 1]
        /\ \A k \in 0..n : g[k] = IF k = 0 THEN 1 ELSE base * g[k - 1]
    <2>1. \A k \in 0..n : k \in 0..m
      OBVIOUS
    <2> QED
      BY <2>1 DEF PowersOf
  <1>2. 0 \in T
    BY <1>1
  <1>3. ASSUME NEW k \in 1..n, k - 1 \in T PROVE k \in T
    <2>1. k \in 0..n /\ k # 0 /\ f[k - 1] = g[k - 1] /\ g[k - 1] \in Nat
      BY <1>3
    <2>2. f[k] = base * f[k - 1] /\ g[k] = base * g[k - 1] /\ base * g[k - 1] \in Nat
      BY <1>1, <2>1
    <2> QED
      BY <2>1, <2>2
  <1> HIDE DEF T
  <1>4. \A k \in 0..n : k \in T
    BY <1>2, <1>3, Upwards
  <1> QED
    BY <1>4 DEF T

LEMMA PowerOfZero ==
  ASSUME NEW base \in Nat
  PROVE  Power(base, 0) = 1
  <1>1. PICK f : PowersOf(f, base, 0) /\ Power(base, 0) = f[0]
    BY PowersAre
  <1>2. f[0] = 1
    BY <1>1 DEF PowersOf
  <1> QED
    BY <1>1, <1>2

LEMMA PowerAfter ==
  ASSUME NEW base \in Nat, NEW n \in Nat
  PROVE  Power(base, n) \in Nat /\ Power(base, n + 1) = base * Power(base, n)
  <1>1. PICK f : PowersOf(f, base, n) /\ Power(base, n) = f[n]
    BY PowersAre
  <1>2. PICK g : PowersOf(g, base, n + 1) /\ Power(base, n + 1) = g[n + 1]
    BY PowersAre
  <1>3. n \in 0..n /\ n <= n + 1 /\ n + 1 \in Nat /\ n + 1 \in 0..(n + 1) /\ n + 1 # 0 /\ (n + 1) - 1 = n
    OBVIOUS
  <1>4. f[n] = g[n] /\ g[n] \in Nat
    BY <1>1, <1>2, <1>3, PowersAgree
  <1>5. g[n + 1] = base * g[n]
    BY <1>2, <1>3 DEF PowersOf
  <1> QED
    BY <1>1, <1>2, <1>4, <1>5

LEMMA PowerOfPositive ==
  ASSUME NEW base \in Nat \ {0}, NEW n \in Nat
  PROVE  Power(base, n) \in Nat \ {0}
  <1> DEFINE T == {k \in 0..n : Power(base, k) \in Nat \ {0}}
  <1>1. 0 \in T
    BY PowerOfZero
  <1>2. ASSUME NEW k \in 1..n, k - 1 \in T PROVE k \in T
    <2>1. k - 1 \in Nat /\ (k - 1) + 1 = k /\ Power(base, k - 1) \in Nat \ {0}
      BY <1>2
    <2>2. Power(base, k) = base * Power(base, k - 1)
      BY <2>1, PowerAfter
    <2>3. base * Power(base, k - 1) \in Nat \ {0}
      BY <2>1
    <2> QED
      BY <2>2, <2>3
  <1> HIDE DEF T
  <1>3. \A k \in 0..n : k \in T
    BY <1>1, <1>2, Upwards
  <1> QED
    BY <1>3 DEF T

(* A quotient of a quotient.                                               *)
ProductOf(d, a, b) == d = a * b

LEMMA Quotients ==
  ASSUME NEW x \in Nat, NEW a \in Nat \ {0}, NEW b \in Nat \ {0},
         NEW d, ProductOf(d, a, b)
  PROVE  x \div d = (x \div a) \div b
  <1> DEFINE q == x \div a
             p == q \div b
             r == x % a
             s == q % b
  <1>1. q \in Nat /\ r \in Nat /\ r < a /\ x = q * a + r
    BY Division
  <1>2. p \in Nat /\ s \in Nat /\ s < b /\ q = p * b + s
    BY <1>1, Division
  <1> HIDE DEF q, p, r, s
  <1>3. a * b \in Nat \ {0}
    OBVIOUS
  <1>4. p * (a * b) <= x
    <2>1. x = (p * b + s) * a + r
      BY <1>1, <1>2
    <2>2. (p * b + s) * a = p * (a * b) + s * a /\ s * a \in Nat /\ p * (a * b) \in Nat
      BY <1>2
    <2> QED
      BY <1>1, <2>1, <2>2
  <1>5. x < (p + 1) * (a * b)
    <2>1. q + 1 <= (p + 1) * b
      <3>1. (p + 1) * b = p * b + b /\ p * b \in Nat
        BY <1>2
      <3> QED
        BY <1>1, <1>2, <3>1
    <2>2. (p + 1) * b \in Nat /\ q + 1 \in Nat
      BY <1>1, <1>2
    <2>3. (q + 1) * a <= ((p + 1) * b) * a
      <3> DEFINE u == q + 1
                 v == (p + 1) * b
      <3>1. u \in Nat /\ v \in Nat /\ u <= v
        BY <2>1, <2>2
      <3> HIDE DEF u, v
      <3>2. u * a <= v * a
        BY <3>1, ProductGrows
      <3> QED
        BY <3>2 DEF u, v
    <2>4. x < (q + 1) * a
      BY <1>1
    <2>5. ((p + 1) * b) * a = (p + 1) * (a * b)
      BY <1>2
    <2>6. (q + 1) * a \in Nat /\ (p + 1) * (a * b) \in Nat
      BY <1>1, <1>2
    <2> QED
      BY <1>1, <2>3, <2>4, <2>5, <2>6
  <1>6. x \div (a * b) = p
    <2> DEFINE c == a * b
    <2>1. c \in Nat \ {0} /\ p * c <= x /\ x < (p + 1) * c
      BY <1>3, <1>4, <1>5
    <2> HIDE DEF c
    <2>2. x \div c = p
      BY <1>2, <2>1, QuotientIs
    <2> QED
      BY <2>2 DEF c
  <1> QED
    BY <1>3, <1>6 DEF p, q, ProductOf

-----------------------------------------------------------------------------
(* Bits.                                                                   *)
LEMMA Halves ==
  ASSUME NEW x \in Nat, NEW n \in Nat
  PROVE  /\ Power(2, n) \in Nat \ {0} /\ Power(2, n + 1) = 2 * Power(2, n)
         /\ x \div Power(2, 0) = x
         /\ x \div Power(2, n) \in Nat
         /\ x \div Power(2, n + 1) = (x \div Power(2, n)) \div 2
  <1> DEFINE two == 2
             p   == Power(two, n)
  <1>1. two \in Nat \ {0}
    OBVIOUS
  <1> HIDE DEF two
  <1>2. p \in Nat \ {0} /\ Power(two, n + 1) = two * p /\ Power(two, 0) = 1
    BY <1>1, PowerOfPositive, PowerAfter, PowerOfZero
  <1> HIDE DEF p
  <1>3. x \div p \in Nat
    BY <1>2
  <1> DEFINE d == two * p
  <1>4. ProductOf(d, p, two)
    BY <1>1, <1>2 DEF ProductOf
  <1> HIDE DEF d
  <1>5. x \div d = (x \div p) \div two
    BY <1>1, <1>2, <1>4, Quotients
  <1>6. x \div (two * p) = (x \div p) \div two
    BY <1>5 DEF d
  <1>7. x \div 1 = x
    OBVIOUS
  <1>8. /\ Power(two, n) \in Nat \ {0} /\ Power(two, n + 1) = two * Power(two, n)
        /\ x \div Power(two, 0) = x
        /\ x \div Power(two, n) \in Nat
        /\ x \div Power(two, n + 1) = (x \div Power(two, n)) \div two
    BY <1>2, <1>3, <1>6, <1>7 DEF p
  <1> QED
    BY <1>8 DEF two

LEMMA BitType ==
  ASSUME NEW numbers \in Seq(Nat), NEW bits \in Nat \ {0}, NEW i \in Nat
  PROVE  BitOf(numbers, bits, i) \in {0, 1}
  <1> DEFINE n == i \div bits
             m == bits - 1 - (i % bits)
  <1>1. n \in Nat /\ m \in Nat
    <2>1. i % bits \in Nat /\ i % bits < bits /\ i \div bits \in Nat
      BY Division
    <2> QED
      BY <2>1
  <1>2. BitOf(numbers, bits, i) = IF n >= Len(numbers) THEN 0 ELSE (numbers[n + 1] \div Power(2, m)) % 2
    BY DEF BitOf
  <1> HIDE DEF n, m
  <1>3. ASSUME ~(n >= Len(numbers)) PROVE (numbers[n + 1] \div Power(2, m)) % 2 \in {0, 1}
    <2>1. n + 1 \in 1..Len(numbers)
      BY <1>1, <1>3
    <2>2. numbers[n + 1] \in Nat
      BY <2>1
    <2>3. numbers[n + 1] \div Power(2, m) \in Nat
      BY <1>1, <2>2, Halves
    <2> QED
      BY <2>3
  <1> QED
    BY <1>2, <1>3

(* The bits that make up a number, the highest first.                      *)
BitsMake(h, b, to) ==
  /\ h \in [0..to -> Nat] /\ h[0] = 0
  /\ \A i \in 1..to : b[i] \in {0, 1} /\ h[i] = 2 * h[i - 1] + b[i]

LEMMA RegroupedIs ==
  ASSUME NEW numbers \in Seq(Nat), NEW from \in Nat \ {0}, NEW to \in Nat \ {0}, NEW k \in Nat
  PROVE  \E h : /\ BitsMake(h, [i \in 1..to |-> BitOf(numbers, from, k * to + (i - 1))], to)
                /\ Regrouped(numbers, from, to, k) = h[to]
  <1> DEFINE b == [i \in 1..to |-> BitOf(numbers, from, k * to + (i - 1))]
             Made(h) == h = [i \in 0..to |->
                               IF i = 0 THEN 0 ELSE 2 * h[i - 1] + BitOf(numbers, from, k * to + (i - 1))]
             high == CHOOSE h : Made(h)
             S    == Nat
             step == [p \in Nat \X (1..to) |-> 2 * p[1] + b[p[2]]]
             zero == 0
  <1>1. \A i \in 1..to : b[i] \in {0, 1} /\ b[i] = BitOf(numbers, from, k * to + (i - 1))
    <2>1. ASSUME NEW i \in 1..to PROVE BitOf(numbers, from, k * to + (i - 1)) \in {0, 1}
      <3> DEFINE j == k * to + (i - 1)
      <3>1. j \in Nat
        <4>1. k * to \in Nat /\ i - 1 \in Nat
          OBVIOUS
        <4> QED
          BY <4>1
      <3> HIDE DEF j
      <3>2. BitOf(numbers, from, j) \in {0, 1}
        BY <3>1, BitType
      <3> QED
        BY <3>2 DEF j
    <2> QED
      BY <2>1
  <1>2. Regrouped(numbers, from, to, k) = high[to]
    BY DEF Regrouped
  <1> HIDE DEF b
  <1>3. \A x \in Nat, i \in 1..to : step[<<x, i>>] = 2 * x + b[i] /\ 2 * x + b[i] \in Nat
    <2>1. ASSUME NEW x \in Nat, NEW i \in 1..to PROVE step[<<x, i>>] = 2 * x + b[i]
      OBVIOUS
    <2>2. ASSUME NEW x \in Nat, NEW i \in 1..to PROVE 2 * x + b[i] \in Nat
      <3>1. b[i] \in {0, 1}
        BY <1>1
      <3> QED
        BY <3>1
    <2> HIDE DEF step
    <2> QED
      BY <2>1, <2>2
  <1>4. zero \in S /\ StepsOf(step, S, to)
    BY <1>3 DEF StepsOf
  <1> HIDE DEF S, step, zero
  <1>5. PICK f : IteratesOf(f, S, zero, step, to)
    BY <1>4, Iterates
  <1>6. f \in [0..to -> Nat] /\ f[0] = 0 /\ \A i \in 1..to : f[i] = step[<<f[i - 1], i>>]
    BY <1>5 DEF IteratesOf, S, zero
  <1>7. ASSUME NEW i \in 0..to
        PROVE  f[i] = IF i = 0 THEN 0 ELSE 2 * f[i - 1] + BitOf(numbers, from, k * to + (i - 1))
    <2>1. CASE i = 0
      BY <1>6, <2>1
    <2>2. CASE i # 0
      <3>1. i \in 1..to /\ i - 1 \in 0..to /\ f[i - 1] \in Nat
        BY <1>6, <2>2
      <3>2. f[i] = 2 * f[i - 1] + b[i] /\ b[i] = BitOf(numbers, from, k * to + (i - 1))
        BY <1>1, <1>3, <1>6, <3>1
      <3> QED
        BY <2>2, <3>2
    <2> QED
      BY <2>1, <2>2
  <1>8. Made(f)
    BY <1>6, <1>7
  <1>9. Made(high)
    <2> HIDE DEF Made
    <2> QED
      BY <1>8
  <1> HIDE DEF high
  <1>10. \A i \in 0..to :
           high[i] = IF i = 0 THEN 0 ELSE 2 * high[i - 1] + BitOf(numbers, from, k * to + (i - 1))
    BY <1>9
  <1>11. \A i \in 1..to : high[i] = 2 * high[i - 1] + b[i]
    <2>1. \A i \in 1..to : i \in 0..to /\ i # 0
      OBVIOUS
    <2> QED
      BY <1>1, <1>10, <2>1
  <1>12. \A i \in 0..to : high[i] \in Nat
    <2> DEFINE T == {i \in 0..to : high[i] \in Nat}
    <2>1. 0 \in T
      BY <1>10
    <2>2. ASSUME NEW i \in 1..to, i - 1 \in T PROVE i \in T
      <3>1. high[i - 1] \in Nat /\ i \in 0..to /\ b[i] \in {0, 1}
        BY <1>1, <2>2
      <3> QED
        BY <1>11, <3>1
    <2> HIDE DEF T
    <2>3. \A i \in 0..to : i \in T
      BY <2>1, <2>2, Upwards
    <2> QED
      BY <2>3 DEF T
  <1>13. high \in [0..to -> Nat] /\ high[0] = 0
    BY <1>9, <1>10, <1>12
  <1>14. BitsMake(high, b, to)
    BY <1>1, <1>11, <1>13 DEF BitsMake
  <1> QED
    BY <1>2, <1>14 DEF b

(* What was made of bits has them, and what is made of the bits of a       *)
(* number is that number.                                                  *)
LEMMA BitsOfMade ==
  ASSUME NEW to \in Nat, NEW h, NEW b, BitsMake(h, b, to)
  PROVE  /\ h[to] \in Nat /\ h[to] < Power(2, to)
         /\ \A i \in 1..to : (h[to] \div Power(2, to - i)) % 2 = b[i]
  <1>1. /\ h \in [0..to -> Nat] /\ h[0] = 0
        /\ \A i \in 1..to : b[i] \in {0, 1} /\ h[i] = 2 * h[i - 1] + b[i]
        /\ \A i \in 0..to : h[i] \in Nat
    BY DEF BitsMake
  <1>2. \A d \in 0..to : h[to] \div Power(2, d) = h[to - d]
    <2> DEFINE T == {d \in 0..to : h[to] \div Power(2, d) = h[to - d]}
    <2>1. 0 \in T
      <3> DEFINE x == h[to]
      <3>1. x \in Nat /\ to - 0 = to /\ 0 \in 0..to /\ 0 \in Nat
        BY <1>1
      <3> HIDE DEF x
      <3>2. x \div Power(2, 0) = x
        BY <3>1, Halves
      <3> QED
        BY <3>1, <3>2 DEF x
    <2>2. ASSUME NEW d \in 1..to, d - 1 \in T PROVE d \in T
      <3> DEFINE n == d - 1
                 i == to - n
      <3>1. n \in Nat /\ d = n + 1 /\ i \in 1..to /\ i - 1 = to - d /\ i - 1 \in 0..to
        OBVIOUS
      <3>2. h[to] \div Power(2, n) = h[i]
        BY <2>2
      <3> HIDE DEF n, i
      <3>3. h[to] \div Power(2, n + 1) = h[i] \div 2
        <4> DEFINE x == h[to]
        <4>1. x \in Nat /\ n \in Nat /\ x \div Power(2, n) = h[i]
          BY <1>1, <3>1, <3>2
        <4> HIDE DEF x
        <4>2. x \div Power(2, n + 1) = (x \div Power(2, n)) \div 2
          BY <4>1, Halves
        <4> QED
          BY <4>1, <4>2 DEF x
      <3>4. h[i] \div 2 = h[i - 1]
        <4>1. h[i - 1] \in Nat /\ h[i] = 2 * h[i - 1] + b[i] /\ b[i] \in {0, 1}
          BY <1>1, <3>1
        <4> QED
          BY <4>1
      <3>5. d \in 0..to /\ h[to] \div Power(2, d) = h[to - d]
        BY <3>1, <3>3, <3>4
      <3> QED
        BY <3>5
    <2> HIDE DEF T
    <2>3. \A d \in 0..to : d \in T
      BY <2>1, <2>2, Upwards
    <2> QED
      BY <2>3 DEF T
  <1>3. ASSUME NEW i \in 1..to PROVE (h[to] \div Power(2, to - i)) % 2 = b[i]
    <2>1. to - i \in 0..to /\ to - (to - i) = i /\ i - 1 \in 0..to
      OBVIOUS
    <2>2. h[to] \div Power(2, to - i) = h[i]
      BY <1>2, <2>1
    <2>3. h[i - 1] \in Nat /\ h[i] = 2 * h[i - 1] + b[i] /\ b[i] \in {0, 1}
      BY <1>1, <2>1
    <2>4. h[i] % 2 = b[i]
      BY <2>3
    <2> QED
      BY <2>2, <2>4
  <1>4. h[to] < Power(2, to)
    <2>1. to \in 0..to /\ to - to = 0
      OBVIOUS
    <2>2. h[to] \div Power(2, to) = 0
      BY <1>1, <1>2, <2>1
    <2>3. Power(2, to) \in Nat \ {0} /\ h[to] \in Nat
      BY <1>1, Halves
    <2> DEFINE p == Power(2, to)
               x == h[to]
    <2>4. p \in Nat \ {0} /\ x \in Nat /\ x \div p = 0
      BY <2>2, <2>3
    <2> HIDE DEF p, x
    <2>5. x = (x \div p) * p + (x % p) /\ x % p < p
      BY <2>4, Division
    <2> QED
      BY <2>4, <2>5 DEF p, x
  <1> QED
    BY <1>1, <1>3, <1>4

LEMMA MadeOfBits ==
  ASSUME NEW w \in Nat, NEW v \in Nat, v < Power(2, w), NEW h, NEW b, BitsMake(h, b, w),
         \A i \in 1..w : b[i] = (v \div Power(2, w - i)) % 2
  PROVE  h[w] = v
  <1>1. /\ h \in [0..w -> Nat] /\ h[0] = 0
        /\ \A i \in 1..w : h[i] = 2 * h[i - 1] + b[i]
    BY DEF BitsMake
  <1> DEFINE T == {i \in 0..w : h[i] = v \div Power(2, w - i)}
  <1>2. 0 \in T
    <2> DEFINE p == Power(2, w)
    <2>1. p \in Nat \ {0} /\ v < p
      BY Halves
    <2> HIDE DEF p
    <2>2. v \div p = 0
      BY <2>1
    <2>3. w - 0 = w
      OBVIOUS
    <2> QED
      BY <1>1, <2>2, <2>3 DEF p
  <1>3. ASSUME NEW i \in 1..w, i - 1 \in T PROVE i \in T
    <2> DEFINE n == w - i
               q == v \div Power(2, n)
    <2>1. n \in Nat /\ n + 1 = w - (i - 1) /\ i \in 0..w
      OBVIOUS
    <2>2. h[i - 1] = v \div Power(2, n + 1)
      BY <1>3, <2>1
    <2> HIDE DEF n
    <2>3. v \div Power(2, n + 1) = q \div 2 /\ q \in Nat
      BY <2>1, Halves
    <2>4. b[i] = q % 2 /\ h[i] = 2 * h[i - 1] + b[i]
      BY <1>1 DEF n
    <2> HIDE DEF q
    <2>5. 2 * (q \div 2) + (q % 2) = q
      BY <2>3
    <2>6. h[i] = q
      BY <2>2, <2>3, <2>4, <2>5
    <2> QED
      BY <2>1, <2>6 DEF q, n
  <1> HIDE DEF T
  <1>4. \A i \in 0..w : i \in T
    BY <1>2, <1>3, Upwards
  <1>5. w \in T
    BY <1>4
  <1>6. w - w = 0
    OBVIOUS
  <1> QED
    BY <1>5, <1>6, Halves DEF T

(* A bit is one of the number it lies in.                                  *)
LEMMA BitAt ==
  ASSUME NEW numbers \in Seq(Nat), NEW bits \in Nat \ {0}, NEW n \in Nat, n < Len(numbers), NEW j \in 1..bits
  PROVE  BitOf(numbers, bits, n * bits + (j - 1)) = (numbers[n + 1] \div Power(2, bits - j)) % 2
  <1> DEFINE i == n * bits + (j - 1)
             m == n * bits
  <1>1. m \in Nat /\ i = m + (j - 1) /\ i \in Nat /\ (n + 1) * bits = m + bits
    OBVIOUS
  <1> HIDE DEF m
  <1>2. m <= i /\ i < m + bits /\ i - m = j - 1
    BY <1>1
  <1> HIDE DEF i
  <1>3. i \div bits = n
    BY <1>1, <1>2, QuotientIs DEF m
  <1>4. i % bits = j - 1
    <2>1. i = (i \div bits) * bits + (i % bits) /\ i % bits \in Nat
      BY <1>1, Division
    <2> QED
      BY <1>1, <1>2, <1>3, <2>1 DEF m
  <1>5. bits - 1 - (j - 1) = bits - j
    OBVIOUS
  <1>6. ~(n >= Len(numbers))
    OBVIOUS
  <1>7. BitOf(numbers, bits, i) = (numbers[n + 1] \div Power(2, bits - 1 - (j - 1))) % 2
    BY <1>3, <1>4, <1>6 DEF BitOf
  <1> QED
    BY <1>5, <1>7 DEF i

LEMMA RegroupedType ==
  ASSUME NEW numbers \in Seq(Nat), NEW from \in Nat \ {0}, NEW to \in Nat \ {0}, NEW k \in Nat
  PROVE  Regrouped(numbers, from, to, k) \in Nat /\ Regrouped(numbers, from, to, k) < Power(2, to)
  <1> DEFINE b == [i \in 1..to |-> BitOf(numbers, from, k * to + (i - 1))]
  <1>1. PICK h : BitsMake(h, b, to) /\ Regrouped(numbers, from, to, k) = h[to]
    BY RegroupedIs
  <1> HIDE DEF b
  <1> QED
    BY <1>1, BitsOfMade

(* The bits of the numbers that bytes were regrouped to are those of the   *)
(* bytes.                                                                  *)
RegroupedTo(values, bytes, w, m) ==
  m <= Len(values) /\ \A k \in 1..m : values[k] = Regrouped(bytes, 8, w, k - 1)

InFirst(q, m, w) == q < m * w

LEMMA SameBits ==
  ASSUME NEW bytes \in Seq(Nat), NEW w \in Nat \ {0}, NEW m \in Nat, NEW values \in Seq(Nat),
         RegroupedTo(values, bytes, w, m), NEW q \in Nat, InFirst(q, m, w)
  PROVE  BitOf(values, w, q) = BitOf(bytes, 8, q)
  <1> DEFINE k == q \div w
             r == q % w
             b == [i \in 1..w |-> BitOf(bytes, 8, k * w + (i - 1))]
             eight == 8
  <1>1. k \in Nat /\ r \in Nat /\ r < w /\ q = k * w + r
    BY Division
  <1> HIDE DEF k, r
  <1>2. k < m
    <2>1. CASE m <= k
      <3> DEFINE a == k * w
                 c == m * w
      <3>1. c <= a /\ c \in Nat /\ a \in Nat
        BY <1>1, <2>1, ProductGrows
      <3>2. q = a + r /\ q < c
        BY <1>1 DEF InFirst
      <3> HIDE DEF a, c
      <3> QED
        BY <1>1, <3>1, <3>2
    <2> QED
      BY <1>1, <2>1
  <1>3. r + 1 \in 1..w /\ k + 1 \in 1..m /\ k < Len(values) /\ q = k * w + ((r + 1) - 1)
    BY <1>1, <1>2 DEF RegroupedTo
  <1>4. values[k + 1] = Regrouped(bytes, eight, w, k)
    BY <1>1, <1>3 DEF RegroupedTo
  <1>5. eight \in Nat \ {0}
    OBVIOUS
  <1> HIDE DEF eight
  <1>6. PICK h : /\ BitsMake(h, [i \in 1..w |-> BitOf(bytes, eight, k * w + (i - 1))], w)
                 /\ Regrouped(bytes, eight, w, k) = h[w]
    BY <1>1, <1>5, RegroupedIs, ZenonT(30)
  <1>7. BitsMake(h, b, w) /\ values[k + 1] = h[w]
    BY <1>4, <1>6 DEF eight
  <1>8. b[r + 1] = BitOf(bytes, 8, q)
    BY <1>3
  <1> HIDE DEF b
  <1> DEFINE i == r + 1
  <1>9. i \in 1..w /\ q = k * w + (i - 1) /\ b[i] = BitOf(bytes, 8, q)
    BY <1>3, <1>8
  <1> HIDE DEF i
  <1>10. (h[w] \div Power(2, w - i)) % 2 = b[i]
    BY <1>7, <1>9, BitsOfMade
  <1>11. BitOf(values, w, k * w + (i - 1)) = (values[k + 1] \div Power(2, w - i)) % 2
    BY <1>1, <1>3, <1>9, BitAt
  <1> QED
    BY <1>7, <1>9, <1>10, <1>11

(* And so they are regrouped to the bytes again.                           *)
LEMMA BytesComeBack ==
  ASSUME NEW bytes \in Seq(Nat), NEW w \in Nat \ {0}, NEW m \in Nat, NEW values \in Seq(Nat),
         RegroupedTo(values, bytes, w, m),
         NEW j \in 1..Len(bytes), bytes[j] < Power(2, 8), j * 8 <= m * w
  PROVE  Regrouped(values, w, 8, j - 1) = bytes[j]
  <1> DEFINE eight == 8
             n == j - 1
             b == [i \in 1..eight |-> BitOf(values, w, n * eight + (i - 1))]
             v == bytes[j]
  <1>1. n \in Nat /\ n < Len(bytes) /\ n + 1 = j /\ v \in Nat /\ v < Power(2, eight) /\ eight \in Nat \ {0}
    OBVIOUS
  <1>2. ASSUME NEW i \in 1..eight PROVE b[i] = (v \div Power(2, eight - i)) % 2
    <2> DEFINE q == n * 8 + (i - 1)
    <2>1. q \in Nat /\ InFirst(q, m, w)
      <3>1. m * w \in Nat
        OBVIOUS
      <3> QED
        BY <3>1 DEF InFirst
    <2>2. b[i] = BitOf(values, w, q)
      OBVIOUS
    <2>3. BitOf(bytes, 8, q) = (v \div Power(2, 8 - i)) % 2
      <3>1. bytes \in Seq(Nat) /\ eight \in Nat \ {0} /\ n \in Nat /\ n < Len(bytes) /\ i \in 1..eight
        BY <1>1
      <3>2. q = n * eight + (i - 1) /\ v = bytes[n + 1]
        BY <1>1
      <3> HIDE DEF eight, n, v, q
      <3>3. BitOf(bytes, eight, n * eight + (i - 1)) = (bytes[n + 1] \div Power(2, eight - i)) % 2
        BY <3>1, BitAt
      <3> QED
        BY <3>2, <3>3 DEF eight
    <2> HIDE DEF b, q
    <2>4. BitOf(values, w, q) = BitOf(bytes, 8, q)
      BY <2>1, SameBits
    <2> QED
      BY <2>2, <2>3, <2>4
  <1>3. Regrouped(values, w, 8, j - 1) = Regrouped(values, w, eight, n)
    OBVIOUS
  <1> HIDE DEF eight, n, v
  <1>4. PICK h : BitsMake(h, b, eight) /\ Regrouped(values, w, eight, n) = h[eight]
    BY <1>1, RegroupedIs
  <1> HIDE DEF b
  <1>5. h[eight] = v
    BY <1>1, <1>2, <1>4, MadeOfBits
  <1> QED
    BY <1>3, <1>4, <1>5 DEF v

-----------------------------------------------------------------------------
(* Base64 and base32.                                                      *)
LEMMA TwoPowers == Power(2, 5) = 32 /\ Power(2, 6) = 64 /\ Power(2, 8) = 256
  <1> DEFINE two == 2
  <1>1. two \in Nat
    OBVIOUS
  <1>2. /\ 0 + 1 = 1 /\ 1 + 1 = 2 /\ 2 + 1 = 3 /\ 3 + 1 = 4
        /\ 4 + 1 = 5 /\ 5 + 1 = 6 /\ 6 + 1 = 7 /\ 7 + 1 = 8
    OBVIOUS
  <1> HIDE DEF two
  <1>3. Power(two, 0) = 1
    BY <1>1, PowerOfZero
  <1>4. \A n \in Nat : Power(two, n) \in Nat /\ Power(two, n + 1) = two * Power(two, n)
    BY <1>1, PowerAfter
  <1>5. Power(two, 1) = two * 1 /\ Power(two, 2) = two * Power(two, 1) /\ Power(two, 3) = two * Power(two, 2)
    BY <1>2, <1>3, <1>4
  <1>6. Power(two, 4) = two * Power(two, 3) /\ Power(two, 5) = two * Power(two, 4)
    BY <1>2, <1>4
  <1>7. /\ Power(two, 6) = two * Power(two, 5) /\ Power(two, 7) = two * Power(two, 6)
        /\ Power(two, 8) = two * Power(two, 7)
    BY <1>2, <1>4
  <1>8. Power(2, 3) = 8 /\ Power(2, 5) = 32
    BY <1>5, <1>6 DEF two
  <1> QED
    BY <1>7, <1>8 DEF two

Sextets  == [bits |-> 6, bytes |-> 3, digits |-> 4, padding |-> <<2, 1, 0>>]
Quintets == [bits |-> 5, bytes |-> 5, digits |-> 8, padding |-> <<6, 4, 3, 1, 0>>]

LEMMA SchemeIs ==
  /\ Scheme = Sextets \/ Scheme = Quintets
  /\ Scheme.bits \in Nat \ {0} /\ Scheme.bytes \in Nat \ {0} /\ Scheme.digits \in Nat \ {0}
  /\ Power(2, Scheme.bits) <= Pad /\ Power(2, Scheme.bits) \in Nat
  BY TwoPowers DEF Scheme, Sextets, Quintets, Pad

(* The digits of a group hold its bytes; a whole group is not padded.      *)
LEMMA PaddingOf ==
  ASSUME NEW n \in 1..Scheme.bytes
  PROVE  /\ Scheme.padding[n] \in Nat
         /\ Scheme.digits - Scheme.padding[n] \in 2..Scheme.digits
         /\ n * 8 <= (Scheme.digits - Scheme.padding[n]) * Scheme.bits
         /\ n = Scheme.bytes => Scheme.padding[n] = 0
         /\ Scheme.digits = 4 => Scheme.padding[n] = 3 - n
         /\ Scheme.digits = 8 => Scheme.padding[n] = (<<6, 4, 3, 1, 0>>)[n]
  <1>1. CASE Scheme = Sextets
    <2>1. n \in {1, 2, 3} /\ Scheme.digits = 4 /\ Scheme.bits = 6 /\ Scheme.bytes = 3
      BY <1>1 DEF Sextets
    <2>2. Scheme.padding = <<2, 1, 0>>
      BY <1>1 DEF Sextets
    <2>3. CASE n = 1
      BY <2>1, <2>2, <2>3
    <2>4. CASE n = 2
      BY <2>1, <2>2, <2>4
    <2>5. CASE n = 3
      BY <2>1, <2>2, <2>5
    <2> QED
      BY <2>1, <2>3, <2>4, <2>5
  <1>2. CASE Scheme = Quintets
    <2>1. n \in {1, 2, 3, 4, 5} /\ Scheme.digits = 8 /\ Scheme.bits = 5 /\ Scheme.bytes = 5
      BY <1>2 DEF Quintets
    <2>2. Scheme.padding = <<6, 4, 3, 1, 0>>
      BY <1>2 DEF Quintets
    <2>3. CASE n = 1
      BY <2>1, <2>2, <2>3
    <2>4. CASE n = 2
      BY <2>1, <2>2, <2>4
    <2>5. CASE n = 3
      BY <2>1, <2>2, <2>5
    <2>6. CASE n = 4
      BY <2>1, <2>2, <2>6
    <2>7. CASE n = 5
      BY <2>1, <2>2, <2>7
    <2> QED
      BY <2>1, <2>3, <2>4, <2>5, <2>6, <2>7
  <1> QED
    BY <1>1, <1>2, SchemeIs

LEMMA BytesAre ==
  ASSUME NEW bytes \in Seq(Octets)
  PROVE  bytes \in Seq(Nat) /\ Len(bytes) \in Nat /\ \A j \in 1..Len(bytes) : bytes[j] < Power(2, 8)
  <1>1. Len(bytes) \in Nat /\ DOMAIN bytes = 1..Len(bytes) /\ \A j \in 1..Len(bytes) : bytes[j] \in Octets
    OBVIOUS
  <1>2. \A x \in Octets : x \in Nat /\ x < 256
    BY DEF Octets
  <1>3. bytes = [j \in 1..Len(bytes) |-> bytes[j]]
    BY <1>1
  <1>4. bytes \in [1..Len(bytes) -> Nat]
    BY <1>1, <1>2, <1>3
  <1> QED
    BY <1>1, <1>2, <1>4, TwoPowers

LEMMA EncodedIs ==
  ASSUME NEW bytes \in Seq(Octets), Len(bytes) \in 1..Scheme.bytes
  PROVE  /\ EncodedGroup(bytes) \in Seq(Nat) /\ Len(EncodedGroup(bytes)) = Scheme.digits
         /\ \A k \in 1..Scheme.digits :
              /\ k <= Scheme.digits - Scheme.padding[Len(bytes)] =>
                   /\ EncodedGroup(bytes)[k] = Regrouped(bytes, 8, Scheme.bits, k - 1)
                   /\ EncodedGroup(bytes)[k] < Power(2, Scheme.bits)
                   /\ EncodedGroup(bytes)[k] # Pad
              /\ k > Scheme.digits - Scheme.padding[Len(bytes)] => EncodedGroup(bytes)[k] = Pad
  <1> DEFINE m == Scheme.digits - Scheme.padding[Len(bytes)]
             d == Scheme.digits
             w == Scheme.bits
             eight == 8
  <1>1. m \in Nat /\ m <= d /\ d \in Nat /\ w \in Nat \ {0} /\ eight \in Nat \ {0}
    BY PaddingOf, SchemeIs
  <1>2. bytes \in Seq(Nat)
    BY BytesAre
  <1>3. EncodedGroup(bytes) = [k \in 1..d |-> IF k <= m THEN Regrouped(bytes, eight, w, k - 1) ELSE Pad]
    BY DEF EncodedGroup
  <1>4. Power(2, w) \in Nat /\ Power(2, w) <= Pad /\ Pad \in Nat
    BY SchemeIs DEF Pad
  <1> HIDE DEF m, d, w, eight
  <1>5. ASSUME NEW k \in 1..d
        PROVE  Regrouped(bytes, eight, w, k - 1) \in Nat /\ Regrouped(bytes, eight, w, k - 1) < Power(2, w)
    <2> DEFINE j == k - 1
    <2>1. j \in Nat
      OBVIOUS
    <2> HIDE DEF j
    <2>2. Regrouped(bytes, eight, w, j) \in Nat /\ Regrouped(bytes, eight, w, j) < Power(2, w)
      BY <1>1, <1>2, <2>1, RegroupedType
    <2> QED
      BY <2>2 DEF j
  <1>6. EncodedGroup(bytes) \in [1..d -> Nat]
    BY <1>3, <1>4, <1>5
  <1>7. EncodedGroup(bytes) \in Seq(Nat) /\ Len(EncodedGroup(bytes)) = d
    BY <1>1, <1>6
  <1>8. ASSUME NEW k \in 1..d
        PROVE  /\ k <= m => /\ EncodedGroup(bytes)[k] = Regrouped(bytes, eight, w, k - 1)
                            /\ EncodedGroup(bytes)[k] < Power(2, w)
                            /\ EncodedGroup(bytes)[k] # Pad
               /\ k > m => EncodedGroup(bytes)[k] = Pad
    <2>1. EncodedGroup(bytes)[k] = IF k <= m THEN Regrouped(bytes, eight, w, k - 1) ELSE Pad
      BY <1>3
    <2> QED
      BY <1>1, <1>4, <1>5, <2>1
  <1> QED
    BY <1>7, <1>8 DEF m, d, w, eight

LEMMA GroupAtIs ==
  ASSUME NEW S, NEW numbers \in Seq(S), NEW first \in Nat, first < Len(numbers), NEW size \in Nat \ {0}
  PROVE  /\ GroupAt(numbers, first, size) \in Seq(S)
         /\ first + size <= Len(numbers) => Len(GroupAt(numbers, first, size)) = size
         /\ first + size > Len(numbers) => Len(GroupAt(numbers, first, size)) = Len(numbers) - first
         /\ \A k \in 1..Len(GroupAt(numbers, first, size)) :
              first + k \in 1..Len(numbers) /\ GroupAt(numbers, first, size)[k] = numbers[first + k]
  <1> DEFINE end == IF first + size <= Len(numbers) THEN first + size ELSE Len(numbers)
  <1>1. end \in Nat /\ first + 1 <= end /\ end <= Len(numbers)
    OBVIOUS
  <1>2. GroupAt(numbers, first, size) = SubSeq(numbers, first + 1, end)
    BY DEF GroupAt
  <1>3. first + size <= Len(numbers) => end - first = size
    OBVIOUS
  <1>4. first + size > Len(numbers) => end - first = Len(numbers) - first
    OBVIOUS
  <1> HIDE DEF end
  <1>5. /\ SubSeq(numbers, first + 1, end) \in Seq(S)
        /\ Len(SubSeq(numbers, first + 1, end)) = end - first
        /\ \A k \in 1..(end - first) : SubSeq(numbers, first + 1, end)[k] = numbers[first + k]
    BY <1>1
  <1> QED
    BY <1>1, <1>2, <1>3, <1>4, <1>5, SMTT(30)

LEMMA WholeGroups ==
  ASSUME NEW n \in Nat
  PROVE  /\ Groups(n) \in Nat /\ n <= Groups(n) * Scheme.bytes
         /\ Groups(n) * Scheme.bytes < n + Scheme.bytes
  <1> DEFINE b == Scheme.bytes
             x == n + (b - 1)
             q == x \div b
  <1>1. b \in Nat \ {0}
    BY SchemeIs
  <1> HIDE DEF b
  <1>2. x \in Nat
    BY <1>1
  <1>3. q \in Nat /\ x % b \in Nat /\ x % b < b /\ x = q * b + (x % b)
    <2> HIDE DEF x
    <2> QED
      BY <1>1, <1>2, Division
  <1> DEFINE p == q * b
  <1>4. p \in Nat
    BY <1>1, <1>3
  <1> HIDE DEF q
  <1>5. n <= q * b /\ q * b < n + b
    BY <1>1, <1>3, <1>4
  <1>6. Groups(n) = q
    BY DEF Groups, q, b
  <1> QED
    BY <1>3, <1>5, <1>6 DEF b

(* A group of the bytes: the last one may be short.                        *)
LEMMA GroupOf ==
  ASSUME NEW bytes \in Seq(Octets), NEW g \in Nat, g < Groups(Len(bytes)),
         NEW part, part = GroupAt(bytes, g * Scheme.bytes, Scheme.bytes)
  PROVE  /\ g * Scheme.bytes \in Nat /\ g * Scheme.bytes < Len(bytes)
         /\ part \in Seq(Octets) /\ Len(part) \in 1..Scheme.bytes
         /\ \A j \in 1..Len(part) :
              g * Scheme.bytes + j \in 1..Len(bytes) /\ part[j] = bytes[g * Scheme.bytes + j]
         /\ g + 1 < Groups(Len(bytes)) => Len(part) = Scheme.bytes
         /\ g + 1 = Groups(Len(bytes)) => Len(bytes) = g * Scheme.bytes + Len(part)
  <1> DEFINE b == Scheme.bytes
             n == Len(bytes)
             G == Groups(n)
             first == g * b
  <1>1. b \in Nat \ {0} /\ n \in Nat
    BY SchemeIs
  <1>2. G \in Nat /\ n <= G * b /\ G * b < n + b
    BY <1>1, WholeGroups
  <1>3. first \in Nat /\ (g + 1) * b = first + b /\ (g + 2) * b = first + 2 * b
    <2> HIDE DEF b
    <2> QED
      BY <1>1
  <1>4. g < G /\ part = GroupAt(bytes, first, b)
    OBVIOUS
  <1> HIDE DEF b, n, G, first
  <1>5. (g + 1) * b <= G * b /\ (g + 2 <= G => (g + 2) * b <= G * b) /\ (g + 1 = G => G * b = first + b)
    <2>1. g + 1 <= G /\ g + 1 \in Nat /\ g + 2 \in Nat
      BY <1>2, <1>4
    <2> QED
      BY <1>1, <1>2, <1>3, <2>1, ProductGrows
  <1> DEFINE all == G * b
  <1>6. all \in Int /\ first + b <= all /\ (g + 2 <= G => first + 2 * b <= all)
          /\ (g + 1 = G => all = first + b) /\ n <= all /\ all < n + b
    BY <1>1, <1>2, <1>3, <1>5
  <1> HIDE DEF all
  <1>7. first < n
    BY <1>1, <1>3, <1>6
  <1>8. /\ part \in Seq(Octets)
        /\ first + b <= n => Len(part) = b
        /\ first + b > n => Len(part) = n - first
        /\ \A k \in 1..Len(part) : first + k \in 1..n /\ part[k] = bytes[first + k]
    <2>1. first < Len(bytes)
      BY <1>7 DEF n
    <2> DEFINE S == Octets
    <2>2. bytes \in Seq(S)
      OBVIOUS
    <2> HIDE DEF S
    <2>3. /\ GroupAt(bytes, first, b) \in Seq(S)
          /\ first + b <= Len(bytes) => Len(GroupAt(bytes, first, b)) = b
          /\ first + b > Len(bytes) => Len(GroupAt(bytes, first, b)) = Len(bytes) - first
          /\ \A k \in 1..Len(GroupAt(bytes, first, b)) :
               first + k \in 1..Len(bytes) /\ GroupAt(bytes, first, b)[k] = bytes[first + k]
      BY <1>1, <1>3, <2>1, <2>2, GroupAtIs
    <2> QED
      BY <1>4, <2>3 DEF S, n
  <1>9. Len(part) \in 1..b
    BY <1>1, <1>3, <1>7, <1>8
  <1>10. g + 1 < G => Len(part) = b
    BY <1>1, <1>2, <1>3, <1>6, <1>8
  <1>11. ASSUME g + 1 = G PROVE n = first + Len(part)
    <2>1. all = first + b /\ n <= first + b
      BY <1>6, <1>11
    <2>2. CASE first + b <= n
      <3>1. n = first + b
        BY <1>1, <1>3, <2>1, <2>2
      <3>2. Len(part) = b
        BY <1>8, <2>2
      <3> QED
        BY <3>1, <3>2
    <2>3. CASE first + b > n
      BY <1>1, <1>3, <1>8, <2>3
    <2> QED
      BY <1>1, <1>3, <2>2, <2>3
  <1> QED
    BY <1>3, <1>7, <1>8, <1>9, <1>10, <1>11 DEF first, b, n, G

(* One more group.                                                         *)
LEMMA EncodesMore ==
  ASSUME NEW bytes \in Seq(Octets), NEW g \in Nat, g < Groups(Len(bytes)),
         NEW written, EncodesTo(written, bytes, g),
         NEW more, more = EncodedGroup(GroupAt(bytes, g * Scheme.bytes, Scheme.bytes))
  PROVE  EncodesTo(written \o more, bytes, g + 1)
  <1> DEFINE part == GroupAt(bytes, g * Scheme.bytes, Scheme.bytes)
             d    == Scheme.digits
             code(h) == EncodedGroup(GroupAt(bytes, h * Scheme.bytes, Scheme.bytes))
             next == written \o more
  <1>1. part \in Seq(Octets) /\ Len(part) \in 1..Scheme.bytes
    BY GroupOf
  <1>2. more \in Seq(Nat) /\ Len(more) = d
    <2> HIDE DEF part
    <2>1. EncodedGroup(part) \in Seq(Nat) /\ Len(EncodedGroup(part)) = d
      BY <1>1, EncodedIs
    <2> QED
      BY <2>1 DEF part
  <1>3. d \in Nat \ {0}
    BY SchemeIs
  <1>4. /\ written \in Seq(Nat) /\ Len(written) = g * d
        /\ \A h \in 0..(g - 1) : \A k \in 1..d : written[h * d + k] = code(h)[k]
    BY DEF EncodesTo
  <1>5. more = code(g)
    OBVIOUS
  <1> HIDE DEF part, d, code
  <1> DEFINE s == g * d
  <1>6. s \in Nat /\ (g + 1) * d = s + d
    BY <1>3
  <1>7. next \in Seq(Nat) /\ Len(next) = (g + 1) * d
    <2>1. Len(written) = s
      BY <1>4
    <2> HIDE DEF s
    <2> QED
      BY <1>2, <1>3, <1>4, <1>6, <2>1
  <1>8. ASSUME NEW h \in 0..g, NEW k \in 1..d PROVE next[h * d + k] = code(h)[k]
    <2> DEFINE p == h * d
    <2>1. CASE h = g
      <3>1. next[s + k] = more[k]
        <4>1. Len(written) = s
          BY <1>4
        <4> HIDE DEF s
        <4> QED
          BY <1>2, <1>3, <1>4, <1>6, <4>1
      <3> QED
        BY <1>5, <2>1, <3>1
    <2>2. CASE h # g
      <3>1. h \in 0..(g - 1) /\ h + 1 <= g /\ h + 1 \in Nat
        BY <2>2
      <3>2. p \in Nat /\ (h + 1) * d = p + d /\ (h + 1) * d <= s
        BY <1>3, <3>1, ProductGrows
      <3>3. written[p + k] = code(h)[k]
        BY <1>4, <3>1
      <3>4. Len(written) = s
        BY <1>4
      <3> HIDE DEF p, s
      <3>5. p + k \in 1..Len(written)
        BY <1>3, <1>6, <3>2, <3>4
      <3>6. next[p + k] = written[p + k]
        BY <1>2, <1>4, <3>5
      <3> QED
        BY <3>3, <3>6 DEF p
    <2> QED
      BY <2>1, <2>2
  <1>9. (g + 1) - 1 = g
    OBVIOUS
  <1> HIDE DEF next
  <1>10. EncodesTo(next, bytes, g + 1)
    BY <1>7, <1>8, <1>9 DEF EncodesTo, d, code
  <1> QED
    BY <1>10 DEF next

LEMMA EncodesNothing ==
  ASSUME NEW bytes
  PROVE  EncodesTo(<<>>, bytes, 0)
  BY SchemeIs DEF EncodesTo

(* While bytes are encoded, whole groups are written and nothing else.     *)
LEMMA EncodeKeeps ==
  ASSUME InvCall, InvEncode, EncodeRefused \/ EncodeGroup \/ EncodeEnd
  PROVE  InvEncode' /\ call' = call /\ call.op \in Encodes
  <1>1. call.op \in Encodes /\ call' = call /\ result = "pending"
    BY DEF EncodeRefused, EncodeGroup, EncodeEnd, Pending, Go, Return
  <1>2. Scheme' = Scheme /\ Text' = Text
    BY <1>1 DEF Scheme, Text
  <1>3. /\ \A n : Groups(n)' = Groups(n) /\ EncodedLength(n)' = EncodedLength(n)
        /\ \A written, bytes, n : EncodesTo(written, bytes, n)' <=> EncodesTo(written, bytes, n)
    BY <1>2 DEF Groups, EncodedLength, EncodesTo, EncodedGroup
  <1>4. Text \in Seq(Octets) /\ Len(Text) \in Nat /\ call.capacity \in Nat
    <2>1. call.text \in Seq(Octets) /\ call.capacity \in Nat
      BY <1>1 DEF InvCall, CodecCall
    <2> QED
      BY <2>1, BytesAre DEF Text
  <1> DEFINE G == Groups(Len(Text))
             b == Scheme.bytes
             d == Scheme.digits
  <1>5. PICK g \in 0..G : at = g * b /\ EncodesTo(output, Text, g)
    BY <1>1 DEF InvEncode
  <1>6. Len(output) <= call.capacity
    BY <1>1 DEF InvEncode
  <1>7. /\ G \in Nat /\ Len(Text) <= G * b /\ G * b < Len(Text) + b /\ b \in Nat \ {0} /\ d \in Nat \ {0}
        /\ EncodedLength(Len(Text)) = G * d
    BY <1>4, WholeGroups, SchemeIs DEF EncodedLength
  <1>8. Groups(Len(Text)') = G
    BY <1>2
  <1>9. CASE EncodeRefused
    BY <1>1, <1>6, <1>9 DEF EncodeRefused, Return, InvEncode
  <1>10. CASE EncodeGroup
    <2>1. at < Len(Text) /\ G * d <= call.capacity
      BY <1>7, <1>10 DEF EncodeGroup
    <2> DEFINE more == EncodedGroup(GroupAt(Text, g * b, b))
               next == output \o more
    <2>2. at' = at + b /\ output' = next /\ result' = "pending"
      BY <1>1, <1>5, <1>10 DEF EncodeGroup, Go, Group
    <2> HIDE DEF G, b, d
    <2>3. g < G /\ g + 1 \in 0..G /\ g \in Nat
      <3>1. CASE G <= g
        <4>1. G * b <= g * b /\ G * b \in Nat /\ g * b \in Nat
          BY <1>5, <1>7, <3>1, ProductGrows
        <4> QED
          BY <1>4, <1>5, <1>7, <2>1, <4>1
      <3> QED
        BY <1>5, <1>7, <3>1
    <2>4. EncodesTo(next, Text, g + 1)
      BY <1>4, <1>5, <2>3, EncodesMore DEF G, b
    <2>5. Len(next) <= call.capacity
      <3>1. Len(next) = (g + 1) * d
        BY <2>4 DEF EncodesTo, d
      <3>2. (g + 1) * d \in Nat /\ G * d \in Nat /\ (g + 1) * d <= G * d
        BY <1>7, <2>3, ProductGrows
      <3> QED
        BY <1>4, <2>1, <3>1, <3>2
    <2>6. at' = (g + 1) * b
      BY <1>5, <1>7, <2>2, <2>3
    <2> HIDE DEF next
    <2>7. Len(output') <= call'.capacity
      BY <1>1, <2>2, <2>5
    <2>8. EncodesTo(output, Text, g + 1)'
      <3>1. EncodesTo(next, Text, g + 1)
        BY <2>4
      <3>2. output' = next /\ Text' = Text /\ Scheme' = Scheme
        BY <1>2, <2>2
      <3> QED
        BY <3>1, <3>2 DEF EncodesTo, EncodedGroup
    <2> DEFINE k == g + 1
    <2>9. k \in 0..Groups(Len(Text))' /\ at' = k * Scheme.bytes' /\ EncodesTo(output, Text, k)'
      BY <1>2, <1>3, <2>3, <2>6, <2>8 DEF G, b
    <2> HIDE DEF k
    <2>10. \E n \in 0..Groups(Len(Text))' : at' = n * Scheme.bytes' /\ EncodesTo(output, Text, n)'
      BY <2>9
    <2> QED
      BY <1>1, <2>2, <2>7, <2>10 DEF InvEncode
  <1>11. CASE EncodeEnd
    <2>1. at >= Len(Text) /\ result' = "true" /\ output' = output
      BY <1>11 DEF EncodeEnd, Return
    <2> HIDE DEF G, b, d
    <2>2. g = G
      <3>1. CASE g + 1 <= G
        <4>1. (g + 1) * b <= G * b /\ g * b \in Nat /\ G * b \in Nat /\ (g + 1) * b = g * b + b
          BY <1>5, <1>7, <3>1, ProductGrows
        <4> QED
          BY <1>4, <1>5, <1>7, <2>1, <4>1
      <3> QED
        BY <1>5, <1>7, <3>1
    <2>3. EncodesTo(output, Text, G)'
      <3>1. EncodesTo(output, Text, G)
        BY <1>5, <2>2
      <3>2. output' = output /\ Text' = Text /\ Scheme' = Scheme /\ G' = G
        BY <1>2, <1>3, <2>1 DEF G
      <3> QED
        BY <3>1, <3>2 DEF EncodesTo, EncodedGroup
    <2> QED
      BY <1>1, <1>6, <2>1, <2>3 DEF InvEncode, G
  <1> QED
    BY <1>1, <1>9, <1>10, <1>11

LEMMA MaxIs ==
  ASSUME NEW T \in SUBSET Int, NEW x \in T, \A y \in T : x >= y
  PROVE  Max(T) = x
  <1>1. \A z \in T : (\A y \in T : z >= y) => z = x
    BY Z3
  <1> QED
    BY <1>1 DEF Max

LEMMA MaxOf ==
  ASSUME NEW c \in Nat, NEW T \in SUBSET (0..c), T # {}
  PROVE  Max(T) \in T
  <1> DEFINE R == {n \in 0..c : c - n \in T}
  <1>1. R \in SUBSET Nat /\ R # {}
    <2>1. PICK y \in T : TRUE
      OBVIOUS
    <2>2. c - y \in 0..c /\ c - (c - y) = y
      BY <2>1
    <2>3. c - y \in R
      BY <2>1, <2>2
    <2>4. \A n \in R : n \in Nat
      OBVIOUS
    <2> HIDE DEF R
    <2> QED
      BY <2>3, <2>4
  <1>2. PICK n \in R : \A k \in R : n <= k
    <2> HIDE DEF R
    <2> QED
      BY <1>1, LeastNat
  <1>3. c - n \in T /\ n \in 0..c
    BY <1>2
  <1>4. ASSUME NEW y \in T PROVE c - n >= y
    <2>1. c - y \in 0..c /\ c - (c - y) = y
      OBVIOUS
    <2>2. c - y \in R
      BY <2>1
    <2> HIDE DEF R
    <2> QED
      BY <1>2, <1>3, <2>1, <2>2
  <1> QED
    BY <1>3, <1>4 DEF Max

Looked == IF Scheme.digits = 4 THEN 2 ELSE 8

LEMMA PaddingType == Padding \in 0..Looked
  <1> DEFINE T == {n \in 0..Looked : \A i \in 1..n : Text[Len(Text) + 1 - i] = Pad}
  <1>1. Looked \in Nat
    BY DEF Looked
  <1>2. 0 \in T
    BY <1>1
  <1>3. T \in SUBSET (0..Looked)
    OBVIOUS
  <1>4. Padding = Max(T)
    BY DEF Padding, Looked
  <1> HIDE DEF T
  <1> QED
    BY <1>1, <1>2, <1>3, <1>4, MaxOf

LEMMA LastBytesType ==
  ASSUME DecodeAccepted, Text # <<>>
  PROVE  LastBytes \in 0..Scheme.bytes
  <1>1. CASE Scheme = Sextets
    <2>1. Scheme.digits = 4 /\ Scheme.bytes = 3
      BY <1>1 DEF Sextets
    <2>2. Padding \in 0..2
      BY <2>1, PaddingType DEF Looked
    <2> QED
      BY <2>1, <2>2 DEF LastBytes
  <1>2. CASE Scheme = Quintets
    <2>1. Scheme.digits = 8 /\ Scheme.bytes = 5
      BY <1>2 DEF Quintets
    <2>2. Padding \in 0..8 /\ Padding \notin {1, 2, 5, 8}
      BY <2>1, PaddingType DEF Looked, DecodeAccepted
    <2>3. Padding \in {0, 3, 4, 6, 7}
      BY <2>2
    <2>4. LastBytes = <<0, 1, 0, 2, 3, 0, 4, 5>>[8 - Padding]
      BY <2>1 DEF LastBytes
    <2>5. Padding = 0 => LastBytes = 5
      BY <2>4
    <2>6. Padding = 3 => LastBytes = 3
      BY <2>4
    <2>7. Padding = 4 => LastBytes = 2
      BY <2>4
    <2>8. Padding = 6 => LastBytes = 1
      BY <2>4
    <2>9. Padding = 7 => LastBytes = 0
      BY <2>4
    <2> QED
      BY <2>1, <2>3, <2>5, <2>6, <2>7, <2>8, <2>9
  <1> QED
    BY <1>1, <1>2, SchemeIs

(* The padding of a text that was encoded tells how long its last group    *)
(* is.                                                                     *)
LEMMA PaddingTells ==
  ASSUME NEW origin \in Seq(Octets), EncodesTo(Text, origin, Groups(Len(origin))),
         NEW g \in Nat, g + 1 = Groups(Len(origin)),
         NEW last, last = GroupAt(origin, g * Scheme.bytes, Scheme.bytes)
  PROVE  /\ Padding = Scheme.padding[Len(last)]
         /\ LastBytes = Len(last)
         /\ Scheme.digits = 8 => (Padding \in {1, 2, 5, 8} <=> Len(last) = 4)
  <1> DEFINE d == Scheme.digits
             pad == Scheme.padding[Len(last)]
             code == EncodedGroup(last)
             T == {n \in 0..Looked : \A i \in 1..n : Text[Len(Text) + 1 - i] = Pad}
             s == g * d
  <1>1. last \in Seq(Octets) /\ Len(last) \in 1..Scheme.bytes
    BY GroupOf
  <1>2. /\ d \in Nat \ {0} /\ pad \in Nat /\ d - pad \in 2..d
        /\ d = 4 => pad = 3 - Len(last)
        /\ d = 8 => pad = (<<6, 4, 3, 1, 0>>)[Len(last)]
    BY <1>1, PaddingOf, SchemeIs
  <1>3. \A k \in 1..d : (k <= d - pad => code[k] # Pad) /\ (k > d - pad => code[k] = Pad)
    BY <1>1, EncodedIs
  <1>4. /\ Len(Text) = (g + 1) * d
        /\ \A k \in 1..d : Text[g * d + k] = code[k]
    <2>1. g \in 0..(Groups(Len(origin)) - 1)
      OBVIOUS
    <2> QED
      BY <2>1 DEF EncodesTo
  <1>5. s \in Nat /\ Len(Text) = s + d /\ \A k \in 1..d : Text[s + k] = code[k]
    <2>1. s \in Nat /\ (g + 1) * d = s + d
      <3> HIDE DEF d
      <3> QED
        BY <1>2
    <2> QED
      BY <1>4, <2>1
  <1>6. pad <= Looked /\ Looked \in Nat
    <2>1. CASE Scheme = Sextets
      <3>1. d = 4
        BY <2>1 DEF Sextets
      <3> QED
        BY <1>1, <1>2, <3>1 DEF Looked
    <2>2. CASE Scheme = Quintets
      <3>1. d = 8
        BY <2>2 DEF Quintets
      <3> QED
        BY <1>2, <3>1 DEF Looked
    <2> QED
      BY <2>1, <2>2, SchemeIs
  <1> HIDE DEF d, pad, code, s
  <1>7. ASSUME NEW i \in 1..d PROVE Text[Len(Text) + 1 - i] = code[d + 1 - i]
    <2>1. d + 1 - i \in 1..d /\ Len(Text) + 1 - i = s + (d + 1 - i)
      BY <1>2, <1>5
    <2> QED
      BY <1>5, <2>1
  <1>8. pad \in T
    <2>1. ASSUME NEW i \in 1..pad PROVE Text[Len(Text) + 1 - i] = Pad
      <3>1. i \in 1..d /\ d + 1 - i \in 1..d /\ d + 1 - i > d - pad
        BY <1>2
      <3> QED
        BY <1>3, <1>7, <3>1
    <2> QED
      BY <1>2, <1>6, <2>1
  <1>9. ASSUME NEW n \in T PROVE pad >= n
    <2>1. n \in Nat /\ \A i \in 1..n : Text[Len(Text) + 1 - i] = Pad
      BY <1>6
    <2>2. CASE n > pad
      <3>1. pad + 1 \in 1..n /\ pad + 1 \in 1..d /\ d + 1 - (pad + 1) = d - pad /\ d - pad \in 1..d
        BY <1>2, <2>1, <2>2
      <3>2. Text[Len(Text) + 1 - (pad + 1)] = code[d + 1 - (pad + 1)]
        BY <1>7, <3>1
      <3>4. code[d - pad] # Pad
        BY <1>2, <1>3, <3>1
      <3>3. Text[Len(Text) + 1 - (pad + 1)] = Pad
        BY <2>1, <3>1
      <3> QED
        BY <3>1, <3>2, <3>3, <3>4
    <2> QED
      BY <1>2, <2>1, <2>2
  <1>10. Padding = pad
    <2>1. T \in SUBSET Int
      BY <1>6
    <2>2. Padding = Max(T)
      BY DEF Padding, Looked
    <2> HIDE DEF T
    <2> QED
      BY <1>8, <1>9, <2>1, <2>2, MaxIs
  <1>11. CASE Scheme = Sextets
    <2>1. d = 4 /\ Scheme.digits = 4
      BY <1>11 DEF Sextets, d
    <2>2. pad = 3 - Len(last) /\ LastBytes = 3 - pad
      BY <1>2, <1>10, <2>1 DEF LastBytes
    <2>3. LastBytes = Len(last)
      BY <1>1, <2>2
    <2> QED
      BY <1>10, <2>1, <2>3 DEF pad
  <1>12. CASE Scheme = Quintets
    <2>1. d = 8 /\ Scheme.digits = 8 /\ Scheme.bytes = 5
      BY <1>12 DEF Quintets, d
    <2> DEFINE n == Len(last)
    <2>2. n \in {1, 2, 3, 4, 5}
      BY <1>1, <2>1
    <2>3. pad = (<<6, 4, 3, 1, 0>>)[n] /\ LastBytes = (<<0, 1, 0, 2, 3, 0, 4, 5>>)[8 - pad]
      BY <1>2, <1>10, <2>1 DEF LastBytes
    <2> HIDE DEF n
    <2>9. SUFFICES LastBytes = n /\ (pad \in {1, 2, 5, 8} <=> n = 4)
      BY <1>10 DEF n, pad
    <2>4. CASE n = 1
      <3>1. pad = 6
        BY <2>3, <2>4
      <3>2. LastBytes = n
        BY <2>3, <2>4, <3>1
      <3>3. pad \in {1, 2, 5, 8} <=> n = 4
        BY <2>4, <3>1
      <3> QED
        BY <3>2, <3>3
    <2>5. CASE n = 2
      <3>1. pad = 4
        BY <2>3, <2>5
      <3>2. LastBytes = n
        BY <2>3, <2>5, <3>1
      <3>3. pad \in {1, 2, 5, 8} <=> n = 4
        BY <2>5, <3>1
      <3> QED
        BY <3>2, <3>3
    <2>6. CASE n = 3
      <3>1. pad = 3
        BY <2>3, <2>6
      <3>2. LastBytes = n
        BY <2>3, <2>6, <3>1
      <3>3. pad \in {1, 2, 5, 8} <=> n = 4
        BY <2>6, <3>1
      <3> QED
        BY <3>2, <3>3
    <2>7. CASE n = 4
      <3>1. pad = 1
        BY <2>3, <2>7
      <3>2. LastBytes = n
        BY <2>3, <2>7, <3>1
      <3>3. pad \in {1, 2, 5, 8} <=> n = 4
        BY <2>7, <3>1
      <3> QED
        BY <3>2, <3>3
    <2>8. CASE n = 5
      <3>1. pad = 0
        BY <2>3, <2>8
      <3>2. LastBytes = n
        BY <2>3, <2>8, <3>1
      <3>3. pad \in {1, 2, 5, 8} <=> n = 4
        BY <2>8, <3>1
      <3> QED
        BY <3>2, <3>3
    <2> QED
      BY <2>2, <2>4, <2>5, <2>6, <2>7, <2>8
  <1> QED
    BY <1>11, <1>12, SchemeIs

(* A group of an encoded text is valid, and decoded to the bytes it was    *)
(* made from.                                                              *)
LEMMA GroupDecodes ==
  ASSUME NEW origin \in Seq(Octets), EncodesTo(Text, origin, Groups(Len(origin))),
         NEW g \in Nat, g < Groups(Len(origin)), at = g * Scheme.digits,
         NEW part, part = GroupAt(origin, g * Scheme.bytes, Scheme.bytes)
  PROVE  /\ GroupValid(Group(Scheme.digits))
         /\ DecodedGroup(Group(Scheme.digits)) = part
  <1> DEFINE d == Scheme.digits
             w == Scheme.bits
             G == Groups(Len(origin))
             pad == Scheme.padding[Len(part)]
             m == d - pad
             code == EncodedGroup(part)
             digits == Group(d)
             s == g * d
             values == [k \in DOMAIN digits |-> IF CountsAsZero(digits[k], k) THEN 0 ELSE digits[k]]
  <1>1. part \in Seq(Octets) /\ Len(part) \in 1..Scheme.bytes /\ (g + 1 < G => Len(part) = Scheme.bytes)
    BY GroupOf
  <1>2. /\ d \in Nat \ {0} /\ w \in Nat \ {0} /\ pad \in Nat /\ m \in 2..d /\ Len(part) * 8 <= m * w
        /\ Len(part) = Scheme.bytes => pad = 0
    BY <1>1, PaddingOf, SchemeIs
  <1>3. \A k \in 1..d :
          /\ k <= m => /\ code[k] = Regrouped(part, 8, w, k - 1)
                       /\ code[k] < Power(2, w)
                       /\ code[k] # Pad
          /\ k > m => code[k] = Pad
    BY <1>1, EncodedIs
  <1>4. G \in Nat /\ g + 1 <= G
    <2>1. Len(origin) \in Nat
      OBVIOUS
    <2> QED
      BY <2>1, WholeGroups
  <1>5. /\ Text \in Seq(Nat) /\ Len(Text) = G * d /\ \A k \in 1..d : Text[s + k] = code[k]
        /\ s \in Nat /\ s + d <= Len(Text) /\ (s + d = Len(Text) <=> g + 1 = G)
    <2>1. g \in 0..(G - 1)
      BY <1>4
    <2>2. Text \in Seq(Nat) /\ Len(Text) = G * d /\ \A k \in 1..d : Text[s + k] = code[k]
      BY <2>1 DEF EncodesTo
    <2> HIDE DEF d, G, code
    <2>3. s \in Nat /\ (g + 1) * d = s + d /\ (g + 1) * d <= G * d /\ (g + 2 <= G => (g + 2) * d <= G * d)
      <3>1. (g + 1) * d = s + d /\ s \in Nat
        BY <1>2
      <3>2. (g + 1) * d <= G * d
        BY <1>2, <1>4, ProductGrows
      <3>3. g + 2 \in Nat
        OBVIOUS
      <3>4. g + 2 <= G => (g + 2) * d <= G * d
        BY <1>2, <1>4, <3>3, ProductGrows
      <3> QED
        BY <3>1, <3>2, <3>4
    <2>4. (g + 2) * d = s + 2 * d
      BY <1>2
    <2>5. CASE g + 1 = G
      <3>1. Len(Text) = s + d
        BY <2>2, <2>3, <2>5
      <3>2. s \in Nat
        BY <2>3
      <3> HIDE DEF s
      <3>3. s + d <= Len(Text) /\ s + d = Len(Text)
        BY <1>2, <3>1, <3>2
      <3> QED
        BY <2>2, <2>5, <3>2, <3>3
    <2>6. CASE g + 2 <= G
      <3> DEFINE all == G * d
      <3>1. all \in Int
        BY <1>2, <1>4
      <3>2. s + 2 * d <= all /\ Len(Text) = all /\ s \in Nat
        BY <2>2, <2>3, <2>4, <2>6
      <3> HIDE DEF all, s
      <3>3. s + d <= Len(Text) /\ s + d # Len(Text)
        BY <1>2, <3>1, <3>2, SMTT(30)
      <3>4. g + 1 # G
        BY <1>4, <2>6
      <3> QED
        BY <2>2, <3>2, <3>3, <3>4
    <2> QED
      BY <1>4, <2>5, <2>6
  <1>6. digits \in Seq(Nat) /\ Len(digits) = d /\ \A k \in 1..d : digits[k] = code[k]
    <2>1. digits = GroupAt(Text, s, d)
      BY DEF Group
    <2> HIDE DEF d, s, digits, code
    <2>2. s < Len(Text)
      BY <1>2, <1>5
    <2> DEFINE S == Nat
    <2>3. Text \in Seq(S)
      BY <1>5
    <2> HIDE DEF S
    <2>4. s \in Nat /\ d \in Nat \ {0} /\ s + d <= Len(Text)
      BY <1>2, <1>5
    <2>5. GroupAt(Text, s, d) \in Seq(S) /\ Len(GroupAt(Text, s, d)) = d
      BY ONLY <2>2, <2>3, <2>4, GroupAtIs
    <2>6. \A k \in 1..Len(GroupAt(Text, s, d)) : GroupAt(Text, s, d)[k] = Text[s + k]
      BY ONLY <2>2, <2>3, <2>4, GroupAtIs
    <2> QED
      BY <1>5, <2>1, <2>5, <2>6 DEF S
  <1>7. InLastGroup <=> g + 1 = G
    BY <1>5 DEF InLastGroup
  <1>8. g + 1 = G => Padding = pad /\ LastBytes = Len(part)
    BY PaddingTells
  <1>9. Emitted = Len(part)
    BY <1>1, <1>4, <1>7, <1>8 DEF Emitted
  <1>10. ASSUME NEW k \in 1..d PROVE CountsAsZero(digits[k], k) <=> k > m
    <2>1. CASE Scheme = Sextets
      <3>1. d = 4 /\ (CountsAsZero(digits[k], k) <=> k > 2 /\ digits[k] = Pad)
        BY <2>1 DEF Sextets, CountsAsZero
      <3> HIDE DEF d, m, digits, code, pad
      <3> QED
        BY <1>2, <1>3, <1>6, <3>1
    <2>2. CASE Scheme = Quintets
      <3>1. d = 8 /\ (CountsAsZero(digits[k], k) <=> InLastGroup /\ k > 8 - Padding)
        BY <2>2 DEF Quintets, CountsAsZero
      <3>2. m = 8 - pad
        BY <3>1
      <3> HIDE DEF d, m, digits, code, pad
      <3>3. CASE g + 1 = G
        BY <1>7, <1>8, <3>1, <3>2, <3>3
      <3>4. CASE g + 1 # G
        <4>1. ~InLastGroup /\ pad = 0 /\ ~(k > m)
          BY <1>1, <1>2, <1>4, <1>7, <3>1, <3>2, <3>4
        <4> QED
          BY <3>1, <4>1
      <3> QED
        BY <3>3, <3>4
    <2> QED
      BY <2>1, <2>2, SchemeIs
  <1>11. DOMAIN digits = 1..d
    BY <1>6
  <1> HIDE DEF digits, code, m, pad, d, w
  <1>12. GroupValid(digits)
    <2> SUFFICES ASSUME NEW k \in 1..d PROVE CountsAsZero(digits[k], k) \/ digits[k] < Power(2, Scheme.bits)
      BY <1>11 DEF GroupValid
    <2>1. k > m \/ k <= m
      BY <1>2
    <2> QED
      BY <1>3, <1>6, <1>10, <2>1 DEF w
  <1>13. values \in Seq(Nat) /\ Len(values) = d /\ RegroupedTo(values, part, w, m)
    <2>1. \A k \in 1..d : values[k] = IF k > m THEN 0 ELSE code[k]
      BY <1>6, <1>10, <1>11
    <2>2. values = [k \in 1..d |-> values[k]]
      BY <1>11
    <2>3. DOMAIN values = 1..d
      BY <1>11
    <2> HIDE DEF values
    <2>4. \A k \in 1..d : values[k] \in Nat
      BY <1>6, <2>1
    <2>5. values \in [1..d -> Nat]
      BY <2>2, <2>4
    <2>6. values \in Seq(Nat) /\ Len(values) = d
      BY <1>2, <2>5
    <2>7. ASSUME NEW k \in 1..m PROVE values[k] = Regrouped(part, 8, w, k - 1)
      <3>1. k \in 1..d /\ k <= m /\ ~(k > m)
        BY <1>2
      <3> QED
        BY <1>3, <2>1, <3>1
    <2> QED
      BY <1>2, <2>6, <2>7 DEF RegroupedTo
  <1>14. DecodedGroup(digits) = [j \in 1..Len(part) |-> Regrouped(values, w, 8, j - 1)]
    BY <1>9 DEF DecodedGroup, w
  <1>15. part \in Seq(Nat) /\ \A j \in 1..Len(part) : part[j] < Power(2, 8)
    BY <1>1, BytesAre
  <1> HIDE DEF values
  <1>16. ASSUME NEW j \in 1..Len(part) PROVE Regrouped(values, w, 8, j - 1) = part[j]
    <2>1. j * 8 <= m * w
      <3> DEFINE c == m * w
      <3>1. c \in Int /\ Len(part) * 8 <= c
        BY <1>2
      <3> HIDE DEF c
      <3>2. j * 8 <= c
        BY <1>1, <3>1
      <3> QED
        BY <3>2 DEF c
    <2> QED
      BY <1>2, <1>13, <1>15, <2>1, BytesComeBack, SMTT(30)
  <1>17. part = [j \in 1..Len(part) |-> part[j]]
    BY <1>1
  <1>18. DecodedGroup(digits) = part
    BY <1>14, <1>16, <1>17
  <1> QED
    BY <1>12, <1>18 DEF digits, d

LEMMA DecodedType ==
  ASSUME NEW digits \in Seq(Nat), Emitted \in Nat
  PROVE  DecodedGroup(digits) \in Seq(Nat) /\ Len(DecodedGroup(digits)) = Emitted
  <1> DEFINE values == [k \in DOMAIN digits |-> IF CountsAsZero(digits[k], k) THEN 0 ELSE digits[k]]
             w == Scheme.bits
             e == Emitted
             eight == 8
  <1>1. DOMAIN digits = 1..Len(digits) /\ Len(digits) \in Nat /\ \A k \in 1..Len(digits) : digits[k] \in Nat
    OBVIOUS
  <1>2. values \in [1..Len(digits) -> Nat]
    BY <1>1
  <1>3. values \in Seq(Nat) /\ w \in Nat \ {0} /\ eight \in Nat \ {0}
    BY <1>1, <1>2, SchemeIs
  <1>4. DecodedGroup(digits) = [j \in 1..e |-> Regrouped(values, w, eight, j - 1)]
    BY DEF DecodedGroup
  <1> HIDE DEF values, w, eight, e
  <1>5. ASSUME NEW j \in 1..e PROVE Regrouped(values, w, eight, j - 1) \in Nat
    <2> DEFINE n == j - 1
    <2>1. n \in Nat
      OBVIOUS
    <2> HIDE DEF n
    <2>2. Regrouped(values, w, eight, n) \in Nat
      BY <1>3, <2>1, RegroupedType
    <2> QED
      BY <2>2 DEF n
  <1>6. e \in Nat
    BY DEF e
  <1>7. DecodedGroup(digits) \in [1..e -> Nat]
    BY <1>4, <1>5
  <1> QED
    BY <1>6, <1>7 DEF e

LEMMA MoreOf ==
  ASSUME NEW S, NEW s \in Seq(S), NEW n \in Nat, n <= Len(s), NEW part \in Seq(S),
         \A j \in 1..Len(part) : n + j \in 1..Len(s) /\ part[j] = s[n + j]
  PROVE  /\ SubSeq(s, 1, n) \o part = SubSeq(s, 1, n + Len(part))
         /\ n + Len(part) <= Len(s)
  <1> DEFINE m == n + Len(part)
             t == SubSeq(s, 1, n)
             u == SubSeq(s, 1, m)
  <1>1. m \in Nat /\ m <= Len(s)
    <2>1. CASE Len(part) = 0
      BY <2>1
    <2>2. CASE Len(part) # 0
      <3>1. Len(part) \in 1..Len(part)
        BY <2>2
      <3>2. n + Len(part) \in 1..Len(s)
        BY <3>1
      <3> QED
        BY <3>2
    <2> QED
      BY <2>1, <2>2
  <1>2. t \in Seq(S) /\ Len(t) = n /\ \A i \in 1..n : t[i] = s[i]
    OBVIOUS
  <1>3. u \in Seq(S) /\ Len(u) = m /\ \A i \in 1..m : u[i] = s[i]
    BY <1>1
  <1> HIDE DEF t, u
  <1>4. /\ t \o part \in Seq(S) /\ Len(t \o part) = n + Len(part)
        /\ \A i \in 1..(n + Len(part)) : (t \o part)[i] = IF i <= n THEN t[i] ELSE part[i - n]
    <2>1. /\ t \o part \in Seq(S) /\ Len(t \o part) = Len(t) + Len(part)
          /\ \A i \in 1..(Len(t) + Len(part)) :
               (t \o part)[i] = IF i <= Len(t) THEN t[i] ELSE part[i - Len(t)]
      BY <1>2, ConcatProperties
    <2>2. Len(t) = n
      BY <1>2
    <2> QED
      BY <2>1, <2>2, Zenon
  <1>5. ASSUME NEW i \in 1..m PROVE (t \o part)[i] = u[i]
    <2>0. i \in Nat /\ u[i] = s[i] /\ (t \o part)[i] = IF i <= n THEN t[i] ELSE part[i - n]
      BY <1>3, <1>4
    <2>1. CASE i <= n
      <3>1. i \in 1..n
        BY <2>0, <2>1
      <3> QED
        BY <1>2, <2>0, <2>1, <3>1
    <2>2. CASE i > n
      <3>1. i - n \in 1..Len(part) /\ n + (i - n) = i
        BY <2>2
      <3>2. ~(i <= n)
        BY <2>2
      <3>3. part[i - n] = s[i]
        BY <3>1
      <3> QED
        BY <2>0, <3>2, <3>3
    <2> QED
      BY <2>0, <2>1, <2>2
  <1>6. t \o part = u
    BY <1>3, <1>4, <1>5, SMTT(30)
  <1> QED
    BY <1>1, <1>6 DEF t, u

(* A text of so many groups.                                               *)
LEMMA TextGroups ==
  ASSUME NEW n \in Nat, NEW t, Len(t) = n * Scheme.digits
  PROVE  Len(t) % Scheme.digits = 0 /\ Len(t) \div Scheme.digits = n
  <1> DEFINE d == Scheme.digits
             x == Len(t)
  <1>1. d \in Nat \ {0} /\ x = n * d
    BY SchemeIs
  <1> HIDE DEF d, x
  <1>2. n * d \in Nat /\ n * d < (n + 1) * d
    BY <1>1
  <1>3. x \in Nat /\ n * d <= x /\ x < (n + 1) * d
    BY <1>1, <1>2
  <1>4. x \div d = n
    BY <1>1, <1>3, QuotientIs
  <1>5. x % d = 0
    BY <1>1, <1>3, MultipleIs
  <1> QED
    BY <1>4, <1>5 DEF d, x

(* An encoded text is accepted with just the room for its bytes, unless    *)
(* its last group is the one of base32 that is not.                        *)
LEMMA AcceptsEncoded ==
  ASSUME NEW origin \in Seq(Octets), EncodesTo(Text, origin, Groups(Len(origin))),
         call.capacity = Len(origin)
  PROVE  DecodeAccepted \/ (Scheme.digits = 8 /\ Len(origin) % 5 = 4)
  <1> DEFINE G == Groups(Len(origin))
             n == Len(origin)
             b == Scheme.bytes
  <1>1. n \in Nat /\ G \in Nat /\ Len(Text) = G * Scheme.digits /\ Text \in Seq(Nat)
    <2>1. n \in Nat
      OBVIOUS
    <2> QED
      BY <2>1, WholeGroups DEF EncodesTo
  <1>2. Len(Text) % Scheme.digits = 0 /\ Len(Text) \div Scheme.digits = G
    BY <1>1, TextGroups
  <1>3. CASE G = 0
    <2>1. Len(Text) = 0
      BY <1>1, <1>3, SchemeIs
    <2>2. Text = <<>>
      BY <1>1, <2>1
    <2> QED
      BY <1>2, <2>2 DEF DecodeAccepted
  <1>4. CASE G # 0
    <2> DEFINE g == G - 1
               last == GroupAt(origin, g * b, b)
    <2>1. g \in Nat /\ g + 1 = G /\ g < G
      BY <1>1, <1>4
    <2> HIDE DEF g
    <2>2. Len(last) \in 1..b /\ n = g * b + Len(last)
      BY <2>1, GroupOf
    <2>3. /\ Padding = Scheme.padding[Len(last)]
          /\ LastBytes = Len(last)
          /\ Scheme.digits = 8 => (Padding \in {1, 2, 5, 8} <=> Len(last) = 4)
      BY <2>1, PaddingTells
    <2>4. (Len(Text) \div Scheme.digits - 1) * b + LastBytes = n
      BY <1>2, <2>2, <2>3 DEF g
    <2>5. CASE Scheme.digits = 8 /\ Len(last) = 4
      <3>3. b = 5
        BY <2>5, SchemeIs DEF Sextets, Quintets
      <3>1. n = g * 5 + 4
        BY <2>2, <2>5, <3>3
      <3> HIDE DEF n
      <3>2. n % 5 = 4
        BY <2>1, <3>1
      <3> QED
        BY <2>5, <3>2 DEF n
    <2>6. CASE ~(Scheme.digits = 8 /\ Len(last) = 4)
      <3>1. n <= call.capacity
        BY <1>1
      <3> HIDE DEF last, n, b
      <3>2. Scheme.digits = 8 => Padding \notin {1, 2, 5, 8}
        BY <2>3, <2>6
      <3> QED
        BY <1>2, <2>4, <3>1, <3>2 DEF DecodeAccepted, b
    <2> QED
      BY <2>5, <2>6
  <1> QED
    BY <1>3, <1>4

(* What stays the same while a text is decoded.                            *)
LEMMA SameText ==
  ASSUME call' = call
  PROVE  /\ Text' = Text /\ Scheme' = Scheme /\ Padding' = Padding /\ LastBytes' = LastBytes
         /\ DecodeAccepted' <=> DecodeAccepted
         /\ ("origin" \in DOMAIN call' /\ EncodesTo(Text, call.origin, Groups(Len(call.origin)))'
              <=> "origin" \in DOMAIN call /\ EncodesTo(Text, call.origin, Groups(Len(call.origin))))
  <1>1. Text' = Text /\ Scheme' = Scheme
    BY DEF Text, Scheme
  <1>2. Padding' = Padding
    BY <1>1 DEF Padding
  <1>3. LastBytes' = LastBytes
    BY <1>1, <1>2 DEF LastBytes
  <1>4. DecodeAccepted' <=> DecodeAccepted
    BY <1>1, <1>2, <1>3 DEF DecodeAccepted
  <1>5. EncodesTo(Text, call.origin, Groups(Len(call.origin)))'
          <=> EncodesTo(Text, call.origin, Groups(Len(call.origin)))
    BY <1>1 DEF EncodesTo, EncodedGroup, Groups
  <1> QED
    BY <1>1, <1>2, <1>3, <1>4, <1>5

(* How far a text with its origin can have been decoded.                   *)
LEMMA OriginIs ==
  ASSUME InvCall, InvDecode, call.op \in Decodes, "origin" \in DOMAIN call
  PROVE  /\ call.origin \in Seq(Octets) /\ Len(call.origin) \in Nat /\ call.capacity = Len(call.origin)
         /\ EncodesTo(Text, call.origin, Groups(Len(call.origin)))
         /\ Groups(Len(call.origin)) \in Nat
         /\ Len(Text) = Groups(Len(call.origin)) * Scheme.digits
  <1>1. call.origin \in Seq(Octets) /\ call.capacity = Len(call.origin)
    BY DEF InvCall, CodecCall
  <1>2. Len(call.origin) \in Nat
    BY <1>1
  <1>3. EncodesTo(Text, call.origin, Groups(Len(call.origin)))
    BY DEF InvDecode
  <1>4. Groups(Len(call.origin)) \in Nat
    BY <1>2, WholeGroups
  <1> QED
    BY <1>1, <1>2, <1>3, <1>4 DEF EncodesTo

LEMMA DecodeRefusedKeeps ==
  ASSUME InvCall, InvDecode, DecodeRefused
  PROVE  InvDecode' /\ CodecRoundTrip'
  <1>1. call.op \in Decodes /\ call' = call /\ output' = output /\ result' = "false" /\ ~DecodeAccepted
    BY DEF DecodeRefused, Pending, Return
  <1>2. /\ Text' = Text /\ Scheme' = Scheme
        /\ ("origin" \in DOMAIN call' /\ EncodesTo(Text, call.origin, Groups(Len(call.origin)))'
             <=> "origin" \in DOMAIN call /\ EncodesTo(Text, call.origin, Groups(Len(call.origin))))
    BY <1>1, SameText
  <1>3. InvDecode'
    BY <1>1, <1>2 DEF InvDecode
  <1>4. call.op \notin Encodes
    BY <1>1 DEF Encodes, Decodes
  <1>5. ASSUME "origin" \in DOMAIN call PROVE Scheme.digits = 8 /\ Len(call.origin) % 5 = 4
    BY <1>1, <1>5, OriginIs, AcceptsEncoded
  <1> QED
    BY <1>1, <1>2, <1>3, <1>4, <1>5 DEF CodecRoundTrip, DecodesEncoded, Returned, InvDecode

LEMMA DecodeEndKeeps ==
  ASSUME InvCall, InvDecode, DecodeEnd
  PROVE  InvDecode' /\ CodecRoundTrip'
  <1>1. /\ call.op \in Decodes /\ call' = call /\ output' = output /\ result' = "true"
        /\ at >= Len(Text) /\ result = "pending"
    BY DEF DecodeEnd, Pending, Return
  <1>2. /\ Text' = Text /\ Scheme' = Scheme
        /\ ("origin" \in DOMAIN call' /\ EncodesTo(Text, call.origin, Groups(Len(call.origin)))'
             <=> "origin" \in DOMAIN call /\ EncodesTo(Text, call.origin, Groups(Len(call.origin))))
    BY <1>1, SameText
  <1>3. InvDecode'
    BY <1>1, <1>2 DEF InvDecode
  <1>4. call.op \notin Encodes
    BY <1>1 DEF Encodes, Decodes
  <1>5. ASSUME "origin" \in DOMAIN call PROVE output = call.origin
    <2> DEFINE origin == call.origin
               G == Groups(Len(origin))
               d == Scheme.digits
    <2>1. /\ origin \in Seq(Octets) /\ Len(origin) \in Nat /\ EncodesTo(Text, origin, G)
          /\ G \in Nat /\ Len(Text) = G * d
      BY <1>1, <1>5, OriginIs
    <2>2. PICK g \in 0..Len(Text) :
            /\ at = g * d /\ at <= Len(Text)
            /\ Len(output) = IF g > 0 /\ at = Len(Text) THEN (g - 1) * Scheme.bytes + LastBytes ELSE g * Scheme.bytes
            /\ output = SubSeq(origin, 1, Len(output))
      BY <1>1, <1>5 DEF InvDecode
    <2>3. d \in Nat \ {0} /\ Scheme.bytes \in Nat \ {0}
      BY SchemeIs
    <2> HIDE DEF d, G, origin
    <2>4. g \in Nat
      BY <2>1, <2>2, <2>3
    <2>5. at = Len(Text) /\ g = G
      <3>1. g * d \in Nat /\ G * d \in Nat
        BY <2>1, <2>3, <2>4
      <3>2. g * d = G * d
        BY <1>1, <2>1, <2>2, <3>1
      <3>3. (g * d) \div d = g /\ (G * d) \div d = G
        <4>1. ASSUME NEW n \in Nat PROVE (n * d) \div d = n
          <5>1. n * d \in Nat /\ n * d < (n + 1) * d
            BY <2>3
          <5> DEFINE x == n * d
          <5>2. x \in Nat /\ n * d <= x /\ x < (n + 1) * d
            BY <5>1
          <5> HIDE DEF x
          <5>3. x \div d = n
            BY <2>3, <5>2, QuotientIs
          <5> QED
            BY <5>3 DEF x
        <4> QED
          BY <2>1, <2>4, <4>1
      <3> QED
        BY <2>1, <2>2, <3>2, <3>3
    <2>6. Len(output) = Len(origin)
      <3>1. CASE G = 0
        <4>1. Len(origin) <= G * Scheme.bytes
          BY <2>1, WholeGroups DEF G
        <4> QED
          BY <2>1, <2>2, <2>3, <2>5, <3>1, <4>1
      <3>2. CASE G # 0
        <4> DEFINE n == G - 1
                   last == GroupAt(origin, n * Scheme.bytes, Scheme.bytes)
        <4>1. n \in Nat /\ n + 1 = G /\ n < G
          BY <2>1, <3>2
        <4> HIDE DEF n
        <4>2. Len(origin) = n * Scheme.bytes + Len(last)
          BY <2>1, <4>1, GroupOf DEF G
        <4>3. LastBytes = Len(last)
          BY <2>1, <4>1, PaddingTells DEF G
        <4>4. Len(output) = n * Scheme.bytes + LastBytes
          BY <2>1, <2>2, <2>5, <3>2 DEF n
        <4> QED
          BY <4>2, <4>3, <4>4
      <3> QED
        BY <3>1, <3>2
    <2>7. SubSeq(origin, 1, Len(origin)) = origin
      BY <2>1, SubSeqFull
    <2> QED
      BY <2>2, <2>6, <2>7 DEF origin
  <1> QED
    BY <1>1, <1>2, <1>3, <1>4, <1>5 DEF CodecRoundTrip, DecodesEncoded, Returned, InvDecode

(* Where a group lies in an accepted text, and how many bytes it takes.    *)
LEMMA NextGroupIs ==
  ASSUME Text \in Seq(Nat), call.capacity \in Nat, DecodeAccepted,
         NEW g \in Nat, at = g * Scheme.digits, at < Len(Text)
  PROVE  /\ at + Scheme.digits = (g + 1) * Scheme.digits /\ at + Scheme.digits <= Len(Text)
         /\ g + 1 \in 0..Len(Text)
         /\ Emitted \in Nat
         /\ g * Scheme.bytes + Emitted <= call.capacity
         /\ g * Scheme.bytes + Emitted <= (Len(Text) \div Scheme.digits) * Scheme.bytes
         /\ InLastGroup => Emitted = LastBytes
         /\ ~InLastGroup => g * Scheme.bytes + Emitted = (g + 1) * Scheme.bytes
         /\ InLastGroup <=> at + Scheme.digits = Len(Text)
  <1> DEFINE d == Scheme.digits
             b == Scheme.bytes
             n == Len(Text)
             q == n \div d
             s == g * d
  <1>1. d \in Nat \ {0} /\ b \in Nat \ {0} /\ n \in Nat
    BY SchemeIs
  <1>2. Text # <<>> /\ n % d = 0
    <2>1. at \in Nat
      BY <1>1
    <2> QED
      BY <1>1, <2>1 DEF DecodeAccepted
  <1>3. LastBytes \in 0..b
    BY <1>2, LastBytesType
  <1>4. (q - 1) * b + LastBytes <= call.capacity
    BY <1>2 DEF DecodeAccepted
  <1>5. (InLastGroup <=> at + d = n) /\ Emitted = IF InLastGroup THEN LastBytes ELSE b
    BY DEF InLastGroup, Emitted
  <1>6. at = s
    OBVIOUS
  <1> HIDE DEF d, b, n
  <1>7. q \in Nat /\ n = q * d
    BY <1>1, <1>2, Division
  <1> HIDE DEF q
  <1>8. s \in Nat /\ (g + 1) * d = s + d /\ s < n
    BY <1>1, <1>6 DEF n
  <1>9. g + 1 <= q
    <2>1. CASE q <= g
      <3>1. q * d <= g * d
        BY <1>1, <1>7, <2>1, ProductGrows
      <3> HIDE DEF s
      <3>2. n <= s
        BY <1>7, <3>1 DEF s
      <3> QED
        BY <1>1, <1>8, <3>2
    <2> QED
      BY <1>7, <2>1
  <1>10. (g + 1) * d <= q * d /\ (g + 2 <= q => (g + 2) * d <= q * d)
    <2>1. g + 1 \in Nat /\ g + 2 \in Nat
      OBVIOUS
    <2> QED
      BY <1>1, <1>7, <1>9, <2>1, ProductGrows
  <1>11. s + d <= n
    BY <1>7, <1>8, <1>10
  <1>12. g + 1 = q => s + d = n
    BY <1>7, <1>8
  <1>13. s + d = n => g + 1 = q
    <2>1. CASE g + 2 <= q
      <3>1. (g + 2) * d = s + 2 * d
        BY <1>1
      <3> HIDE DEF s
      <3>2. s + 2 * d <= n
        BY <1>7, <1>10, <2>1, <3>1
      <3> QED
        BY <1>1, <1>8, <3>2
    <2> QED
      BY <1>7, <1>9, <2>1
  <1>14. Emitted \in 0..b
    BY <1>1, <1>3, <1>5
  <1>15. g * b + Emitted <= call.capacity /\ g * b + Emitted <= q * b
    <2> DEFINE p == g * b
               r == (q - 1) * b
               e == Emitted
               c == call.capacity
               l == LastBytes
    <2>1. p \in Nat /\ r \in Int /\ q * b = r + b /\ (g + 1) * b = p + b
      BY <1>1, <1>7
    <2>2. (g + 1) * b <= q * b /\ (g + 1 <= q - 1 => (g + 1) * b <= (q - 1) * b)
      <3>1. g + 1 \in Nat /\ q - 1 \in Nat
        BY <1>7, <1>9
      <3> QED
        BY <1>1, <1>7, <1>9, <3>1, ProductGrows
    <2>3. g + 1 = q => p = r
      BY <1>7
    <2>4. e \in 0..b /\ l \in 0..b /\ r + l <= c /\ c \in Nat
      BY <1>3, <1>4, <1>14
    <2>5. g + 1 = q => e = l
      BY <1>5, <1>6, <1>12
    <2>6. p + e <= q * b
      <3> HIDE DEF p, r, e, c, l
      <3> QED
        BY <1>1, <2>1, <2>2, <2>4
    <2>7. p + e <= c
      <3>1. CASE g + 1 = q
        <4> HIDE DEF p, r, e, c, l
        <4> QED
          BY <1>1, <2>1, <2>3, <2>4, <2>5, <3>1
      <3>2. CASE g + 1 <= q - 1
        <4>1. p + b <= r
          BY <2>1, <2>2, <3>2
        <4> HIDE DEF p, r, e, c, l
        <4> QED
          BY <1>1, <2>1, <2>4, <4>1
      <3> QED
        BY <1>7, <1>9, <3>1, <3>2
    <2> QED
      BY <2>6, <2>7
  <1>16. g + 1 \in 0..n
    <2>1. g + 1 <= (g + 1) * d
      <3>1. (g + 1) * 1 <= (g + 1) * d
        <4>1. PICK m \in Nat : d = 1 + m
          <5>1. d - 1 \in Nat /\ d = 1 + (d - 1)
            BY <1>1
          <5> QED
            BY <5>1
        <4>2. (g + 1) * d = (g + 1) + (g + 1) * m /\ (g + 1) * m \in Nat
          BY <4>1
        <4> QED
          BY <4>2
      <3> QED
        BY <3>1
    <2> HIDE DEF s
    <2> QED
      BY <1>1, <1>8, <1>11, <2>1
  <1>17. ~InLastGroup => g * b + Emitted = (g + 1) * b
    <2>1. (g + 1) * b = g * b + b
      BY <1>1
    <2> QED
      BY <1>5, <2>1
  <1> QED
    BY <1>5, <1>6, <1>8, <1>11, <1>14, <1>15, <1>16, <1>17 DEF d, b, n, q

LEMMA DecodeGroupKeeps ==
  ASSUME InvCall, InvDecode, DecodeGroup
  PROVE  InvDecode' /\ CodecRoundTrip'
  <1> DEFINE d == Scheme.digits
             b == Scheme.bytes
             digits == Group(d)
             new == DecodedGroup(digits)
  <1>1. /\ call.op \in Decodes /\ call' = call /\ DecodeAccepted
        /\ at < Len(Text) /\ result = "pending"
    BY DEF DecodeGroup, Pending, Return, Go
  <1>2. /\ Text' = Text /\ Scheme' = Scheme /\ LastBytes' = LastBytes /\ (DecodeAccepted' <=> DecodeAccepted)
        /\ ("origin" \in DOMAIN call' /\ EncodesTo(Text, call.origin, Groups(Len(call.origin)))'
             <=> "origin" \in DOMAIN call /\ EncodesTo(Text, call.origin, Groups(Len(call.origin))))
    BY <1>1, SameText
  <1>3. Text \in Seq(Nat) /\ call.capacity \in Nat /\ Len(Text) \in Nat
    <2>1. call.text \in Seq(Nat) /\ call.capacity \in Nat
      BY <1>1 DEF InvCall, CodecCall
    <2> QED
      BY <2>1 DEF Text
  <1>4. PICK g \in 0..Len(Text) :
          /\ at = g * d
          /\ Len(output) = IF g > 0 /\ at = Len(Text) THEN (g - 1) * b + LastBytes ELSE g * b
          /\ "origin" \in DOMAIN call => output = SubSeq(call.origin, 1, Len(output))
    BY <1>1 DEF InvDecode
  <1>5. g \in Nat /\ Len(output) = g * b /\ g * b \in Nat
    <2>1. at # Len(Text) /\ g \in Nat /\ b \in Nat
      BY <1>1, <1>3, <1>4, SchemeIs
    <2>2. g * b \in Nat
      BY <2>1
    <2> QED
      BY <1>4, <2>1, <2>2
  <1>6. /\ at + d = (g + 1) * d /\ at + d <= Len(Text) /\ g + 1 \in 0..Len(Text)
        /\ Emitted \in Nat /\ g * b + Emitted <= call.capacity
        /\ g * b + Emitted <= (Len(Text) \div d) * b
        /\ InLastGroup => Emitted = LastBytes
        /\ ~InLastGroup => g * b + Emitted = (g + 1) * b
        /\ InLastGroup <=> at + d = Len(Text)
    BY <1>1, <1>3, <1>4, <1>5, NextGroupIs
  <1>7. output \in Seq(Nat)
    BY <1>1 DEF InvDecode
  <1>8. new \in Seq(Nat) /\ Len(new) = Emitted
    <2>1. at \in Nat /\ d \in Nat \ {0}
      BY <1>4, <1>5, SchemeIs
    <2>2. digits = GroupAt(Text, at, d)
      BY DEF Group
    <2> HIDE DEF d, digits, new
    <2> DEFINE S == Nat
    <2>3. Text \in Seq(S)
      BY <1>3
    <2> HIDE DEF S
    <2>4. GroupAt(Text, at, d) \in Seq(S)
      BY <1>1, <2>1, <2>3, GroupAtIs
    <2>5. digits \in Seq(Nat)
      BY <2>2, <2>4 DEF S
    <2> QED
      BY <1>6, <2>5, DecodedType DEF new
  <1> DEFINE next == output \o new
             size == g * b + Emitted
  <1>9. next \in Seq(Nat) /\ Len(next) = size
    <2> HIDE DEF new
    <2>1. next \in Seq(Nat) /\ Len(next) = Len(output) + Len(new)
      BY <1>7, <1>8, ConcatProperties
    <2> QED
      BY <1>5, <1>8, <2>1
  <1>10. ASSUME "origin" \in DOMAIN call
         PROVE  GroupValid(digits) /\ next = SubSeq(call.origin, 1, Len(next))
    <2> DEFINE origin == call.origin
               G == Groups(Len(origin))
               part == GroupAt(origin, g * b, b)
    <2>1. /\ origin \in Seq(Octets) /\ Len(origin) \in Nat /\ EncodesTo(Text, origin, G)
          /\ G \in Nat /\ Len(Text) = G * d
      BY <1>1, <1>10, OriginIs
    <2>2. g < G
      <3>1. CASE G <= g
        <4>1. G * d <= g * d
          BY <1>5, <2>1, <3>1, SchemeIs, ProductGrows
        <4>2. Len(Text) <= at
          BY <1>4, <2>1, <4>1
        <4> HIDE DEF G, d, origin
        <4>3. at \in Nat
          BY <1>4, <1>5, SchemeIs DEF d
        <4> QED
          BY <1>1, <1>3, <4>2, <4>3
      <3> HIDE DEF G
      <3> QED
        BY <1>5, <2>1, <3>1
    <2>3. /\ g * b < Len(origin) /\ part \in Seq(Octets)
          /\ \A j \in 1..Len(part) : g * b + j \in 1..Len(origin) /\ part[j] = origin[g * b + j]
      BY <1>5, <2>1, <2>2, GroupOf
    <2>4. GroupValid(digits) /\ new = part
      BY <1>4, <1>5, <2>1, <2>2, GroupDecodes
    <2> HIDE DEF digits, new, G, part
    <2> DEFINE m == g * b
    <2>5. m \in Nat /\ m <= Len(origin) /\ Len(output) = m
      BY <1>5, <2>1, <2>3
    <2>6. \A j \in 1..Len(part) : m + j \in 1..Len(origin) /\ part[j] = origin[m + j]
      BY <2>3
    <2>7. output = SubSeq(origin, 1, m)
      BY <1>4, <1>10, <2>5
    <2>8. size = m + Len(part)
      BY <1>8, <2>4
    <2> HIDE DEF m, origin, size
    <2>9. SubSeq(origin, 1, m) \o part = SubSeq(origin, 1, m + Len(part))
      BY <2>1, <2>3, <2>5, <2>6, MoreOf
    <2> QED
      BY <1>9, <2>4, <2>7, <2>8, <2>9 DEF origin
  <1>11. call.op \notin Encodes /\ call'.op \in Decodes
    BY <1>1 DEF Encodes, Decodes
  <1>12. ASSUME GroupValid(digits) PROVE InvDecode' /\ CodecRoundTrip'
    <2>1. at' = at + d /\ output' = next /\ result' = "pending"
      BY <1>1, <1>12 DEF DecodeGroup, Go
    <2> HIDE DEF digits, new, next, d, b
    <2>2. output' \in Seq(Nat) /\ Len(output') <= call'.capacity
            /\ Len(output') <= (Len(Text') \div Scheme.digits') * Scheme.bytes'
      BY <1>1, <1>2, <1>6, <1>9, <2>1 DEF d, b
    <2> DEFINE h == g + 1
    <2>3. h \in 0..Len(Text') /\ at' = h * Scheme.digits' /\ at' <= Len(Text') /\ DecodeAccepted' /\ h > 0
      BY <1>1, <1>2, <1>5, <1>6, <2>1 DEF d
    <2>4. Len(output') = IF h > 0 /\ at' = Len(Text') THEN (h - 1) * Scheme.bytes' + LastBytes'
                         ELSE h * Scheme.bytes'
      <3>1. h - 1 = g
        BY <1>5
      <3>2. h > 0 /\ Text' = Text /\ Scheme.bytes' = b /\ LastBytes' = LastBytes /\ Len(output') = size
        BY <1>2, <1>9, <2>1, <2>3 DEF b
      <3>3. CASE InLastGroup
        <4>1. at' = Len(Text) /\ size = g * b + LastBytes
          BY <1>6, <2>1, <3>3
        <4> HIDE DEF h, size
        <4> QED
          BY <3>1, <3>2, <4>1, Zenon
      <3>4. CASE ~InLastGroup
        <4>1. at' # Len(Text) /\ size = h * b
          BY <1>6, <2>1, <3>4
        <4> HIDE DEF h, size
        <4> QED
          BY <3>2, <4>1, Zenon
      <3> QED
        BY <3>3, <3>4
    <2>5. "origin" \in DOMAIN call' => output' = SubSeq(call'.origin, 1, Len(output'))
      BY <1>1, <1>10, <2>1
    <2> HIDE DEF h
    <2>6. \E n \in 0..Len(Text') :
            /\ at' = n * Scheme.digits' /\ at' <= Len(Text')
            /\ n > 0 => DecodeAccepted'
            /\ Len(output') = IF n > 0 /\ at' = Len(Text') THEN (n - 1) * Scheme.bytes' + LastBytes'
                              ELSE n * Scheme.bytes'
            /\ "origin" \in DOMAIN call' => output' = SubSeq(call'.origin, 1, Len(output'))
      BY <2>3, <2>4, <2>5
    <2>7. InvDecode'
      BY <1>1, <1>2, <2>1, <2>2, <2>6 DEF InvDecode
    <2>8. CodecRoundTrip'
      BY <1>1, <1>11, <2>1, <2>2 DEF CodecRoundTrip, DecodesEncoded, Returned
    <2> QED
      BY <2>7, <2>8
  <1>13. ASSUME ~GroupValid(digits) PROVE InvDecode' /\ CodecRoundTrip'
    <2>1. output' = output /\ result' = "false"
      BY <1>1, <1>13 DEF DecodeGroup, Return
    <2>2. "origin" \notin DOMAIN call
      BY <1>10, <1>13
    <2>3. InvDecode'
      BY <1>1, <1>2, <2>1, <2>2 DEF InvDecode
    <2> QED
      BY <1>1, <1>2, <1>11, <2>1, <2>2, <2>3 DEF CodecRoundTrip, DecodesEncoded, Returned, InvDecode
  <1> QED
    BY <1>12, <1>13

LEMMA DecodeEncodedKeeps ==
  ASSUME InvCall, InvEncode, DecodeEncoded
  PROVE  InvDecode' /\ CodecRoundTrip' /\ CodecCall(call') /\ "op" \in DOMAIN call' /\ call'.op \in Decodes
  <1>1. /\ call.op \in Encodes /\ result = "true" /\ at' = 0 /\ output' = <<>> /\ result' = "pending"
        /\ call' = [op |-> IF Scheme.digits = 4 THEN "base64_decode" ELSE "base32_decode",
                    text |-> output, capacity |-> Len(Text), origin |-> Text]
    BY DEF DecodeEncoded, Returned, CallNext
  <1>2. /\ call'.op = IF Scheme.digits = 4 THEN "base64_decode" ELSE "base32_decode"
        /\ call'.text = output /\ call'.capacity = Len(Text) /\ call'.origin = Text
        /\ "op" \in DOMAIN call' /\ "origin" \in DOMAIN call'
    BY <1>1
  <1>3. call'.op \in Decodes /\ call'.op \notin Encodes
    BY <1>2 DEF Decodes, Encodes
  <1>4. Scheme' = Scheme /\ Text' = output
    <2>1. CASE Scheme = Sextets
      <3>1. Scheme.digits = 4
        BY <2>1 DEF Sextets
      <3> QED
        BY <1>2, <2>1, <3>1 DEF Scheme, Sextets, Text
    <2>2. CASE Scheme = Quintets
      <3>1. Scheme.digits # 4
        BY <2>2 DEF Quintets
      <3> QED
        BY <1>2, <2>2, <3>1 DEF Scheme, Quintets, Text
    <2> QED
      BY <2>1, <2>2, SchemeIs
  <1>5. Text \in Seq(Octets) /\ Len(Text) \in Nat
    <2>1. call.text \in Seq(Octets)
      BY <1>1 DEF InvCall, CodecCall
    <2> QED
      BY <2>1 DEF Text
  <1>6. EncodesTo(output, Text, Groups(Len(Text)))
    BY <1>1 DEF InvEncode
  <1>7. output \in Seq(Nat) /\ Len(output) \in Nat
    BY <1>6 DEF EncodesTo
  <1>8. CodecCall(call')
    BY <1>2, <1>3, <1>5, <1>7 DEF CodecCall
  <1>9. EncodesTo(Text, call.origin, Groups(Len(call.origin)))'
    BY <1>2, <1>4, <1>6, ZenonT(30) DEF EncodesTo, EncodedGroup, Groups
  <1>10. /\ output' \in Seq(Nat) /\ Len(output') = 0 /\ Len(output') <= call'.capacity
         /\ Len(output') <= (Len(Text') \div Scheme.digits') * Scheme.bytes'
    <2> DEFINE x == Len(output)
               dd == Scheme.digits
               bb == Scheme.bytes
    <2>1. x \in Nat /\ dd \in Nat \ {0} /\ bb \in Nat \ {0}
      BY <1>7, SchemeIs
    <2>2. 0 <= (x \div dd) * bb
      <3> HIDE DEF x, dd, bb
      <3>1. x \div dd \in Nat
        BY <2>1
      <3> QED
        BY <2>1, <3>1
    <2> QED
      BY <1>1, <1>2, <1>4, <1>5, <2>2
  <1>11. SubSeq(Text, 1, 0) = <<>>
    BY SubSeqEmpty
  <1>12. \E g \in 0..Len(Text') :
           /\ at' = g * Scheme.digits' /\ at' <= Len(Text')
           /\ g > 0 => DecodeAccepted'
           /\ Len(output') = IF g > 0 /\ at' = Len(Text') THEN (g - 1) * Scheme.bytes' + LastBytes'
                             ELSE g * Scheme.bytes'
           /\ "origin" \in DOMAIN call' => output' = SubSeq(call'.origin, 1, Len(output'))
    <2> DEFINE g == 0
    <2>1. g \in 0..Len(Text') /\ at' = g * Scheme.digits' /\ at' <= Len(Text') /\ ~(g > 0)
      BY <1>1, <1>4, <1>7, SchemeIs
    <2>2. Len(output') = g * Scheme.bytes' /\ output' = SubSeq(call'.origin, 1, Len(output'))
      BY <1>1, <1>2, <1>4, <1>10, <1>11, SchemeIs
    <2> HIDE DEF g
    <2> QED
      BY <2>1, <2>2
  <1>13. InvDecode'
    BY <1>1, <1>2, <1>9, <1>10, <1>12 DEF InvDecode
  <1>14. CodecRoundTrip'
    BY <1>1, <1>3, <1>10 DEF CodecRoundTrip, DecodesEncoded, Returned
  <1> QED
    BY <1>2, <1>3, <1>8, <1>13, <1>14

LEMMA NoCodec ==
  ASSUME call'.op \notin Encodes \cup Decodes
  PROVE  InvCodec' /\ CodecCall(call')
  BY DEF InvCodec, InvEncode, InvDecode, CodecRoundTrip, DecodesEncoded, Returned, CodecCall

LEMMA InvCodecKeeps ==
  ASSUME InvCall, InvCodec, CodecNext
  PROVE  InvCodec' /\ CodecCall(call')
  <1>1. InvEncode /\ InvDecode
    BY DEF InvCodec
  <1>2. ASSUME EncodeRefused \/ EncodeGroup \/ EncodeEnd PROVE InvCodec' /\ CodecCall(call')
    <2>1. InvEncode' /\ call' = call /\ call'.op \in Encodes /\ call'.op \notin Decodes
      BY <1>1, <1>2, EncodeKeeps DEF Encodes, Decodes
    <2>2. InvDecode' /\ CodecRoundTrip'
      BY <2>1 DEF InvDecode, InvEncode, CodecRoundTrip, DecodesEncoded, Returned
    <2> QED
      BY <2>1, <2>2 DEF InvCodec, InvCall
  <1>3. ASSUME DecodeRefused \/ DecodeGroup \/ DecodeEnd PROVE InvCodec' /\ CodecCall(call')
    <2>1. InvDecode' /\ CodecRoundTrip'
      BY <1>1, <1>3, DecodeRefusedKeeps, DecodeGroupKeeps, DecodeEndKeeps
    <2>2. call' = call /\ call'.op \in Decodes
      BY <1>3 DEF DecodeRefused, DecodeGroup, DecodeEnd, Pending, Return, Go
    <2>3. InvEncode'
      BY <2>2 DEF InvEncode, Encodes, Decodes
    <2> QED
      BY <2>1, <2>2, <2>3 DEF InvCodec, InvCall
  <1>4. CASE DecodeEncoded
    <2>1. InvDecode' /\ CodecRoundTrip' /\ CodecCall(call') /\ call'.op \in Decodes
      BY <1>1, <1>4, DecodeEncodedKeeps
    <2>2. InvEncode'
      BY <2>1 DEF InvEncode, Encodes, Decodes
    <2> QED
      BY <2>1, <2>2 DEF InvCodec
  <1> QED
    BY <1>2, <1>3, <1>4 DEF CodecNext

-----------------------------------------------------------------------------
(* Numbers as text.                                                        *)

(* What holds of no elements, and of one element more, holds of them all.  *)
LEMMA ByAppending ==
  ASSUME NEW S, NEW t \in Seq(S), NEW T, <<>> \in T,
         \A n \in 1..Len(t) : \A s \in Seq(S) : s \in T /\ Len(s) = n - 1 => Append(s, t[n]) \in T
  PROVE  t \in T
  <1> DEFINE R == {n \in 0..Len(t) : SubSeq(t, 1, n) \in T}
  <1>1. 0 \in R
    <2>1. SubSeq(t, 1, 0) = <<>>
      OBVIOUS
    <2>2. Len(t) \in Nat /\ 0 \in 0..Len(t)
      OBVIOUS
    <2> QED
      BY <2>1, <2>2
  <1>2. ASSUME NEW n \in 1..Len(t), n - 1 \in R PROVE n \in R
    <2> DEFINE s == SubSeq(t, 1, n - 1)
               u == SubSeq(t, 1, n)
    <2>1. s \in Seq(S) /\ Len(s) = n - 1 /\ u \in Seq(S) /\ Len(u) = n /\ n - 1 \in Nat
      OBVIOUS
    <2>2. u = Append(s, t[n])
      <3>1. \A k \in 1..(n - 1) : s[k] = t[k]
        OBVIOUS
      <3>2. \A k \in 1..n : u[k] = t[k]
        OBVIOUS
      <3>3. t[n] \in S
        OBVIOUS
      <3> HIDE DEF s, u
      <3> QED
        BY <2>1, <3>1, <3>2, <3>3
    <2>3. s \in T
      BY <1>2
    <2> HIDE DEF s
    <2>4. u \in T
      BY <2>1, <2>2, <2>3
    <2> QED
      BY <2>4
  <1> DEFINE L == Len(t)
  <1>3. L \in Nat
    OBVIOUS
  <1>4. \A n \in 1..L : n - 1 \in R => n \in R
    BY <1>2
  <1> HIDE DEF R, L
  <1>5. L \in R
    <2>1. \A n \in 0..L : n \in R
      BY <1>1, <1>3, <1>4, Upwards
    <2> QED
      BY <1>3, <2>1
  <1>6. SubSeq(t, 1, Len(t)) = t
    OBVIOUS
  <1> QED
    BY <1>5, <1>6 DEF L, R

(* The value of digits in a row.                                           *)
LEMMA ValueOfJoined ==
  ASSUME NEW s \in Seq(Nat), NEW t \in Seq(Nat), NEW base \in Nat
  PROVE  ValueOf(s \o t, base) = ValueOf(s, base) * Power(base, Len(t)) + ValueOf(t, base)
  <1> DEFINE Reads(u) == ValueOf(s \o u, base) = ValueOf(s, base) * Power(base, Len(u)) + ValueOf(u, base)
             T == {u \in Seq(Nat) : Reads(u)}
             S == Nat
  <1>1. <<>> \in T
    <2> DEFINE e == <<>>
               v == ValueOf(s, base)
    <2>1. s \o e = s /\ Len(e) = 0 /\ e \in Seq(Nat)
      OBVIOUS
    <2>2. Power(base, 0) = 1 /\ ValueOf(e, base) = 0 /\ v \in Nat
      BY PowerOfZero, ValueOfNone, ValueType
    <2> HIDE DEF e
    <2>3. ValueOf(s \o e, base) = v /\ v * Power(base, Len(e)) + ValueOf(e, base) = v
      <3>1. v * 1 + 0 = v
        BY <2>2
      <3> QED
        BY <2>1, <2>2, <3>1
    <2>4. Reads(e)
      BY <2>3
    <2> QED
      BY <2>1, <2>4 DEF e
  <1>2. ASSUME NEW u \in Seq(Nat), u \in T, NEW x \in Nat PROVE Append(u, x) \in T
    <2> DEFINE w == Append(u, x)
               n == Len(u)
               v == ValueOf(s, base)
               p == Power(base, n)
    <2>1. w \in Seq(Nat) /\ Len(w) = n + 1 /\ n \in Nat /\ s \o u \in Seq(Nat)
      OBVIOUS
    <2>2. s \o w = Append(s \o u, x)
      OBVIOUS
    <2>3. ValueOf(Append(s \o u, x), base) = ValueOf(s \o u, base) * base + x
      BY <2>1, ValueOfAppend
    <2>4. ValueOf(w, base) = ValueOf(u, base) * base + x
      BY ValueOfAppend
    <2>5. p \in Nat /\ Power(base, n + 1) = base * p
      BY <2>1, PowerAfter
    <2>6. v \in Nat /\ ValueOf(u, base) \in Nat
      BY ValueType
    <2>7. ValueOf(s \o u, base) = v * p + ValueOf(u, base)
      BY <1>2
    <2> DEFINE y == ValueOf(u, base)
    <2>8. (v * p + y) * base + x = v * (base * p) + (y * base + x)
      <3>0. y \in Nat
        BY <2>6
      <3> HIDE DEF v, p, y
      <3> DEFINE a == v * p
                 b == base * p
      <3>1. v * b = a * base /\ a \in Nat
        BY <2>5, <2>6
      <3> HIDE DEF a, b
      <3>2. (a + y) * base = a * base + y * base /\ a * base \in Nat /\ y * base \in Nat
        BY <3>0, <3>1
      <3>3. (a + y) * base + x = a * base + (y * base + x)
        BY <3>2
      <3> QED
        BY <3>1, <3>3 DEF a, b
    <2> HIDE DEF w, v, n, p
    <2>9. ValueOf(s \o w, base) = v * Power(base, Len(w)) + ValueOf(w, base)
      BY <2>1, <2>2, <2>3, <2>4, <2>5, <2>7, <2>8
    <2>10. Reads(w)
      BY <2>9 DEF v
    <2> HIDE DEF Reads
    <2> QED
      BY <2>1, <2>10 DEF w
  <1>3. t \in Seq(S) /\ \A n \in 1..Len(t) : t[n] \in S
    OBVIOUS
  <1>4. \A n \in 1..Len(t) : \A u \in Seq(S) : u \in T /\ Len(u) = n - 1 => Append(u, t[n]) \in T
    BY <1>2, <1>3
  <1> HIDE DEF T, S
  <1>5. t \in T
    BY <1>1, <1>3, <1>4, ByAppending
  <1> QED
    BY <1>5 DEF T

-----------------------------------------------------------------------------
(* The digits among the characters of a text.                              *)
SelectingOf(f, s) ==
  f = [n \in 0..Len(s) |->
        IF n = 0 THEN <<>> ELSE IF IsDigit(s[n]) THEN Append(f[n - 1], s[n]) ELSE f[n - 1]]

LEMMA SelectingsExist ==
  ASSUME NEW s \in Seq(Nat)
  PROVE  \E f \in [0..Len(s) -> Seq(Nat)] : SelectingOf(f, s)
  <1> DEFINE m == Len(s)
             S == Seq(Nat)
             none == <<>>
             step == [p \in S \X (1..m) |-> IF IsDigit(s[p[2]]) THEN Append(p[1], s[p[2]]) ELSE p[1]]
  <1>1. none \in S /\ m \in Nat
    OBVIOUS
  <1>2. \A x \in S, n \in 1..m : step[<<x, n>>] = IF IsDigit(s[n]) THEN Append(x, s[n]) ELSE x
    OBVIOUS
  <1>3. \A x \in S, n \in 1..m : step[<<x, n>>] \in S
    <2>1. ASSUME NEW x \in S, NEW n \in 1..m PROVE step[<<x, n>>] \in S
      <3>1. Append(x, s[n]) \in S
        OBVIOUS
      <3> HIDE DEF S, step
      <3> QED
        BY <1>2, <3>1
    <2> HIDE DEF S, step, m, none
    <2> QED
      BY ONLY <2>1
  <1> HIDE DEF S
  <1>8. StepsOf(step, S, m)
    BY <1>3 DEF StepsOf
  <1> HIDE DEF step, none, m
  <1>4. PICK f : IteratesOf(f, S, none, step, m)
    BY <1>1, <1>8, Iterates
  <1>5. f \in [0..m -> S] /\ f[0] = none /\ \A n \in 1..m : f[n] = step[<<f[n - 1], n>>]
    BY <1>4 DEF IteratesOf
  <1>6. ASSUME NEW n \in 0..m
        PROVE  f[n] = IF n = 0 THEN none ELSE IF IsDigit(s[n]) THEN Append(f[n - 1], s[n]) ELSE f[n - 1]
    <2>1. CASE n = 0
      BY <1>5, <2>1
    <2>2. CASE n # 0
      <3>1. n - 1 \in 0..m /\ n \in 1..m
        BY <1>1, <2>2
      <3>2. f[n - 1] \in S
        BY <1>5, <3>1
      <3> QED
        BY <1>2, <1>5, <2>2, <3>1, <3>2
    <2> QED
      BY <2>1, <2>2
  <1>7. f = [n \in 0..m |->
              IF n = 0 THEN none ELSE IF IsDigit(s[n]) THEN Append(f[n - 1], s[n]) ELSE f[n - 1]]
    BY <1>5, <1>6
  <1> QED
    BY <1>5, <1>7 DEF SelectingOf, m, S, none

LEMMA SelectingIs ==
  ASSUME NEW s \in Seq(Nat)
  PROVE  \E f : SelectingOf(f, s) /\ DigitsIn(s) = f[Len(s)]
  <1> DEFINE g == CHOOSE f : SelectingOf(f, s)
  <1>1. DigitsIn(s) = g[Len(s)]
    BY DEF DigitsIn, SelectingOf
  <1>2. \E f : SelectingOf(f, s)
    BY SelectingsExist
  <1>3. SelectingOf(g, s)
    BY <1>2
  <1> HIDE DEF g
  <1> QED
    BY <1>1, <1>3

(* The first characters have the same digits in a longer text.             *)
LEMMA SelectingsAgree ==
  ASSUME NEW s \in Seq(Nat), NEW t \in Seq(Nat), Len(s) <= Len(t), \A k \in 1..Len(s) : s[k] = t[k],
         NEW f, SelectingOf(f, s), NEW g, SelectingOf(g, t)
  PROVE  \A n \in 0..Len(s) : f[n] = g[n] /\ f[n] \in Seq(Nat)
  <1> DEFINE L == Len(s)
             T == {n \in 0..L : f[n] = g[n] /\ f[n] \in Seq(Nat)}
  <1>0. L \in Nat /\ \A n \in 0..L : n \in 0..Len(t)
    OBVIOUS
  <1>1. /\ \A n \in 0..L : f[n] = IF n = 0 THEN <<>> ELSE IF IsDigit(s[n]) THEN Append(f[n - 1], s[n]) ELSE f[n - 1]
        /\ \A n \in 0..L : g[n] = IF n = 0 THEN <<>> ELSE IF IsDigit(t[n]) THEN Append(g[n - 1], t[n]) ELSE g[n - 1]
    BY <1>0 DEF SelectingOf
  <1>2. 0 \in T
    <2>1. 0 \in 0..L
      BY <1>0
    <2>2. f[0] = <<>> /\ g[0] = <<>> /\ <<>> \in Seq(Nat)
      BY <1>1, <2>1
    <2> QED
      BY <2>1, <2>2
  <1>3. ASSUME NEW n \in 1..L, n - 1 \in T PROVE n \in T
    <2>1. n \in 0..L /\ n # 0 /\ f[n - 1] = g[n - 1] /\ f[n - 1] \in Seq(Nat) /\ s[n] = t[n] /\ s[n] \in Nat
      BY <1>3, SMTT(30)
    <2>2. f[n] = g[n] /\ f[n] \in Seq(Nat)
      <3>1. Append(f[n - 1], s[n]) \in Seq(Nat)
        BY <2>1
      <3> QED
        BY <1>1, <2>1, <3>1
    <2> QED
      BY <2>1, <2>2
  <1> HIDE DEF T
  <1>4. \A n \in 0..L : n \in T
    BY <1>0, <1>2, <1>3, Upwards
  <1> QED
    BY <1>4 DEF T

(* One more character.                                                     *)
LEMMA DigitsInAppend ==
  ASSUME NEW s \in Seq(Nat), NEW c \in Nat
  PROVE  /\ DigitsIn(s) \in Seq(Nat)
         /\ DigitsIn(Append(s, c)) = IF IsDigit(c) THEN Append(DigitsIn(s), c) ELSE DigitsIn(s)
  <1> DEFINE t == Append(s, c)
             L == Len(s)
  <1>1. /\ t \in Seq(Nat) /\ Len(t) = L + 1 /\ t[L + 1] = c /\ L \in Nat
        /\ \A k \in 1..Len(s) : s[k] = t[k]
    OBVIOUS
  <1>2. Len(s) <= Len(t)
    BY <1>1
  <1> HIDE DEF t
  <1>3. PICK f : SelectingOf(f, s) /\ DigitsIn(s) = f[L]
    BY SelectingIs
  <1>4. PICK g : SelectingOf(g, t) /\ DigitsIn(t) = g[L + 1]
    BY <1>1, SelectingIs
  <1>5. \A n \in 0..L : f[n] = g[n] /\ f[n] \in Seq(Nat)
    BY <1>1, <1>2, <1>3, <1>4, SelectingsAgree
  <1>6. g[L + 1] = IF IsDigit(c) THEN Append(g[L], c) ELSE g[L]
    <2>1. L + 1 \in 0..Len(t) /\ L + 1 # 0 /\ (L + 1) - 1 = L
      BY <1>1
    <2>2. \A n \in 0..Len(t) : g[n] = IF n = 0 THEN <<>> ELSE IF IsDigit(t[n]) THEN Append(g[n - 1], t[n]) ELSE g[n - 1]
      BY <1>4 DEF SelectingOf
    <2> QED
      BY <1>1, <2>1, <2>2
  <1>7. L \in 0..L
    BY <1>1
  <1> QED
    BY <1>3, <1>4, <1>5, <1>6, <1>7 DEF t

LEMMA DigitsInNone == DigitsIn(<<>>) = <<>>
  <1> DEFINE s == <<>>
  <1>1. s \in Seq(Nat) /\ Len(s) = 0 /\ 0 \in 0..Len(s)
    OBVIOUS
  <1> HIDE DEF s
  <1>2. PICK f : SelectingOf(f, s) /\ DigitsIn(s) = f[0]
    BY <1>1, SelectingIs
  <1>3. f[0] = <<>>
    BY <1>1, <1>2 DEF SelectingOf
  <1> QED
    BY <1>2, <1>3 DEF s

LEMMA AppendJoined ==
  ASSUME NEW a \in Seq(Nat), NEW b \in Seq(Nat), NEW x \in Nat
  PROVE  Append(a \o b, x) = a \o Append(b, x)
  <1> DEFINE c == Append(b, x)
  <1>1. c \in Seq(Nat) /\ Len(c) = Len(b) + 1
    OBVIOUS
  <1>2. a \o c = Append(a \o b, x)
    OBVIOUS
  <1> QED
    BY <1>2

LEMMA DigitsInJoined ==
  ASSUME NEW s \in Seq(Nat), NEW t \in Seq(Nat)
  PROVE  DigitsIn(s \o t) = DigitsIn(s) \o DigitsIn(t)
  <1> DEFINE Splits(u) == DigitsIn(s \o u) = DigitsIn(s) \o DigitsIn(u)
             T == {u \in Seq(Nat) : Splits(u)}
             S == Nat
             d == DigitsIn(s)
  <1>0. d \in Seq(Nat)
    <2>1. 0 \in Nat
      OBVIOUS
    <2> QED
      BY <2>1, DigitsInAppend
  <1>1. <<>> \in T
    <2> DEFINE e == <<>>
    <2>1. s \o e = s /\ d \o e = d /\ e \in Seq(Nat)
      BY <1>0
    <2> HIDE DEF d
    <2>2. Splits(e)
      BY <2>1, DigitsInNone DEF d
    <2> HIDE DEF e, Splits
    <2>3. e \in T
      BY <2>1, <2>2
    <2> QED
      BY <2>3 DEF e
  <1>2. ASSUME NEW u \in Seq(Nat), u \in T, NEW x \in Nat PROVE Append(u, x) \in T
    <2> DEFINE w == Append(u, x)
               e == DigitsIn(u)
    <2>1. w \in Seq(Nat) /\ s \o u \in Seq(Nat) /\ s \o w = Append(s \o u, x)
      OBVIOUS
    <2>2. DigitsIn(s \o w) = IF IsDigit(x) THEN Append(DigitsIn(s \o u), x) ELSE DigitsIn(s \o u)
      BY <2>1, DigitsInAppend
    <2>3. e \in Seq(Nat) /\ DigitsIn(w) = IF IsDigit(x) THEN Append(e, x) ELSE e
      BY DigitsInAppend
    <2>4. DigitsIn(s \o u) = d \o e
      BY <1>2
    <2> HIDE DEF d, e, w
    <2>5. Append(d \o e, x) = d \o Append(e, x)
      BY <1>0, <2>3, AppendJoined
    <2>6. DigitsIn(s \o w) = d \o DigitsIn(w)
      BY <2>2, <2>3, <2>4, <2>5
    <2>7. Splits(w)
      BY <2>6 DEF d
    <2> HIDE DEF Splits
    <2> QED
      BY <2>1, <2>7 DEF w
  <1>3. t \in Seq(S) /\ \A n \in 1..Len(t) : t[n] \in S
    OBVIOUS
  <1>4. \A n \in 1..Len(t) : \A u \in Seq(S) : u \in T /\ Len(u) = n - 1 => Append(u, t[n]) \in T
    BY <1>2, <1>3
  <1> HIDE DEF T, S
  <1>5. t \in T
    BY <1>1, <1>3, <1>4, ByAppending
  <1> QED
    BY <1>5 DEF T

LEMMA DigitsInAll ==
  ASSUME NEW t \in Seq(Nat), \A k \in 1..Len(t) : IsDigit(t[k])
  PROVE  DigitsIn(t) = t
  <1> DEFINE T == {u \in Seq(Nat) : DigitsIn(u) = u}
             S == Nat
  <1>1. <<>> \in T
    BY DigitsInNone
  <1>2. ASSUME NEW n \in 1..Len(t), NEW u \in Seq(S), u \in T PROVE Append(u, t[n]) \in T
    <2>1. t[n] \in Nat /\ IsDigit(t[n])
      OBVIOUS
    <2>2. Append(u, t[n]) \in Seq(Nat) /\ DigitsIn(u) = u
      BY <1>2, <2>1
    <2>3. DigitsIn(Append(u, t[n])) = Append(u, t[n])
      BY <2>1, <2>2, DigitsInAppend
    <2> QED
      BY <2>2, <2>3
  <1> HIDE DEF T
  <1>3. t \in Seq(S) /\ \A n \in 1..Len(t) : \A u \in Seq(S) : u \in T /\ Len(u) = n - 1 => Append(u, t[n]) \in T
    BY <1>2
  <1> HIDE DEF S
  <1>4. t \in T
    BY <1>1, <1>3, ByAppending
  <1> QED
    BY <1>4 DEF T

LEMMA DigitsInOthers ==
  ASSUME NEW t \in Seq(Nat), \A k \in 1..Len(t) : ~IsDigit(t[k])
  PROVE  DigitsIn(t) = <<>>
  <1> DEFINE T == {u \in Seq(Nat) : DigitsIn(u) = <<>>}
             S == Nat
  <1>1. <<>> \in T
    BY DigitsInNone
  <1>2. ASSUME NEW n \in 1..Len(t), NEW u \in Seq(S), u \in T PROVE Append(u, t[n]) \in T
    <2>1. t[n] \in Nat /\ ~IsDigit(t[n])
      OBVIOUS
    <2>2. Append(u, t[n]) \in Seq(Nat) /\ DigitsIn(u) = <<>>
      BY <1>2, <2>1
    <2>3. DigitsIn(Append(u, t[n])) = <<>>
      BY <2>1, <2>2, DigitsInAppend
    <2> QED
      BY <2>2, <2>3
  <1> HIDE DEF T
  <1>3. t \in Seq(S) /\ \A n \in 1..Len(t) : \A u \in Seq(S) : u \in T /\ Len(u) = n - 1 => Append(u, t[n]) \in T
    BY <1>2
  <1> HIDE DEF S
  <1>4. t \in T
    BY <1>1, <1>3, ByAppending
  <1> QED
    BY <1>4 DEF T

-----------------------------------------------------------------------------
(* The last digits of a number.                                            *)
LEMMA RemainderOf ==
  ASSUME NEW x \in Nat, NEW b \in Nat \ {0}, NEW p \in Nat \ {0}, NEW c, ProductOf(c, b, p)
  PROVE  x % c = ((x \div b) % p) * b + (x % b)
  <1> DEFINE q == x \div b
             r == x % b
             y == q \div p
             z == q % p
  <1>1. q \in Nat /\ r \in 0..(b - 1) /\ x = q * b + r
    BY Division
  <1>2. y \in Nat /\ z \in 0..(p - 1) /\ q = y * p + z
    BY <1>1, Division
  <1> HIDE DEF q, r, y, z
  <1>3. x = y * c + (z * b + r)
    <2>1. (y * p + z) * b = y * (b * p) + z * b
      BY <1>2
    <2> QED
      BY <1>1, <1>2, <2>1 DEF ProductOf
  <1>4. z * b + r \in 0..(c - 1) /\ c \in Nat \ {0}
    <2>1. (z + 1) * b <= p * b /\ (z + 1) * b = z * b + b /\ z * b \in Nat
      <3>1. z + 1 <= p /\ z + 1 \in Nat
        BY <1>2
      <3>2. (z + 1) * b <= p * b
        BY <3>1, ProductGrows
      <3>3. (z + 1) * b = z * b + b /\ z * b \in Nat
        BY <1>2
      <3> QED
        BY <3>2, <3>3
    <2>2. p * b = c /\ c \in Nat \ {0}
      BY DEF ProductOf
    <2> QED
      BY <1>1, <2>1, <2>2
  <1>5. x % c = z * b + r
    <2> DEFINE w == z * b + r
    <2>1. w \in 0..(c - 1) /\ x = y * c + w /\ c \in Nat \ {0} /\ x \in Int /\ y \in Int
      BY <1>2, <1>3, <1>4
    <2> HIDE DEF w
    <2>2. x % c = w
      BY <2>1, DivisionIs
    <2> QED
      BY <2>2 DEF w
  <1> QED
    BY <1>5 DEF q, r, z

LEMMA LastDigitsType ==
  ASSUME NEW v \in Nat, NEW n \in Nat, NEW base \in Nat, base >= 2
  PROVE  /\ LastDigits(v, n, base) \in Seq(0..(base - 1)) /\ LastDigits(v, n, base) \in Seq(Nat)
         /\ Len(LastDigits(v, n, base)) = n
  <1>1. ASSUME NEW k \in 1..n PROVE (v \div Power(base, n - k)) % base \in 0..(base - 1)
    <2>1. n - k \in Nat /\ base \in Nat \ {0}
      OBVIOUS
    <2> DEFINE p == Power(base, n - k)
    <2>2. p \in Nat \ {0}
      BY <2>1, PowerOfPositive
    <2> HIDE DEF p
    <2> DEFINE q == v \div p
    <2>3. q \in Nat
      BY <2>2, Division
    <2> HIDE DEF q
    <2>4. q % base \in 0..(base - 1)
      BY <2>1, <2>3, Division
    <2> QED
      BY <2>4 DEF p, q
  <1>2. LastDigits(v, n, base) = [k \in 1..n |-> (v \div Power(base, n - k)) % base]
    BY DEF LastDigits
  <1>3. LastDigits(v, n, base) \in [1..n -> 0..(base - 1)]
    BY <1>1, <1>2
  <1>4. \A d \in 0..(base - 1) : d \in Nat
    OBVIOUS
  <1>5. LastDigits(v, n, base) \in Seq(0..(base - 1)) /\ Len(LastDigits(v, n, base)) = n
    BY <1>3
  <1>6. LastDigits(v, n, base) \in [1..n -> Nat]
    BY <1>3, <1>4
  <1> QED
    BY <1>5, <1>6

(* The last digit follows those of the quotient.                           *)
LEMMA LastDigitsAppend ==
  ASSUME NEW v \in Nat, NEW n \in Nat \ {0}, NEW base \in Nat, base >= 2
  PROVE  LastDigits(v, n, base) = Append(LastDigits(v \div base, n - 1, base), v % base)
  <1> DEFINE q == v \div base
             r == v % base
             s == LastDigits(q, n - 1, base)
             t == LastDigits(v, n, base)
  <1>1. q \in Nat /\ r \in Nat /\ base \in Nat \ {0} /\ n - 1 \in Nat
    BY Division
  <1>2. t = [k \in 1..n |-> (v \div Power(base, n - k)) % base]
    BY DEF LastDigits
  <1>3. s = [k \in 1..(n - 1) |-> (q \div Power(base, (n - 1) - k)) % base]
    BY DEF LastDigits
  <1>4. s \in Seq(Nat) /\ Len(s) = n - 1 /\ t \in Seq(Nat) /\ Len(t) = n
    <2>1. s \in Seq(Nat) /\ Len(s) = n - 1
      <3> DEFINE m == n - 1
      <3>1. m \in Nat
        BY <1>1
      <3> HIDE DEF m, q
      <3> QED
        BY <1>1, <3>1, LastDigitsType
    <2>2. t \in Seq(Nat) /\ Len(t) = n
      BY LastDigitsType
    <2> QED
      BY <2>1, <2>2
  <1>5. ASSUME NEW k \in 1..(n - 1) PROVE t[k] = s[k]
    <2> DEFINE m == (n - 1) - k
    <2>1. m \in Nat /\ n - k = m + 1 /\ k \in 1..n
      BY <1>1
    <2> HIDE DEF m
    <2>2. Power(base, m) \in Nat \ {0} /\ Power(base, m + 1) = base * Power(base, m)
      BY <1>1, <2>1, PowerOfPositive, PowerAfter
    <2>3. ProductOf(Power(base, m + 1), base, Power(base, m))
      BY <2>2 DEF ProductOf
    <2>4. v \div Power(base, m + 1) = q \div Power(base, m)
      BY <1>1, <2>2, <2>3, Quotients
    <2>5. t[k] = (v \div Power(base, m + 1)) % base
      BY <1>2, <2>1
    <2>6. s[k] = (q \div Power(base, m)) % base
      BY <1>3 DEF m
    <2> QED
      BY <2>4, <2>5, <2>6
  <1>6. t[n] = r
    <2>1. n \in 1..n /\ n - n = 0
      OBVIOUS
    <2>2. t[n] = (v \div Power(base, 0)) % base
      BY <1>2, <2>1
    <2>3. v \div 1 = v
      OBVIOUS
    <2> QED
      BY <1>1, <2>2, <2>3, PowerOfZero
  <1> HIDE DEF q, r, s, t
  <1>7. t = Append(s, r)
    BY <1>1, <1>4, <1>5, <1>6
  <1> QED
    BY <1>7 DEF q, r, s, t

LEMMA LastDigitsRead ==
  ASSUME NEW v \in Nat, NEW n \in Nat, NEW base \in Nat, base >= 2
  PROVE  ValueOf(LastDigits(v, n, base), base) = v % Power(base, n)
  <1> DEFINE Reads(x, m) == ValueOf(LastDigits(x, m, base), base) = x % Power(base, m)
             T == {m \in 0..n : \A x \in Nat : Reads(x, m)}
  <1>1. 0 \in T
    <2>1. ASSUME NEW x \in Nat PROVE Reads(x, 0)
      <3> DEFINE z == 0
                 s == LastDigits(x, z, base)
      <3>1. s \in Seq(Nat) /\ Len(s) = z
        <4>1. z \in Nat
          OBVIOUS
        <4> HIDE DEF z
        <4> QED
          BY <4>1, LastDigitsType
      <3> HIDE DEF s
      <3>2. s = <<>>
        BY <3>1
      <3>3. ValueOf(s, base) = 0
        BY <3>2, ValueOfNone
      <3>4. x % 1 = 0
        OBVIOUS
      <3>5. Power(base, 0) = 1
        BY PowerOfZero
      <3> QED
        BY <3>3, <3>4, <3>5 DEF s
    <2> HIDE DEF Reads
    <2> QED
      BY <2>1
  <1>2. ASSUME NEW m \in 1..n, m - 1 \in T PROVE m \in T
    <2>1. ASSUME NEW x \in Nat PROVE Reads(x, m)
      <3> DEFINE q == x \div base
                 r == x % base
                 i == m - 1
                 p == Power(base, i)
                 s == LastDigits(q, i, base)
      <3>1. q \in Nat /\ r \in Nat /\ base \in Nat \ {0} /\ i \in Nat /\ m \in Nat \ {0} /\ m = i + 1
        BY Division
      <3>2. LastDigits(x, m, base) = Append(s, r)
        BY <3>1, LastDigitsAppend
      <3>3. Reads(q, i)
        BY <1>2, <3>1
      <3>4. ValueOf(s, base) = q % p
        BY <3>3
      <3> HIDE DEF q, r, i
      <3>5. p \in Nat \ {0} /\ Power(base, m) = base * p
        BY <3>1, PowerAfter, PowerOfPositive
      <3>6. s \in Seq(Nat)
        BY <3>1, LastDigitsType
      <3> HIDE DEF p, s
      <3>7. ValueOf(Append(s, r), base) = (q % p) * base + r
        BY <3>1, <3>4, <3>6, ValueOfAppend
      <3>8. ProductOf(Power(base, m), base, p)
        BY <3>5 DEF ProductOf
      <3>9. x % Power(base, m) = (q % p) * base + r
        <4> DEFINE c == Power(base, m)
        <4>0. base \in Nat \ {0} /\ p \in Nat \ {0}
          BY <3>1, <3>5
        <4>1. ProductOf(c, base, p)
          BY <3>8
        <4> HIDE DEF c
        <4>2. x % c = ((x \div base) % p) * base + (x % base)
          BY ONLY x \in Nat, <4>0, <4>1, RemainderOf
        <4> QED
          BY <4>2 DEF c, q, r
      <3> QED
        BY <3>2, <3>7, <3>9
    <2>2. m \in 0..n
      OBVIOUS
    <2> HIDE DEF Reads
    <2> QED
      BY <2>1, <2>2
  <1> HIDE DEF T
  <1>3. n \in T
    BY <1>1, <1>2, Upwards
  <1> QED
    BY <1>3 DEF T

-----------------------------------------------------------------------------
(* A recursive function exists if what it is of an argument depends on what*)
(* it is of smaller ones, by a measure that is bounded.                    *)
Contracts(B, S, V, mu, M) ==
  /\ B \in [[S -> V] -> [S -> V]] /\ mu \in [S -> 0..M]
  /\ \A g, h \in [S -> V] : \A s \in S :
       (\A t \in S : mu[t] < mu[s] => g[t] = h[t]) => B[g][s] = B[h][s]

FixedPoint(f, B, S, V) == f \in [S -> V] /\ f = B[f]

LEMMA FixedBy ==
  ASSUME NEW S, NEW V, NEW v \in V, NEW M \in Nat, NEW B, NEW mu, Contracts(B, S, V, mu, M)
  PROVE  \E f : FixedPoint(f, B, S, V)
  <1> DEFINE F    == [S -> V]
             base == [s \in S |-> v]
             top  == M + 2
             step == [x \in F \X (1..top) |-> B[x[1]]]
  <1>1. base \in F /\ top \in Nat
    OBVIOUS
  <1>2. \A g \in F : B[g] \in F
    BY DEF Contracts
  <1>3. /\ \A s \in S : mu[s] \in 0..M
        /\ \A g, h \in F : \A s \in S : (\A t \in S : mu[t] < mu[s] => g[t] = h[t]) => B[g][s] = B[h][s]
    BY DEF Contracts
  <1> HIDE DEF F, base, top
  <1>4. \A g \in F : \A n \in 1..top : step[<<g, n>>] = B[g]
    OBVIOUS
  <1>5. StepsOf(step, F, top)
    BY <1>2, <1>4 DEF StepsOf
  <1> HIDE DEF step
  <1>6. PICK f : IteratesOf(f, F, base, step, top)
    BY <1>1, <1>5, Iterates
  <1>7. /\ \A n \in 0..top : f[n] \in F
        /\ \A n \in 1..top : f[n] = B[f[n - 1]]
    <2>1. f \in [0..top -> F] /\ \A n \in 1..top : f[n] = step[<<f[n - 1], n>>]
      BY <1>6 DEF IteratesOf
    <2>2. \A n \in 1..top : n - 1 \in 0..top
      BY <1>1
    <2> QED
      BY <1>4, <2>1, <2>2
  <1> DEFINE T == {n \in 0..(M + 1) : \A s \in S : mu[s] < n => f[n + 1][s] = f[n][s]}
  <1>8. 0 \in T
    BY <1>3
  <1>9. ASSUME NEW n \in 1..(M + 1), n - 1 \in T PROVE n \in T
    <2> SUFFICES ASSUME NEW s \in S, mu[s] < n PROVE f[n + 1][s] = f[n][s]
      OBVIOUS
    <2>1. /\ n \in 1..top /\ n + 1 \in 1..top /\ (n + 1) - 1 = n /\ (n - 1) + 1 = n
          /\ n \in 0..top /\ n - 1 \in 0..top
      BY <1>1 DEF top
    <2>2. f[n + 1] = B[f[n]] /\ f[n] = B[f[n - 1]] /\ f[n] \in F /\ f[n - 1] \in F
      BY <1>7, <2>1
    <2>3. ASSUME NEW t \in S, mu[t] < mu[s] PROVE f[n][t] = f[n - 1][t]
      <3>1. mu[t] < n - 1
        BY <1>3, <2>3
      <3> QED
        BY <1>9, <2>1, <3>1
    <2>4. B[f[n]][s] = B[f[n - 1]][s]
      BY <1>3, <2>2, <2>3
    <2> QED
      BY <2>2, <2>4
  <1> DEFINE last == M + 1
             w    == f[last]
  <1>10. last \in T
    <2> HIDE DEF T
    <2>1. \A n \in 0..last : n \in T
      BY <1>8, <1>9, Upwards
    <2> QED
      BY <2>1
  <1>11. \A s \in S : f[last + 1][s] = w[s]
    BY <1>3, <1>10
  <1>12. w \in F /\ f[last + 1] \in F /\ f[last + 1] = B[w]
    <2>1. last \in 0..top /\ last + 1 \in 1..top /\ last + 1 \in 0..top /\ (last + 1) - 1 = last
      BY <1>1 DEF top
    <2> HIDE DEF last
    <2> QED
      BY <1>7, <2>1
  <1> HIDE DEF w, last, T
  <1>13. f[last + 1] = w
    BY <1>11, <1>12 DEF F
  <1> QED
    BY <1>12, <1>13 DEF F, FixedPoint

-----------------------------------------------------------------------------
(* Doubles.                                                                *)
Shares == Power(2, Precision)

LEMMA TwoPowerGrows ==
  ASSUME NEW m \in Nat, NEW n \in Nat, m <= n
  PROVE  Power(2, m) <= Power(2, n)
  <1> DEFINE two == 2
             d == n - m
             T == {k \in 0..d : Power(two, m) <= Power(two, m + k)}
  <1>1. two \in Nat \ {0} /\ d \in Nat /\ m + d = n /\ two >= 1
    OBVIOUS
  <1> HIDE DEF d
  <1>2. \A k \in Nat : Power(two, k) \in Nat /\ Power(two, k + 1) = 2 * Power(two, k)
    BY <1>1, PowerAfter DEF two
  <1> HIDE DEF two
  <1>3. 0 \in T
    <2>1. m + 0 = m /\ 0 \in 0..d /\ Power(two, m) <= Power(two, m)
      BY <1>1, <1>2
    <2> QED
      BY <2>1
  <1>4. ASSUME NEW k \in 1..d, k - 1 \in T PROVE k \in T
    <2>1. k - 1 \in Nat /\ m + (k - 1) \in Nat /\ (m + (k - 1)) + 1 = m + k
      BY <1>1
    <2> DEFINE a == Power(two, m)
               b == Power(two, m + (k - 1))
    <2>2. a \in Nat /\ b \in Nat /\ a <= b /\ Power(two, m + k) = 2 * b
      BY <1>2, <1>4, <2>1
    <2>3. a <= 2 * b
      <3> HIDE DEF a, b
      <3> QED
        BY <2>2
    <2> QED
      BY <2>2, <2>3
  <1> HIDE DEF T
  <1>5. d \in T
    <2>1. \A k \in 0..d : k \in T
      BY <1>1, <1>3, <1>4, Upwards
    <2> QED
      BY <1>1, <2>1
  <1> QED
    BY <1>1, <1>5 DEF T, two

(* The parts that the bits of a double tell apart are eight at least, and  *)
(* one is so many times the smallest double.                               *)
LEMMA PartsType ==
  /\ Shares \in Nat /\ Shares >= 8
  /\ OneHalf \in Nat \ {0} /\ One = 2 * OneHalf /\ One \in Nat \ {0} /\ One >= Shares
  <1>1. Precision \in Nat /\ Precision >= 3 /\ Places \in Nat /\ Places >= Precision
    BY NumbersAssumption
  <1>2. Power(2, 3) = 8
    <2> DEFINE two == 2
    <2>1. two \in Nat
      OBVIOUS
    <2> HIDE DEF two
    <2>2. /\ Power(two, 0) = 1 /\ Power(two, 0 + 1) = two * Power(two, 0)
          /\ Power(two, 1 + 1) = two * Power(two, 1) /\ Power(two, 2 + 1) = two * Power(two, 2)
      BY <2>1, PowerOfZero, PowerAfter
    <2>3. /\ Power(2, 0) = 1 /\ Power(2, 1) = 2 * Power(2, 0)
          /\ Power(2, 2) = 2 * Power(2, 1) /\ Power(2, 3) = 2 * Power(2, 2)
      BY <2>2 DEF two
    <2> QED
      BY <2>3
  <1> DEFINE two == 2
             h == Places - 1
  <1>3. h \in Nat /\ h + 1 = Places /\ two \in Nat \ {0}
    BY <1>1
  <1> HIDE DEF h, two
  <1>4. Power(two, h) \in Nat \ {0} /\ Power(two, h + 1) = two * Power(two, h)
    BY <1>3, PowerOfPositive, PowerAfter
  <1>5. Power(two, Precision) \in Nat
    BY <1>1, <1>3, PowerAfter
  <1>6. 3 \in Nat
    OBVIOUS
  <1>7. Power(2, 3) <= Power(2, Precision)
    BY <1>1, <1>6, TwoPowerGrows
  <1>8. Power(2, Precision) <= Power(2, Places)
    BY <1>1, TwoPowerGrows
  <1>9. OneHalf \in Nat \ {0} /\ One = 2 * OneHalf
    BY <1>3, <1>4 DEF OneHalf, One, h, two
  <1>10. Shares \in Nat /\ Shares >= 8 /\ One >= Shares
    <2>1. Shares \in Nat
      BY <1>5 DEF Shares, two
    <2>2. One \in Nat
      BY <1>9
    <2> QED
      BY <1>2, <1>7, <1>8, <2>1, <2>2 DEF Shares, One
  <1> QED
    BY <1>9, <1>10

SpacesOf(f, m) == f = [k \in 0..m |-> IF k < Shares THEN 1 ELSE 2 * f[k \div 2]]

LEMMA HalfBelow ==
  ASSUME NEW k \in Nat, k > 0
  PROVE  k \div 2 \in 0..(k - 1) /\ 2 * (k \div 2) <= k /\ k <= 2 * (k \div 2) + 1
  OBVIOUS

LEMMA SpacesExist ==
  ASSUME NEW m \in Nat
  PROVE  \E f : SpacesOf(f, m)
  <1> DEFINE S == 0..m
             F == [S -> Nat]
             Next2(g, k) == IF k < Shares THEN 1 ELSE 2 * g[k \div 2]
             B == [g \in F |-> [k \in S |-> Next2(g, k)]]
             mu == [k \in S |-> k]
  <1>1. ASSUME NEW k \in S, ~(k < Shares) PROVE k \div 2 \in S /\ k \div 2 < k /\ k \in Nat
    <2>1. k \in Nat /\ k > 0
      BY <1>1, PartsType
    <2> DEFINE h == k \div 2
    <2>2. h \in 0..(k - 1)
      BY <2>1, HalfBelow
    <2> HIDE DEF h
    <2>3. h \in 0..m /\ h < k
      BY <2>1, <2>2
    <2> QED
      BY <2>1, <2>3 DEF h
  <1>2. mu \in [S -> 0..m]
    OBVIOUS
  <1>3. \A k \in S : mu[k] = k
    OBVIOUS
  <1> HIDE DEF S, mu
  <1>4. ASSUME NEW g \in F, NEW k \in S PROVE Next2(g, k) \in Nat
    BY <1>1
  <1>5. ASSUME NEW g \in F, NEW h \in F, NEW k \in S, \A t \in S : mu[t] < mu[k] => g[t] = h[t]
        PROVE  Next2(g, k) = Next2(h, k)
    BY <1>1, <1>3, <1>5
  <1> HIDE DEF Next2
  <1>6. \A g \in F : B[g] = [k \in S |-> Next2(g, k)] /\ B[g] \in F
    BY <1>4
  <1>7. B \in [F -> F]
    BY <1>6
  <1>8. \A g, h \in F : \A k \in S : (\A t \in S : mu[t] < mu[k] => g[t] = h[t]) => B[g][k] = B[h][k]
    BY <1>5, <1>6
  <1> HIDE DEF B
  <1>9. Contracts(B, S, Nat, mu, m)
    BY <1>2, <1>7, <1>8 DEF Contracts
  <1>10. PICK f : FixedPoint(f, B, S, Nat)
    <2>1. 0 \in Nat
      OBVIOUS
    <2> QED
      BY <1>9, <2>1, FixedBy
  <1>11. f = [k \in S |-> Next2(f, k)]
    BY <1>6, <1>10 DEF FixedPoint
  <1> QED
    BY <1>11 DEF SpacesOf, S, Next2

(* A number is less than so many spaces as there are parts, and not less   *)
(* than half of them but where the space is the least.                     *)
Spaced(s, m) == s \in Nat \ {0} /\ m < Shares * s /\ (s = 1 \/ 2 * m >= Shares * s)

LEMMA SpacingIs ==
  ASSUME NEW n \in Nat, NEW d \in Nat \ {0}
  PROVE  Spaced(Spacing(n, d), n \div d)
  <1> DEFINE m == n \div d
             g == CHOOSE f : f = [k \in 0..m |-> IF k < Power(2, Precision) THEN 1
                                                 ELSE 2 * f[k \div 2]]
  <1>1. m \in Nat
    BY Division
  <1>2. Spacing(n, d) = g[m]
    BY DEF Spacing
  <1> HIDE DEF m
  <1>3. \E f : f = [k \in 0..m |-> IF k < Power(2, Precision) THEN 1 ELSE 2 * f[k \div 2]]
    BY <1>1, SpacesExist DEF SpacesOf, Shares
  <1>4. g = [k \in 0..m |-> IF k < Shares THEN 1 ELSE 2 * g[k \div 2]]
    BY <1>3 DEF Shares
  <1> HIDE DEF g
  <1>5. \A k \in 0..m : g[k] = IF k < Shares THEN 1 ELSE 2 * g[k \div 2]
    BY <1>4
  <1> DEFINE T == {k \in 0..m : ~Spaced(g[k], k)}
  <1>6. ASSUME T # {} PROVE FALSE
    <2>1. PICK k \in T : \A i \in T : k <= i
      <3>1. T \in SUBSET Nat
        OBVIOUS
      <3> HIDE DEF T
      <3> QED
        BY <1>6, <3>1, LeastNat
    <2>2. k \in 0..m /\ ~Spaced(g[k], k) /\ k \in Nat
      OBVIOUS
    <2>3. CASE k < Shares
      <3>1. g[k] = 1
        BY <1>5, <2>2, <2>3
      <3>2. k < Shares * 1
        BY <2>3, PartsType
      <3> QED
        BY <2>2, <3>1, <3>2 DEF Spaced
    <2>4. CASE ~(k < Shares)
      <3> DEFINE h == k \div 2
                 s == g[h]
      <3>1. k > 0
        BY <2>2, <2>4, PartsType
      <3>2. h \in 0..(k - 1) /\ 2 * h <= k /\ k <= 2 * h + 1
        BY <2>2, <3>1, HalfBelow
      <3>3. g[k] = 2 * s
        BY <1>5, <2>2, <2>4
      <3> HIDE DEF h
      <3>4. h \in 0..m /\ ~(k <= h) /\ h \in Nat
        BY <1>1, <2>2, <3>2
      <3>5. Spaced(s, h)
        BY <2>1, <3>4
      <3> HIDE DEF s
      <3>6. s \in Nat \ {0} /\ h < Shares * s /\ (s = 1 \/ 2 * h >= Shares * s)
        BY <3>5 DEF Spaced
      <3> DEFINE p == Shares * s
      <3>7. p \in Nat /\ Shares * (2 * s) = 2 * p /\ (s = 1 => p = Shares)
        BY <3>6, PartsType
      <3> HIDE DEF p
      <3>8. h < p /\ (s = 1 \/ 2 * h >= p)
        BY <3>6 DEF p
      <3>9. k < 2 * p /\ 2 * k >= 2 * p
        <4>1. k >= Shares
          BY <2>2, <2>4, PartsType
        <4> QED
          BY <2>2, <3>2, <3>4, <3>7, <3>8, <4>1
      <3>10. Spaced(2 * s, k)
        BY <2>2, <3>6, <3>7, <3>9 DEF Spaced
      <3> QED
        BY <2>2, <3>3, <3>10
    <2> QED
      BY <2>3, <2>4
  <1>7. Spaced(g[m], m)
    BY <1>1, <1>6
  <1> QED
    BY <1>2, <1>7 DEF m

(* A number is rounded by no more than its share of the parts, provided    *)
(* the least space is not too large for it.                                *)
Within(x, y, c) == Shares * (x - y) <= c /\ Shares * (y - x) <= c

LEMMA RoundedNear ==
  ASSUME NEW n \in Nat, NEW d \in Nat \ {0}, d = 1 \/ 2 * n >= d * Shares
  PROVE  Rounded(n, d) \in Nat /\ Within(Rounded(n, d) * d, n, n)
  <1> DEFINE m == n \div d
             s == Spacing(n, d)
             c == d * s
             q == n \div c
             r == n % c
             up == 2 * r > c \/ (2 * r = c /\ q % 2 = 1)
             R == s * IF up THEN q + 1 ELSE q
             E == Shares
  <1>1. E \in Nat /\ E >= 8
    BY PartsType
  <1>2. Rounded(n, d) = R
    BY DEF Rounded
  <1>3. Spaced(s, m)
    BY SpacingIs
  <1>4. m \in Nat /\ m * d <= n
    <2>1. m \in Nat /\ n % d \in Nat /\ n = m * d + (n % d)
      BY Division
    <2> DEFINE z == m * d
    <2>2. z \in Nat
      BY <2>1
    <2> HIDE DEF z
    <2> QED
      BY <2>1, <2>2 DEF z
  <1> HIDE DEF s, m, E
  <1>5. s \in Nat \ {0} /\ (s = 1 \/ 2 * m >= E * s)
    BY <1>3 DEF Spaced, E
  <1>6. c \in Nat \ {0} /\ R = (IF up THEN q + 1 ELSE q) * s
    <2>1. c \in Nat /\ c # 0
      BY <1>5
    <2> HIDE DEF c
    <2>2. q \in Nat
      BY <2>1, Division
    <2> HIDE DEF q
    <2> QED
      BY <1>5, <2>1, <2>2
  <1> DEFINE t == IF up THEN q + 1 ELSE q
  <1>7. R * d = t * c /\ R \in Nat
    <2>1. q \in Nat
      <3> HIDE DEF c
      <3> QED
        BY <1>6, Division
    <2> HIDE DEF q
    <2>2. t \in Nat
      BY <2>1
    <2> HIDE DEF t, up
    <2>3. R = s * t
      BY DEF t
    <2>4. (s * t) * d = t * (d * s) /\ s * t \in Nat
      BY <1>5, <2>2
    <2> HIDE DEF R
    <2> QED
      BY <2>3, <2>4
  <1> HIDE DEF R
  <1>8. (d = 1 /\ s = 1) \/ 2 * n >= E * c
    <2>1. CASE s = 1
      <3>1. c = d
        BY <2>1
      <3>2. d * Shares = E * d
        BY <1>1 DEF E
      <3> QED
        BY <2>1, <3>1, <3>2
    <2>2. CASE s # 1
      <3>1. 2 * m >= E * s
        BY <1>5, <2>2
      <3> DEFINE a == E * s
                 b == 2 * m
      <3>2. a \in Nat /\ b \in Nat /\ a <= b /\ b * d = 2 * (m * d) /\ a * d = E * c
        BY <1>1, <1>4, <1>5, <3>1
      <3> HIDE DEF a, b
      <3>3. a * d <= b * d
        BY <3>2, ProductGrows
      <3> DEFINE y == m * d
                 w == E * c
      <3>4. w <= 2 * y /\ y <= n /\ y \in Nat /\ w \in Nat
        <4>1. y \in Nat
          BY <1>4
        <4>2. w \in Nat
          BY <1>1, <1>6
        <4> QED
          BY <1>4, <3>2, <3>3, <4>1, <4>2
      <3> HIDE DEF y, w
      <3>5. 2 * n >= w
        BY <3>4
      <3> QED
        BY <3>5 DEF w
    <2> QED
      BY <2>1, <2>2
  <1>9. d = 1 /\ s = 1 => c = 1
    OBVIOUS
  <1> HIDE DEF c
  <1>10. q \in Nat /\ r \in Nat /\ r < c /\ n = q * c + r
    BY <1>6, Division
  <1> DEFINE e == R * d - n
             z == q * c
  <1>11. e \in Int /\ -c <= 2 * e /\ 2 * e <= c /\ (c = 1 => e = 0)
    <2> HIDE DEF q, r
    <2>0. z \in Nat /\ n = z + r /\ R * d = t * c
      BY <1>6, <1>7, <1>10
    <2>1. CASE up
      <3>1. 2 * r >= c
        BY <1>6, <1>10, <2>1
      <3>2. t * c = z + c
        <4>1. t = q + 1
          BY <2>1
        <4>2. (q + 1) * c = q * c + c
          BY <1>6, <1>10
        <4> QED
          BY <4>1, <4>2
      <3> HIDE DEF z, t, up
      <3> QED
        BY <1>6, <1>10, <2>0, <3>1, <3>2
    <2>2. CASE ~up
      <3>1. 2 * r <= c
        BY <1>6, <1>10, <2>2
      <3>2. t * c = z
        BY <2>2
      <3> HIDE DEF z, t, up
      <3> QED
        BY <1>6, <1>10, <2>0, <3>1, <3>2
    <2> QED
      BY <2>1, <2>2
  <1> HIDE DEF e, q, r, t
  <1>12. E * e <= n /\ E * (-e) <= n
    <2>1. CASE c = 1
      <3>1. e = 0
        BY <1>11, <2>1
      <3>2. E * e = 0 /\ E * (-e) = 0
        BY <1>1, <3>1
      <3> QED
        BY <3>2
    <2>2. CASE 2 * n >= E * c
      <3>1. ASSUME NEW i \in Int, 2 * i <= c PROVE E * i <= n
        <4>1. PICK k \in Nat : c = 2 * i + k
          <5>1. c - 2 * i \in Nat /\ c = 2 * i + (c - 2 * i)
            BY <1>6, <3>1
          <5> QED
            BY <5>1
        <4> DEFINE x == E * i
                   y == E * k
        <4>2. x \in Int /\ y \in Nat /\ E * c = 2 * x + y
          BY <1>1, <4>1
        <4> HIDE DEF x, y
        <4>3. x <= n
          BY <2>2, <4>2
        <4> QED
          BY <4>3 DEF x
      <3>2. 2 * (-e) <= c /\ -e \in Int
        BY <1>6, <1>11
      <3> QED
        BY <1>11, <3>1, <3>2
    <2> QED
      BY <1>8, <1>9, <2>1, <2>2
  <1>13. R * d - n = e /\ n - R * d = -e
    <2>1. R * d \in Nat
      BY <1>7
    <2> QED
      BY <2>1 DEF e
  <1> QED
    BY <1>2, <1>7, <1>12, <1>13 DEF Within, E

(* A double is rounded to itself, and so is a number that is one.          *)
LEMMA RoundedExact ==
  ASSUME NEW t \in Nat, IsDouble(t), NEW d \in Nat \ {0}, NEW n, ProductOf(n, t, d)
  PROVE  Rounded(n, d) = t
  <1> DEFINE s == Spacing(t, 1)
             q == t \div s
             r == t % s
  <1>1. s \in Nat \ {0}
    BY SpacingIs DEF Spaced
  <1>2. n \in Nat /\ n = t * d /\ n \div d = t
    <2>1. n = t * d /\ n \in Nat
      BY DEF ProductOf
    <2>2. t * d <= n /\ n < (t + 1) * d
      <3>1. (t + 1) * d = t * d + d /\ t * d \in Nat
        OBVIOUS
      <3> QED
        BY <2>1, <3>1
    <2> QED
      BY <2>1, <2>2, QuotientIs
  <1>3. Spacing(n, d) = s
    <2>1. t \div 1 = t
      OBVIOUS
    <2> QED
      BY <1>2, <2>1 DEF Spacing
  <1>4. \E k \in Nat : t = k * s
    <2> DEFINE c == 1 * s
               k == t \div c
               up == 2 * (t % c) > c \/ (2 * (t % c) = c /\ k % 2 = 1)
               j == IF up THEN k + 1 ELSE k
    <2>1. c \in Nat \ {0}
      BY <1>1
    <2>2. t = s * j
      BY DEF IsDouble, Rounded
    <2> HIDE DEF c
    <2>3. k \in Nat
      BY <2>1, Division
    <2> HIDE DEF k
    <2>4. j \in Nat
      BY <2>3
    <2> HIDE DEF j
    <2>5. t = j * s
      BY <1>1, <2>2, <2>4
    <2> HIDE DEF s
    <2> QED
      BY <2>4, <2>5
  <1> HIDE DEF s
  <1>5. PICK k \in Nat : t = k * s
    BY <1>4
  <1> DEFINE c == d * s
  <1>6. c \in Nat \ {0} /\ n = k * c /\ s * k = t
    BY <1>1, <1>2, <1>5
  <1> DEFINE down == Rounded(n, d)
  <1>7. n \div c = k /\ n % c = 0
    <2> HIDE DEF c
    <2>1. k * c <= n /\ n < (k + 1) * c
      <3>1. (k + 1) * c = k * c + c /\ k * c \in Nat
        BY <1>6
      <3> QED
        BY <1>6, <3>1
    <2>2. n \div c = k
      BY <1>2, <1>6, <2>1, QuotientIs
    <2> QED
      BY <1>2, <1>6, <2>2, MultipleIs
  <1>8. Rounded(n, d) =
          s * IF 2 * (n % c) > c \/ (2 * (n % c) = c /\ (n \div c) % 2 = 1)
              THEN (n \div c) + 1 ELSE n \div c
    BY <1>3 DEF Rounded
  <1> HIDE DEF c, down
  <1>9. ~(2 * (n % c) > c \/ (2 * (n % c) = c /\ (n \div c) % 2 = 1))
    BY <1>6, <1>7
  <1>10. Rounded(n, d) = s * k
    BY <1>7, <1>8, <1>9
  <1> QED
    BY <1>6, <1>10

LEMMA WholeRounded ==
  ASSUME NEW n \in Nat
  PROVE  Rounded(n, 1) \in Nat /\ Within(Rounded(n, 1), n, n)
  <1>1. Rounded(n, 1) \in Nat /\ Within(Rounded(n, 1) * 1, n, n)
    <2> DEFINE one == 1
    <2>1. one \in Nat \ {0}
      OBVIOUS
    <2>2. one = 1
      OBVIOUS
    <2> HIDE DEF one
    <2>3. Rounded(n, one) \in Nat /\ Within(Rounded(n, one) * one, n, n)
      BY <2>1, <2>2, RoundedNear
    <2> QED
      BY <2>3 DEF one
  <1> DEFINE R == Rounded(n, 1)
  <1>2. R * 1 = R
    <2> HIDE DEF R
    <2> QED
      BY <1>1 DEF R
  <1> QED
    BY <1>1, <1>2

(* The bounds of several roundings together.                               *)
LEMMA AtMostEighth ==
  ASSUME NEW a \in Int, NEW c \in Nat, Shares * a <= c
  PROVE  8 * a <= c
  <1> DEFINE E == Shares
  <1>1. E \in Nat /\ E >= 8 /\ E * a <= c
    BY PartsType
  <1> HIDE DEF E
  <1>2. CASE a <= 0
    BY <1>2
  <1>3. CASE a > 0
    <2>1. PICK k \in Nat : E = 8 + k
      <3>1. E - 8 \in Nat /\ E = 8 + (E - 8)
        BY <1>1
      <3> QED
        BY <3>1
    <2>2. E * a = 8 * a + k * a /\ k * a \in Nat
      BY <1>3, <2>1
    <2> QED
      BY <1>1, <2>2
  <1> QED
    BY <1>2, <1>3

LEMMA WithinScaled ==
  ASSUME NEW x \in Int, NEW y \in Int, NEW c \in Nat, Within(x, y, c), NEW u \in Nat
  PROVE  Within(x * u, y * u, c * u)
  <1> DEFINE E == Shares
  <1>1. E \in Nat
    BY PartsType
  <1>2. E * (x - y) <= c /\ E * (y - x) <= c
    BY DEF Within
  <1> HIDE DEF E
  <1>3. ASSUME NEW e \in Int, E * e <= c PROVE E * (e * u) <= c * u
    <2> DEFINE a == E * e
    <2>1. a \in Int /\ a <= c /\ E * (e * u) = a * u
      BY <1>1, <1>3
    <2> HIDE DEF a
    <2>2. PICK k \in Nat : c = a + k
      <3>1. c - a \in Nat /\ c = a + (c - a)
        BY <2>1
      <3> QED
        BY <3>1
    <2>3. c * u = a * u + k * u /\ k * u \in Nat /\ a * u \in Int
      BY <2>1, <2>2
    <2> QED
      BY <2>1, <2>3
  <1>4. (x - y) * u = x * u - y * u /\ (y - x) * u = y * u - x * u
    OBVIOUS
  <1>5. x - y \in Int /\ y - x \in Int
    OBVIOUS
  <1>6. E * ((x - y) * u) <= c * u /\ E * ((y - x) * u) <= c * u
    BY <1>2, <1>3, <1>5
  <1> QED
    BY <1>4, <1>6 DEF Within, E

(* A quotient rounded to within its share of one that is within a share of *)
(* another.                                                                *)
LEMMA WithinTwo ==
  ASSUME NEW x \in Nat, NEW y \in Nat, NEW z \in Nat, Within(y, z, z), Within(x, y, y)
  PROVE  Within(8 * x, 8 * z, 17 * z) /\ 8 * y <= 9 * z /\ 7 * z <= 8 * y
  <1> DEFINE E == Shares
             a == E * (y - z)
             b == E * (x - y)
  <1>1. E \in Nat
    BY PartsType
  <1>2. E * (y - z) <= z /\ E * (z - y) <= z /\ E * (x - y) <= y /\ E * (y - x) <= y
    BY DEF Within
  <1>3. 8 * (y - z) <= z /\ 8 * (z - y) <= z
    <2>1. y - z \in Int /\ z - y \in Int
      OBVIOUS
    <2> QED
      BY <1>2, <2>1, AtMostEighth
  <1> HIDE DEF E
  <1>4. /\ a \in Int /\ b \in Int /\ E * (z - y) = -a /\ E * (y - x) = -b
        /\ E * (8 * x - 8 * z) = 8 * (a + b) /\ E * (8 * z - 8 * x) = -(8 * (a + b))
    BY <1>1
  <1> HIDE DEF a, b
  <1>5. a <= z /\ -a <= z /\ b <= y /\ -b <= y
    BY <1>2, <1>4 DEF a, b
  <1>6. 8 * y <= 9 * z /\ 7 * z <= 8 * y
    BY <1>3
  <1>7. 8 * (a + b) <= 17 * z /\ -(8 * (a + b)) <= 17 * z
    BY <1>4, <1>5, <1>6
  <1> QED
    BY <1>4, <1>6, <1>7 DEF Within, E

LEMMA WithinSum ==
  ASSUME NEW w \in Nat, NEW x \in Nat, NEW y \in Nat, NEW z \in Nat, NEW h \in Nat,
         Within(8 * x, 8 * w, 17 * w), Within(y, x, x), Within(z, y + h, y + h)
  PROVE  Within(z, w + h, 5 * (w + h))
  <1> DEFINE E == Shares
             a == E * (x - w)
             b == E * (y - x)
             c == E * (z - (y + h))
  <1>1. E \in Nat
    BY PartsType
  <1>2. /\ E * (8 * x - 8 * w) <= 17 * w /\ E * (8 * w - 8 * x) <= 17 * w
        /\ E * (y - x) <= x /\ E * (x - y) <= x
        /\ E * (z - (y + h)) <= y + h /\ E * ((y + h) - z) <= y + h
    BY DEF Within
  <1>3. 8 * (8 * x - 8 * w) <= 17 * w /\ 8 * (y - x) <= x
    <2>1. 8 * x - 8 * w \in Int /\ 17 * w \in Nat /\ y - x \in Int
      OBVIOUS
    <2> QED
      BY <1>2, <2>1, AtMostEighth
  <1> HIDE DEF E
  <1>4. /\ a \in Int /\ b \in Int /\ c \in Int
        /\ E * (8 * x - 8 * w) = 8 * a /\ E * (8 * w - 8 * x) = -(8 * a)
        /\ E * (x - y) = -b /\ E * ((y + h) - z) = -c
        /\ E * (z - (w + h)) = a + b + c /\ E * ((w + h) - z) = -(a + b + c)
    BY <1>1
  <1> HIDE DEF a, b, c
  <1>5. 8 * a <= 17 * w /\ -(8 * a) <= 17 * w /\ b <= x /\ -b <= x /\ c <= y + h /\ -c <= y + h
    BY <1>2, <1>4 DEF a, b, c
  <1>6. a + b + c <= 5 * (w + h) /\ -(a + b + c) <= 5 * (w + h)
    BY <1>3, <1>4, <1>5
  <1> QED
    BY <1>4, <1>6 DEF Within, E

LEMMA SumType ==
  ASSUME NEW display \in Nat, NEW scale \in Nat, NEW sum \in Sums(display, scale)
  PROVE  sum \div One \in Nat
  <1> DEFINE x == display * scale
  <1>1. x \in Nat /\ OneHalf \in Nat
    BY PartsType
  <1>2. PICK product \in {x, Rounded(x, 1)} : sum = Rounded(product + OneHalf, 1)
    BY DEF Sums
  <1> HIDE DEF x
  <1>3. product \in Nat
    BY <1>1, <1>2, WholeRounded
  <1>4. sum \in Nat
    <2>1. product + OneHalf \in Nat
      BY <1>1, <1>3
    <2> QED
      BY <1>2, <2>1, WholeRounded
  <1> QED
    BY <1>4, PartsType, Division

(* What the code makes of a double of nearly v / u, times a scale.         *)
LEMMA SumNear ==
  ASSUME NEW v \in Nat, NEW u \in Nat \ {0}, NEW display \in Nat, NEW scale \in Nat,
         Within(8 * (display * u), 8 * (v * One), 17 * (v * One)),
         NEW sum \in Sums(display, scale)
  PROVE  /\ sum \in Nat
         /\ Within(sum * u, (v * One) * scale + OneHalf * u, 5 * ((v * One) * scale + OneHalf * u))
  <1> DEFINE one == One
             x == display * scale
             y == v * one
             w == y * scale
  <1>1. one \in Nat /\ OneHalf \in Nat /\ x \in Nat /\ y \in Nat /\ w \in Nat
    BY PartsType
  <1>2. PICK product \in {x, Rounded(x, 1)} : sum = Rounded(product + OneHalf, 1)
    BY DEF Sums
  <1>3. product \in Nat /\ Within(product, x, x)
    <2>1. CASE product = x
      <3>1. Shares * (x - x) <= x
        BY <1>1, PartsType
      <3> QED
        BY <1>1, <2>1, <3>1 DEF Within
    <2>2. CASE product = Rounded(x, 1)
      BY <1>1, <2>2, WholeRounded
    <2> QED
      BY <2>1, <2>2
  <1>4. sum \in Nat /\ Within(sum, product + OneHalf, product + OneHalf)
    <2>1. product + OneHalf \in Nat
      BY <1>1, <1>3
    <2> QED
      BY <1>2, <2>1, WholeRounded
  <1> HIDE DEF x, one
  <1>5. Within(product * u, x * u, x * u)
    BY <1>1, <1>3, WithinScaled
  <1>6. Within(sum * u, product * u + OneHalf * u, product * u + OneHalf * u)
    <2>1. Within(sum * u, (product + OneHalf) * u, (product + OneHalf) * u)
      <3>1. product + OneHalf \in Nat
        BY <1>1, <1>3
      <3> QED
        BY <1>4, <3>1, WithinScaled
    <2>2. (product + OneHalf) * u = product * u + OneHalf * u
      BY <1>1, <1>3
    <2> QED
      BY <2>1, <2>2
  <1>7. Within(8 * (x * u), 8 * w, 17 * w)
    <2> DEFINE e == display * u
    <2>1. e \in Nat /\ Within(8 * e, 8 * y, 17 * y)
      BY DEF one
    <2>2. (8 * e) * scale = 8 * (x * u) /\ (8 * y) * scale = 8 * w /\ (17 * y) * scale = 17 * w
      <3>1. (8 * y) * scale = 8 * (y * scale) /\ (17 * y) * scale = 17 * (y * scale)
        <4> HIDE DEF y
        <4> QED
          BY <1>1
      <3>2. (8 * (display * u)) * scale = 8 * ((display * scale) * u)
        OBVIOUS
      <3> QED
        BY <3>1, <3>2 DEF x
    <2> HIDE DEF e, y, w
    <2>3. 8 * e \in Int /\ 8 * y \in Int /\ 17 * y \in Nat
      BY <1>1, <2>1
    <2>4. Within((8 * e) * scale, (8 * y) * scale, (17 * y) * scale)
      BY <2>1, <2>3, WithinScaled
    <2> QED
      BY <2>2, <2>4
  <1> DEFINE xu == x * u
             yu == product * u
             zu == sum * u
             hu == OneHalf * u
  <1>8. xu \in Nat /\ yu \in Nat /\ zu \in Nat /\ hu \in Nat
    BY <1>1, <1>3, <1>4
  <1>9. Within(8 * xu, 8 * w, 17 * w) /\ Within(yu, xu, xu) /\ Within(zu, yu + hu, yu + hu)
    BY <1>5, <1>6, <1>7
  <1> HIDE DEF xu, yu, zu, hu, w
  <1>10. Within(zu, w + hu, 5 * (w + hu))
    BY <1>1, <1>8, <1>9, WithinSum
  <1> QED
    BY <1>4, <1>10 DEF zu, hu, w, one

(* What is left when the sum is cut off.                                   *)
LEMMA CutNear ==
  ASSUME NEW v \in Nat, NEW u \in Nat \ {0}, NEW scale \in Nat, NEW sum \in Nat,
         Within(sum * u, (v * One) * scale + OneHalf * u, 5 * ((v * One) * scale + OneHalf * u))
  PROVE  /\ sum \div One \in Nat
         /\ 2 * Abs((sum \div One) * u - v * scale) <= u + (5 * (2 * v * scale + u)) \div Shares
  <1> DEFINE E == Shares
             one == One
             d == sum \div one
             r == sum % one
             t == v * scale
             V == 2 * v * scale + u
             q == (5 * V) \div E
             a == d * u
             k == a - t
             h == OneHalf
  <1>1. E \in Nat \ {0} /\ h \in Nat \ {0} /\ one \in Nat \ {0} /\ one = 2 * h
    BY PartsType
  <1> HIDE DEF one, h
  <1>2. d \in Nat /\ r \in Nat /\ r < one /\ sum = d * one + r
    BY <1>1, Division
  <1> HIDE DEF d, r
  <1>3. t \in Nat /\ V = 2 * t + u /\ V \in Nat /\ a \in Nat /\ k \in Int
    <2>1. t \in Nat /\ 2 * v * scale = 2 * t
      OBVIOUS
    <2> QED
      BY <1>2, <2>1
  <1>4. (v * one) * scale + h * u = h * V
    <2>1. (v * one) * scale = (2 * h) * (v * scale)
      BY <1>1
    <2>2. h * (2 * t + u) = (2 * h) * t + h * u
      <3> HIDE DEF t
      <3> QED
        BY <1>1, <1>3
    <2> QED
      BY <1>3, <2>1, <2>2
  <1>5. Within(sum * u, h * V, 5 * (h * V))
    BY <1>4 DEF one, h
  <1> DEFINE z == h * V
             su == sum * u
             ru == r * u
  <1>6. su = 2 * (h * a) + ru /\ ru \in Nat /\ z \in Nat /\ su \in Nat /\ h * a \in Nat
    <2>1. (d * one + r) * u = (d * (2 * h)) * u + r * u
      BY <1>1, <1>2
    <2>2. (d * (2 * h)) * u = 2 * (h * (d * u))
      BY <1>1, <1>2
    <2>3. r * u \in Nat /\ h * V \in Nat /\ sum * u \in Nat /\ h * (d * u) \in Nat
      <3>1. h * V \in Nat
        <4> HIDE DEF V
        <4> QED
          BY <1>1, <1>3
      <3> QED
        BY <1>1, <1>2, <3>1
    <2> QED
      BY <1>2, <2>1, <2>2, <2>3
  <1>7. ru < 2 * (h * u)
    <2>1. PICK j \in Nat : one = (r + 1) + j
      <3>1. one - (r + 1) \in Nat /\ one = (r + 1) + (one - (r + 1))
        BY <1>1, <1>2
      <3> QED
        BY <3>1
    <2>2. one * u = r * u + u + j * u /\ j * u \in Nat /\ r * u \in Nat
      BY <1>1, <1>2, <2>1
    <2>3. one * u = 2 * (h * u)
      BY <1>1
    <2> QED
      BY <2>2, <2>3
  <1>8. E * (su - z) <= 5 * z /\ E * (z - su) <= 5 * z
    BY <1>5 DEF Within
  <1> HIDE DEF E, V, a, k
  <1>9. z = 2 * (h * t) + h * u /\ h * t \in Nat /\ h * u \in Nat
    <2> HIDE DEF t
    <2>1. h * (2 * t + u) = 2 * (h * t) + h * u /\ h * t \in Nat /\ h * u \in Nat
      BY <1>1, <1>3
    <2> QED
      BY <1>3, <2>1
  <1>10. h * k = h * a - h * t
    <2> HIDE DEF t
    <2>1. h * (a - t) = h * a - h * t
      BY <1>1, <1>3
    <2> QED
      BY <2>1 DEF k
  <1> HIDE DEF t, z, su, ru
  <1> DEFINE X == h * k
             U == h * u
             up == 2 * X - U
             low == -(2 * X) - U
  <1>11. X \in Int /\ U \in Nat
    BY <1>1, <1>3, <1>9
  <1>12. up <= su - z /\ low <= z - su
    <2> DEFINE ha == h * a
               ht == h * t
    <2>1. /\ ha \in Nat /\ ht \in Nat /\ X = ha - ht /\ z = 2 * ht + U /\ su = 2 * ha + ru
          /\ ru \in Nat /\ ru < 2 * U
      BY <1>6, <1>7, <1>9, <1>10
    <2> HIDE DEF ha, ht, X, U
    <2> QED
      BY <1>11, <2>1
  <1>13. ASSUME NEW x \in Int, NEW y \in Int, x <= y, E * y <= 5 * z PROVE E * x <= 5 * z
    <2>1. PICK j \in Nat : y = x + j
      <3>1. y - x \in Nat /\ y = x + (y - x)
        BY <1>13
      <3> QED
        BY <3>1
    <2>2. E * y = E * x + E * j /\ E * j \in Nat /\ E * x \in Int
      BY <1>1, <2>1
    <2> QED
      BY <1>6, <1>13, <2>2
  <1>14. E * up <= 5 * z /\ E * low <= 5 * z
    <2>1. su - z \in Int /\ z - su \in Int /\ up \in Int /\ low \in Int
      <3> HIDE DEF X, U
      <3> QED
        BY <1>6, <1>11
    <2> HIDE DEF up, low
    <2> QED
      BY <1>8, <1>12, <1>13, <2>1
  <1>15. ASSUME NEW x \in Int, E * (h * x) <= 5 * z PROVE x <= q
    <2>1. E * x <= 5 * V
      <3> DEFINE y == E * x
                 g == 5 * V
      <3>1. y \in Int /\ g \in Nat /\ E * (h * x) = h * y /\ 5 * z = h * g
        <4>1. E * (h * x) = h * (E * x) /\ E * x \in Int
          BY <1>1
        <4>2. 5 * (h * V) = h * (5 * V) /\ 5 * V \in Nat
          BY <1>1, <1>3
        <4> QED
          BY <4>1, <4>2 DEF z
      <3> HIDE DEF y, g
      <3>2. h * y <= h * g
        BY <1>15, <3>1
      <3>3. CASE y > g
        <4>1. PICK j \in Nat : y = g + 1 + j
          <5>1. y - g - 1 \in Nat /\ y = g + 1 + (y - g - 1)
            BY <3>1, <3>3
          <5> QED
            BY <5>1
        <4>2. h * y = h * g + h + h * j /\ h * j \in Nat /\ h * g \in Nat
          BY <1>1, <3>1, <4>1
        <4> QED
          BY <1>1, <3>2, <4>2
      <3> QED
        BY <3>1, <3>3 DEF y, g
    <2> DEFINE g == 5 * V
    <2>2. g \in Nat
      BY <1>3
    <2>3. q \in Nat /\ g % E \in Nat /\ g % E < E /\ g = q * E + (g % E)
      <3> HIDE DEF g
      <3> QED
        BY <1>1, <2>2, Division DEF g
    <2> HIDE DEF q
    <2>4. CASE x > q
      <3>1. PICK j \in Nat : x = q + 1 + j
        <4>1. x - q - 1 \in Nat /\ x = q + 1 + (x - q - 1)
          BY <2>3, <2>4
        <4> QED
          BY <4>1
      <3>2. E * x = q * E + E + E * j /\ E * j \in Nat /\ q * E \in Nat
        BY <1>1, <2>3, <3>1
      <3> HIDE DEF g
      <3> QED
        BY <1>1, <2>1, <2>2, <2>3, <3>2 DEF g
    <2> QED
      BY <2>3, <2>4
  <1>16. 2 * k - u <= q /\ -(2 * k) - u <= q
    <2>1. h * (2 * k - u) = up /\ h * (-(2 * k) - u) = low
      BY <1>1, <1>3
    <2>2. 2 * k - u \in Int /\ -(2 * k) - u \in Int
      BY <1>3
    <2> HIDE DEF up, low
    <2> QED
      BY <1>14, <1>15, <2>1, <2>2
  <1>17. q \in Int
    <2>1. 5 * V \in Nat
      BY <1>3
    <2> QED
      BY <1>1, <2>1, Division
  <1>18. 2 * Abs(k) <= u + q
    <2> HIDE DEF q
    <2> QED
      BY <1>3, <1>16, <1>17 DEF Abs
  <1> QED
    BY <1>2, <1>18 DEF k, a, t, q, V, d, one, E

(* The digits are the nearest ones if nothing is rounded on the way.       *)
LEMMA CutExact ==
  ASSUME NEW v \in Nat, NEW u \in Nat \ {0}, NEW t \in Nat, t * u = v * One, NEW scale \in Nat
  PROVE  2 * Abs(((t * scale + OneHalf) \div One) * u - v * scale) <= u
  <1> DEFINE one == One
             h == OneHalf
             x == t * scale
             sum == x + h
             d == sum \div one
             r == sum % one
             a == d * u
             b == v * scale
  <1>1. h \in Nat \ {0} /\ one \in Nat \ {0} /\ one = 2 * h /\ t * u = v * one
    BY PartsType
  <1> HIDE DEF one, h
  <1>2. sum \in Nat /\ x \in Nat /\ b \in Nat
    <2>1. x \in Nat /\ b \in Nat
      OBVIOUS
    <2> HIDE DEF x
    <2> QED
      BY <1>1, <2>1
  <1>3. d \in Nat /\ r \in Nat /\ r < one /\ sum = d * one + r
    <2> HIDE DEF sum
    <2> QED
      BY <1>1, <1>2, Division
  <1> HIDE DEF d, r
  <1>4. one * a - one * b = (h - r) * u /\ a \in Nat
    <2>1. one * (d * u) = (d * one) * u /\ d * u \in Nat
      BY <1>1, <1>3
    <2>2. one * (v * scale) = (v * one) * scale
      BY <1>1
    <2>3. (t * u) * scale = x * u
      OBVIOUS
    <2>4. one * b = x * u
      BY <1>1, <2>2, <2>3
    <2> DEFINE y == d * one
    <2>5. y \in Nat /\ y = x + (h - r)
      <3>1. y \in Nat
        BY <1>1, <1>3
      <3> HIDE DEF y, x
      <3> QED
        BY <1>1, <1>2, <1>3, <3>1 DEF y
    <2> HIDE DEF x, y
    <2>6. (x + (h - r)) * u = x * u + (h - r) * u /\ x * u \in Nat
      BY <1>1, <1>2, <1>3
    <2> HIDE DEF b
    <2>7. one * a = x * u + (h - r) * u
      BY <2>1, <2>5, <2>6 DEF y
    <2> QED
      BY <1>1, <1>3, <2>1, <2>4, <2>6, <2>7
  <1> DEFINE k == a - b
             e == h - r
  <1>5. k \in Int /\ e \in Int /\ e <= h /\ -h <= e /\ one * k = e * u
    <2>1. e \in Int /\ e <= h /\ -h <= e
      BY <1>1, <1>3
    <2>2. k \in Int
      BY <1>2, <1>4
    <2>3. one * k = one * a - one * b
      <3> HIDE DEF a, b
      <3> QED
        BY <1>1, <1>2, <1>4
    <2> QED
      BY <1>4, <2>1, <2>2, <2>3
  <1> HIDE DEF k, e
  <1>6. e * u <= h * u /\ -(e * u) <= h * u
    <2>1. PICK i \in Nat : h = e + i
      <3>1. h - e \in Nat /\ h = e + (h - e)
        BY <1>1, <1>5
      <3> QED
        BY <3>1
    <2>2. PICK j \in Nat : h = -e + j
      <3>1. h + e \in Nat /\ h = -e + (h + e)
        BY <1>1, <1>5
      <3> QED
        BY <3>1
    <2>3. h * u = e * u + i * u /\ i * u \in Nat /\ e * u \in Int
      BY <1>5, <2>1
    <2>4. h * u = -(e * u) + j * u /\ j * u \in Nat
      BY <1>5, <2>2
    <2> QED
      BY <2>3, <2>4
  <1>7. 2 * (h * k) = e * u /\ e * u \in Int /\ h * u \in Nat
    <2>1. (2 * h) * k = 2 * (h * k)
      BY <1>1, <1>5
    <2> QED
      BY <1>1, <1>5, <2>1
  <1>8. ASSUME NEW i \in Int, 2 * (h * i) <= h * u PROVE 2 * i <= u
    <2>1. CASE 2 * i > u
      <3>1. PICK j \in Nat : 2 * i = u + 1 + j
        <4>1. 2 * i - u - 1 \in Nat /\ 2 * i = u + 1 + (2 * i - u - 1)
          BY <2>1
        <4> QED
          BY <4>1
      <3>2. 2 * (h * i) = h * (2 * i)
        BY <1>1
      <3>3. h * (u + 1 + j) = h * u + h + h * j /\ h * j \in Nat /\ h * u \in Nat
        BY <1>1
      <3> QED
        BY <1>1, <1>8, <3>1, <3>2, <3>3
    <2> QED
      BY <2>1
  <1>9. 2 * k <= u /\ 2 * (-k) <= u
    <2>1. 2 * (h * k) <= h * u
      BY <1>6, <1>7
    <2>2. h * (-k) = -(h * k)
      BY <1>1, <1>5
    <2>3. 2 * (h * (-k)) <= h * u
      <3> DEFINE y == h * k
      <3>1. y \in Int /\ 2 * y = e * u
        BY <1>1, <1>5, <1>7
      <3> HIDE DEF y
      <3>2. 2 * (-y) <= h * u
        BY <1>6, <1>7, <3>1
      <3> QED
        BY <2>2, <3>2 DEF y
    <2>4. -k \in Int
      BY <1>5
    <2> QED
      BY <1>5, <1>8, <2>1, <2>3, <2>4
  <1>10. 2 * Abs(k) <= u
    BY <1>5, <1>9 DEF Abs
  <1> QED
    BY <1>10 DEF k, a, b, d, sum, x, one, h

LEMMA DisplayNear ==
  ASSUME NEW v \in Nat, NEW u \in Nat \ {0}, u = 1 \/ u <= 2 * Rounded(v, 1)
  PROVE  /\ Display(v, u) \in Nat
         /\ Within(8 * (Display(v, u) * u), 8 * (v * One), 17 * (v * One))
  <1> DEFINE a == Rounded(v, 1)
             y == a * One
             z == v * One
             b == Rounded(y, u)
             x == b * u
  <1>1. a \in Nat /\ Within(a, v, v)
    BY WholeRounded
  <1>2. One \in Nat \ {0} /\ One >= Shares /\ Shares \in Nat
    BY PartsType
  <1>3. Display(v, u) = b
    BY DEF Display
  <1> HIDE DEF a
  <1>4. y \in Nat /\ z \in Nat
    BY <1>1, <1>2
  <1>5. Within(y, z, z)
    BY <1>1, <1>2, WithinScaled
  <1>6. u = 1 \/ 2 * y >= u * Shares
    <2> SUFFICES ASSUME u <= 2 * a PROVE 2 * y >= u * Shares
      BY DEF a
    <2>1. u * One <= (2 * a) * One
      <3> DEFINE c == 2 * a
      <3>1. c \in Nat /\ u <= c /\ u \in Nat
        BY <1>1
      <3> HIDE DEF c
      <3>2. u * One <= c * One
        BY <1>2, <3>1, ProductGrows
      <3> QED
        BY <3>2 DEF c
    <2>2. Shares * u <= One * u
      BY <1>2, ProductGrows
    <2>3. (2 * a) * One = 2 * y
      BY <1>1, <1>2
    <2> DEFINE m == u * One
               n == u * Shares
    <2>4. Shares * u = n /\ One * u = m /\ m \in Nat /\ n \in Nat
      BY <1>2
    <2> HIDE DEF m, n, y
    <2>5. n <= m /\ m <= 2 * y
      BY <2>1, <2>2, <2>3, <2>4 DEF m
    <2>6. 2 * y >= n
      BY <1>4, <2>4, <2>5
    <2> QED
      BY <2>6 DEF n
  <1> HIDE DEF y, z
  <1>7. b \in Nat /\ Within(b * u, y, y)
    BY <1>4, <1>6, RoundedNear
  <1> HIDE DEF b
  <1>8. x \in Nat /\ Within(x, y, y)
    BY <1>7
  <1> HIDE DEF x
  <1>9. Within(8 * x, 8 * z, 17 * z)
    BY <1>4, <1>5, <1>8, WithinTwo
  <1> QED
    BY <1>3, <1>7, <1>9 DEF x, z

LEMMA DisplayExact ==
  ASSUME NEW v \in Nat, IsDouble(v), NEW u \in Nat \ {0}, NEW t \in Nat, IsDouble(t),
         t * u = v * One
  PROVE  Display(v, u) = t
  <1> DEFINE n == v * One
  <1>1. Display(v, u) = Rounded(n, u)
    BY DEF Display, IsDouble
  <1>2. ProductOf(n, t, u)
    BY DEF ProductOf
  <1> HIDE DEF n
  <1> QED
    BY <1>1, <1>2, RoundedExact

LEMMA TenPower ==
  ASSUME NEW f \in Nat
  PROVE  Power(10, f) \in Nat
  <1> DEFINE ten == 10
  <1>1. ten \in Nat
    OBVIOUS
  <1> HIDE DEF ten
  <1>2. Power(ten, f) \in Nat
    BY <1>1, PowerAfter
  <1> QED
    BY <1>2 DEF ten

(* A text that shows what was cut off shows nearly the value.              *)
Shows(chars, n, f) == ValueOf(DigitsIn(chars), 10) = n /\ FractionIn(chars) = f

LEMMA ShownNear ==
  ASSUME NEW v \in Nat, NEW u \in Nat \ {0}, NEW display \in Nat, NEW f \in Nat,
         Within(8 * (display * u), 8 * (v * One), 17 * (v * One)),
         NEW sum \in Sums(display, Power(10, f)), NEW chars, Shows(chars, sum \div One, f)
  PROVE  Near(chars, v, u)
  <1> DEFINE scale == Power(10, f)
  <1>1. scale \in Nat
    BY TenPower
  <1>2. sum \in Sums(display, scale)
    OBVIOUS
  <1>3. ValueOf(DigitsIn(chars), 10) = sum \div One /\ Power(10, FractionIn(chars)) = scale
    BY DEF Shows
  <1> HIDE DEF scale
  <1>4. /\ sum \in Nat
        /\ Within(sum * u, (v * One) * scale + OneHalf * u, 5 * ((v * One) * scale + OneHalf * u))
    BY <1>1, <1>2, SumNear
  <1>5. 2 * Abs((sum \div One) * u - v * scale) <= u + (5 * (2 * v * scale + u)) \div Shares
    BY <1>1, <1>4, CutNear
  <1> QED
    BY <1>3, <1>5 DEF Near, Off, Shares

LEMMA ShownNearest ==
  ASSUME NEW v \in Nat, NEW u \in Nat \ {0}, NEW t \in Nat, t * u = v * One, NEW f \in Nat,
         Exact(t, f), NEW sum \in Sums(t, Power(10, f)), NEW chars, Shows(chars, sum \div One, f)
  PROVE  Nearest(chars, v, u)
  <1> DEFINE scale == Power(10, f)
             x == t * scale
  <1>1. scale \in Nat
    BY TenPower
  <1>2. Rounded(x, 1) = x /\ Rounded(x + OneHalf, 1) = x + OneHalf
    BY DEF Exact, IsDouble
  <1>3. sum = x + OneHalf
    <2>1. sum \in {Rounded(product + OneHalf, 1) : product \in {x, Rounded(x, 1)}}
      BY DEF Sums
    <2> HIDE DEF x
    <2> QED
      BY <1>2, <2>1
  <1>4. ValueOf(DigitsIn(chars), 10) = sum \div One /\ Power(10, FractionIn(chars)) = scale
    BY DEF Shows
  <1> HIDE DEF scale
  <1>5. 2 * Abs(((t * scale + OneHalf) \div One) * u - v * scale) <= u
    BY <1>1, CutExact
  <1> QED
    BY <1>3, <1>4, <1>5 DEF Nearest, Off

-----------------------------------------------------------------------------
(* Fractions.                                                              *)
LEMMA JoinedOf ==
  ASSUME NEW a \in Seq(Nat), NEW b \in Seq(Nat)
  PROVE  /\ a \o b \in Seq(Nat) /\ Len(a \o b) = Len(a) + Len(b)
         /\ \A k \in 1..Len(a) : (a \o b)[k] = a[k]
         /\ \A k \in 1..Len(b) : (a \o b)[Len(a) + k] = b[k]
  OBVIOUS

LEMMA JoinsAssociate ==
  ASSUME NEW a \in Seq(Nat), NEW b \in Seq(Nat), NEW c \in Seq(Nat)
  PROVE  (a \o b) \o c = a \o (b \o c)
  OBVIOUS

LEMMA JoinedWithNone ==
  ASSUME NEW a \in Seq(Nat)
  PROVE  a \o <<>> = a /\ <<>> \o a = a
  OBVIOUS

LEMMA RestOfJoined ==
  ASSUME NEW a \in Seq(Nat), NEW b \in Seq(Nat), Len(b) > 0
  PROVE  SubSeq(a \o b, Len(a) + 1, Len(a \o b)) = b
  <1> DEFINE t == a \o b
             s == SubSeq(t, Len(a) + 1, Len(t))
  <1>1. /\ t \in Seq(Nat) /\ Len(t) = Len(a) + Len(b)
        /\ \A k \in 1..Len(b) : t[Len(a) + k] = b[k]
    BY JoinedOf
  <1> HIDE DEF t
  <1>2. s \in Seq(Nat) /\ Len(s) = Len(b) /\ \A k \in 1..Len(b) : s[k] = t[Len(a) + k]
    <2> DEFINE m == Len(a) + 1
               n == Len(t)
    <2>1. m \in 1..n /\ n \in 1..n /\ n - m + 1 = Len(b) /\ Len(a) \in Nat /\ Len(b) \in Nat
      BY <1>1
    <2>2. s \in Seq(Nat) /\ Len(s) = n - m + 1
      BY <1>1, <2>1, SMTT(30)
    <2>3. ASSUME NEW k \in 1..Len(b) PROVE s[k] = t[Len(a) + k]
      <3>1. k \in 1..(n - m + 1) /\ m + k - 1 = Len(a) + k
        BY <2>1
      <3>2. s[k] = t[m + k - 1]
        BY <1>1, <2>1, <3>1
      <3> QED
        BY <3>1, <3>2
    <2> QED
      BY <2>1, <2>2, <2>3
  <1> HIDE DEF s
  <1>3. s = b
    <2>1. \A k \in 1..Len(b) : s[k] = b[k]
      BY <1>1, <1>2
    <2>2. Len(b) \in Nat /\ s \in [1..Len(b) -> Nat] /\ b \in [1..Len(b) -> Nat]
      BY <1>2
    <2> QED
      BY <2>1, <2>2
  <1> QED
    BY <1>3 DEF s, t

PointFree(s) == \A k \in 1..Len(s) : s[k] # Point

Plain(s) == PointFree(s) /\ \A k \in 1..Len(s) : ~IsDigit(s[k])

LEMMA PointFreeJoined ==
  ASSUME NEW a \in Seq(Nat), PointFree(a), NEW b \in Seq(Nat), PointFree(b)
  PROVE  PointFree(a \o b)
  <1> DEFINE t == a \o b
  <1>1. /\ Len(t) = Len(a) + Len(b) /\ Len(a) \in Nat /\ Len(b) \in Nat
        /\ \A k \in 1..Len(a) : t[k] = a[k]
        /\ \A k \in 1..Len(b) : t[Len(a) + k] = b[k]
    BY JoinedOf
  <1> HIDE DEF t
  <1>2. ASSUME NEW k \in 1..Len(t) PROVE t[k] # Point
    <2>1. CASE k <= Len(a)
      <3>1. k \in 1..Len(a)
        BY <1>1, <2>1
      <3> QED
        BY <1>1, <3>1 DEF PointFree
    <2>2. CASE k > Len(a)
      <3> DEFINE j == k - Len(a)
      <3>1. j \in 1..Len(b) /\ k = Len(a) + j
        BY <1>1, <2>2
      <3> HIDE DEF j
      <3> QED
        BY <1>1, <3>1 DEF PointFree
    <2> QED
      BY <1>1, <2>1, <2>2
  <1>3. PointFree(t)
    BY <1>2 DEF PointFree
  <1> QED
    BY <1>3 DEF t

LEMMA FractionWithoutPoint ==
  ASSUME NEW s \in Seq(Nat), PointFree(s)
  PROVE  FractionIn(s) = 0
  <1>1. {k \in DOMAIN s : s[k] = Point} = {}
    BY DEF PointFree
  <1> QED
    BY <1>1 DEF FractionIn

LEMMA FractionAfterPoint ==
  ASSUME NEW a \in Seq(Nat), PointFree(a), NEW c \in Seq(Nat), PointFree(c)
  PROVE  FractionIn(a \o (<<Point>> \o c)) = Len(DigitsIn(c))
  <1> DEFINE e == <<Point>>
             b == e \o c
             t == a \o b
             n == Len(a) + 1
             points == {k \in DOMAIN t : t[k] = Point}
  <1>1. /\ e \in Seq(Nat) /\ Len(e) = 1 /\ e[1] = Point
    BY DEF Point
  <1>2. DigitsIn(e) = <<>>
    <2>1. \A k \in 1..Len(e) : ~IsDigit(e[k])
      BY <1>1 DEF IsDigit, Point
    <2> HIDE DEF e
    <2> QED
      BY <1>1, <2>1, DigitsInOthers
  <1> HIDE DEF e
  <1>3. /\ b \in Seq(Nat) /\ Len(b) = 1 + Len(c) /\ Len(c) \in Nat /\ b[1] = Point
        /\ \A k \in 1..Len(c) : b[1 + k] = c[k]
    <2>1. 1 \in 1..Len(e) /\ Len(c) \in Nat
      BY <1>1
    <2>2. /\ b \in Seq(Nat) /\ Len(b) = Len(e) + Len(c)
          /\ \A k \in 1..Len(e) : b[k] = e[k]
          /\ \A k \in 1..Len(c) : b[Len(e) + k] = c[k]
      BY <1>1, JoinedOf
    <2> HIDE DEF b
    <2> QED
      BY <1>1, <2>1, <2>2
  <1>4. DigitsIn(b) = DigitsIn(c)
    <2>1. DigitsIn(b) = DigitsIn(e) \o DigitsIn(c)
      BY <1>1, DigitsInJoined
    <2>2. DigitsIn(c) \in Seq(Nat)
      <3>1. 0 \in Nat
        OBVIOUS
      <3> QED
        BY <3>1, DigitsInAppend
    <2> QED
      BY <1>2, <2>1, <2>2, JoinedWithNone
  <1> HIDE DEF b
  <1>5. /\ t \in Seq(Nat) /\ Len(t) = Len(a) + Len(b) /\ Len(a) \in Nat
        /\ \A k \in 1..Len(a) : t[k] = a[k]
        /\ \A k \in 1..Len(b) : t[Len(a) + k] = b[k]
    <2>1. Len(a) \in Nat
      OBVIOUS
    <2>2. /\ t \in Seq(Nat) /\ Len(t) = Len(a) + Len(b)
          /\ \A k \in 1..Len(a) : t[k] = a[k]
          /\ \A k \in 1..Len(b) : t[Len(a) + k] = b[k]
      BY <1>3, JoinedOf
    <2> QED
      BY <2>1, <2>2
  <1>6. SubSeq(t, n, Len(t)) = b
    <2>1. Len(b) > 0 /\ b \in Seq(Nat)
      BY <1>3
    <2> QED
      BY <2>1, RestOfJoined
  <1> HIDE DEF t
  <1>7. n \in DOMAIN t /\ t[n] = Point
    <2>1. n \in 1..Len(t) /\ 1 \in 1..Len(b)
      BY <1>3, <1>5
    <2> QED
      BY <1>3, <1>5, <2>1
  <1>8. ASSUME NEW k \in DOMAIN t, t[k] = Point PROVE k = n
    <2>1. k \in 1..Len(t) /\ Len(t) \in Nat /\ Len(a) \in Nat /\ k \in Nat
      BY <1>5
    <2>2. CASE k <= Len(a)
      <3>1. k \in 1..Len(a)
        BY <1>5, <2>1, <2>2
      <3> QED
        BY <1>5, <1>8, <3>1 DEF PointFree
    <2>3. CASE k > n
      <3> DEFINE j == k - n
      <3>1. j \in 1..Len(c) /\ 1 + j \in 1..Len(b) /\ k = Len(a) + (1 + j)
        <4>1. Len(t) = Len(a) + (1 + Len(c)) /\ Len(b) = 1 + Len(c) /\ Len(c) \in Nat
          BY <1>3, <1>5
        <4> QED
          BY <2>1, <2>3, <4>1
      <3> HIDE DEF j
      <3>2. t[k] = c[j]
        BY <1>3, <1>5, <3>1
      <3> QED
        BY <1>8, <3>1, <3>2 DEF PointFree
    <2>4. k <= Len(a) \/ k = n \/ k > n
      BY <2>1
    <2> QED
      BY <2>2, <2>3, <2>4
  <1> HIDE DEF n
  <1>9. points = {n}
    BY <1>7, <1>8
  <1>10. (CHOOSE k \in points : TRUE) = n /\ points # {}
    BY <1>9
  <1>11. FractionIn(t) = Len(DigitsIn(b))
    BY <1>6, <1>10 DEF FractionIn
  <1> QED
    BY <1>4, <1>11 DEF t, b, e

(* Digits are digits of a decimal number.                                  *)
LEMMA DecimalDigits ==
  ASSUME NEW s \in Seq(0..9)
  PROVE  s \in Seq(Nat) /\ DigitsIn(s) = s /\ PointFree(s)
  <1>1. s \in Seq(Nat)
    <2>1. s \in [1..Len(s) -> 0..9] /\ Len(s) \in Nat
      OBVIOUS
    <2>2. \A k \in 1..Len(s) : s[k] \in Nat
      BY <2>1
    <2>3. s \in [1..Len(s) -> Nat]
      BY <2>1, <2>2
    <2> QED
      BY <2>1, <2>3
  <1>2. \A k \in 1..Len(s) : IsDigit(s[k]) /\ s[k] # Point
    <2>1. ASSUME NEW k \in 1..Len(s) PROVE s[k] \in 0..9
      OBVIOUS
    <2> QED
      BY <2>1 DEF IsDigit, Point
  <1>3. DigitsIn(s) = s
    BY <1>1, <1>2, DigitsInAll
  <1> QED
    BY <1>1, <1>2, <1>3 DEF PointFree

LEMMA DecimalShows ==
  ASSUME NEW q \in Nat, NEW f \in Nat,
         NEW sign \in Seq(Nat), Plain(sign), NEW suffix \in Seq(Nat), Plain(suffix)
  PROVE  /\ DecimalText(q, f) \in Seq(Nat)
         /\ Shows(sign \o (DecimalText(q, f) \o suffix), q, f)
  <1> DEFINE ten == 10
             p == Power(ten, f)
             high == q \div p
             H == Digits(high, ten)
             L == LastDigits(q, f, ten)
             D == DecimalText(q, f)
             e == <<Point>>
             t == sign \o (D \o suffix)
  <1>1. q \in Nat
    OBVIOUS
  <1>2. ten \in Nat /\ ten >= 2 /\ ten - 1 = 9 /\ ten \in Nat \ {0}
    OBVIOUS
  <1>3. D = H \o IF f = 0 THEN <<>> ELSE e \o L
    BY DEF DecimalText
  <1> HIDE DEF D, ten
  <1>4. p \in Nat \ {0} /\ p \in Nat
    BY <1>2, PowerOfPositive
  <1> HIDE DEF p
  <1>5. high \in Nat /\ q % p \in Nat /\ q = high * p + (q % p)
    BY <1>1, <1>4, Division
  <1> HIDE DEF high
  <1>6. H \in Seq(0..9) /\ ValueOf(H, ten) = high
    BY <1>2, <1>5, DigitsRead
  <1>7. L \in Seq(0..9) /\ Len(L) = f /\ ValueOf(L, ten) = q % p
    <2>1. L \in Seq(0..(ten - 1)) /\ Len(L) = f
      BY <1>1, <1>2, LastDigitsType
    <2>2. ValueOf(L, ten) = q % p
      BY <1>1, <1>2, LastDigitsRead DEF p
    <2> QED
      BY <1>2, <2>1, <2>2
  <1> HIDE DEF H, L
  <1>8. /\ H \in Seq(Nat) /\ DigitsIn(H) = H /\ PointFree(H)
        /\ L \in Seq(Nat) /\ DigitsIn(L) = L /\ PointFree(L)
    BY <1>6, <1>7, DecimalDigits
  <1>9. /\ DigitsIn(sign) = <<>> /\ PointFree(sign)
        /\ DigitsIn(suffix) = <<>> /\ PointFree(suffix)
    BY DigitsInOthers DEF Plain
  <1>10. e \in Seq(Nat) /\ DigitsIn(e) = <<>>
    <2>1. e \in Seq(Nat) /\ \A k \in 1..Len(e) : ~IsDigit(e[k])
      BY DEF IsDigit, Point
    <2> HIDE DEF e
    <2> QED
      BY <2>1, DigitsInOthers
  <1>11. e \o L \in Seq(Nat)
    BY <1>8, <1>10
  <1>12. D \in Seq(Nat)
    <2>1. H \o <<>> \in Seq(Nat)
      BY <1>8
    <2>2. H \o (e \o L) \in Seq(Nat)
      <3> DEFINE w == e \o L
      <3>1. w \in Seq(Nat)
        BY <1>11
      <3> HIDE DEF w
      <3>2. H \o w \in Seq(Nat)
        BY <1>8, <3>1
      <3> QED
        BY <3>2 DEF w
    <2> QED
      BY <1>3, <2>1, <2>2
  <1>13. DigitsIn(t) = DigitsIn(D)
    <2> DEFINE w == D \o suffix
    <2>1. DigitsIn(w) = DigitsIn(D) \o <<>> /\ w \in Seq(Nat)
      BY <1>9, <1>12, DigitsInJoined, JoinedOf
    <2> HIDE DEF w
    <2>2. DigitsIn(sign \o w) = <<>> \o DigitsIn(w)
      BY <1>9, <2>1, DigitsInJoined
    <2>3. DigitsIn(D) \in Seq(Nat)
      <3>1. 0 \in Nat
        OBVIOUS
      <3> QED
        BY <1>12, <3>1, DigitsInAppend
    <2>4. DigitsIn(sign \o w) = DigitsIn(D)
      BY <2>1, <2>2, <2>3, JoinedWithNone
    <2> QED
      BY <2>4 DEF w
  <1>14. CASE f = 0
    <2>1. p = 1
      BY <1>2, <1>14, PowerOfZero DEF p
    <2>2. high = q
      BY <1>1, <1>5, <2>1
    <2>3. D = H
      BY <1>3, <1>8, <1>14, JoinedWithNone
    <2>4. ValueOf(DigitsIn(t), ten) = q
      BY <1>6, <1>8, <1>13, <2>2, <2>3
    <2>5. FractionIn(t) = 0
      <3> DEFINE w == D \o suffix
      <3>1. w \in Seq(Nat) /\ PointFree(w)
        BY <1>8, <1>9, <1>12, <2>3, PointFreeJoined, JoinedOf
      <3> HIDE DEF w
      <3>2. sign \o w \in Seq(Nat) /\ PointFree(sign \o w)
        BY <1>9, <3>1, PointFreeJoined, JoinedOf
      <3>3. FractionIn(sign \o w) = 0
        BY <3>2, FractionWithoutPoint
      <3> QED
        BY <3>3 DEF w
    <2> HIDE DEF t
    <2> QED
      BY <1>12, <1>14, <2>4, <2>5 DEF Shows, t, ten, D
  <1>15. CASE f # 0
    <2> DEFINE w == e \o L
               A == sign \o H
               C == L \o suffix
    <2>1. D = H \o w
      BY <1>3, <1>15
    <2>2. w \in Seq(Nat) /\ DigitsIn(w) = <<>> \o L
      BY <1>8, <1>10, <1>11, DigitsInJoined, ZenonT(30)
    <2>3. <<>> \o L = L
      BY <1>8, JoinedWithNone
    <2>4. A \in Seq(Nat) /\ C \in Seq(Nat) /\ PointFree(A) /\ PointFree(C)
      BY <1>8, <1>9, PointFreeJoined, JoinedOf
    <2>5. w \o suffix = e \o C
      BY <1>8, <1>10, JoinsAssociate
    <2>6. DigitsIn(C) = L \o <<>>
      BY <1>8, <1>9, DigitsInJoined
    <2>7. L \o <<>> = L
      BY <1>8, JoinedWithNone
    <2> HIDE DEF w
    <2>8. DigitsIn(D) = H \o L
      <3>1. DigitsIn(H \o w) = DigitsIn(H) \o DigitsIn(w)
        BY <1>8, <2>2, DigitsInJoined
      <3> QED
        BY <1>8, <2>1, <2>2, <2>3, <3>1
    <2>9. D \o suffix = H \o (w \o suffix)
      BY <1>8, <2>1, <2>2, JoinsAssociate, ZenonT(30)
    <2>10. e \o C \in Seq(Nat)
      BY <1>10, <2>4, JoinedOf
    <2> HIDE DEF C
    <2>11. t = A \o (e \o C)
      <3> DEFINE z == e \o C
      <3>1. z \in Seq(Nat) /\ D \o suffix = H \o z
        BY <2>5, <2>9, <2>10
      <3> HIDE DEF z
      <3>2. sign \o (H \o z) = A \o z
        BY <1>8, <3>1, JoinsAssociate
      <3> QED
        BY <3>1, <3>2 DEF z
    <2> HIDE DEF A, e
    <2>12. FractionIn(A \o (e \o C)) = Len(DigitsIn(C))
      BY <2>4, FractionAfterPoint DEF e
    <2>13. FractionIn(t) = f
      BY <1>7, <2>6, <2>7, <2>11, <2>12
    <2>14. ValueOf(H \o L, ten) = ValueOf(H, ten) * Power(ten, Len(L)) + ValueOf(L, ten)
      BY <1>2, <1>8, ValueOfJoined
    <2>15. ValueOf(DigitsIn(t), ten) = q
      <3>1. ValueOf(H \o L, ten) = high * p + (q % p)
        BY <1>6, <1>7, <2>14 DEF p
      <3> QED
        BY <1>5, <1>13, <2>8, <3>1
    <2> HIDE DEF t
    <2> QED
      BY <1>12, <2>13, <2>15 DEF Shows, t, ten, D
  <1> QED
    BY <1>14, <1>15

-----------------------------------------------------------------------------
(* Units.                                                                  *)
LEMMA UnitType ==
  ASSUME NEW v \in Nat, NEW step \in Nat, step > 1, NEW last \in Nat
  PROVE  LET k == UnitOf(v, step, last) IN k \in 0..last /\ (k > 0 => v >= Power(step, k))
  <1> DEFINE Reached(k) == k > 0 => v >= Power(step, k)
             Below(k) == k < last => v < Power(step, k + 1)
             R == {n \in 0..last : Reached(last - n)}
  <1>1. last \in R
    OBVIOUS
  <1>2. PICK n \in R : \A m \in R : n <= m
    <2>1. R \in SUBSET Nat
      <3> HIDE DEF Reached
      <3> QED
        OBVIOUS
    <2> HIDE DEF R
    <2> QED
      BY <1>1, <2>1, LeastNat
  <1> DEFINE k == last - n
  <1>3. k \in 0..last /\ Reached(k) /\ n \in 0..last
    BY <1>2
  <1>4. ASSUME k < last PROVE v < Power(step, k + 1)
    <2>1. n - 1 \in 0..last /\ last - (n - 1) = k + 1 /\ ~(n <= n - 1) /\ k + 1 \in Nat
      BY <1>3, <1>4
    <2>2. n - 1 \notin R
      BY <1>2, <2>1
    <2>3. ~Reached(k + 1)
      <3> HIDE DEF Reached, k
      <3> QED
        BY <2>1, <2>2
    <2>4. Power(step, k + 1) \in Nat
      <3> HIDE DEF k
      <3> QED
        BY <2>1, PowerAfter
    <2> HIDE DEF k
    <2> QED
      BY <2>1, <2>3, <2>4
  <1>5. \E i \in 0..last : Reached(i) /\ Below(i)
    <2> HIDE DEF k, R, Reached
    <2> QED
      BY <1>3, <1>4
  <1> DEFINE i == CHOOSE i \in 0..last : Reached(i) /\ Below(i)
  <1>6. i \in 0..last /\ Reached(i)
    <2> HIDE DEF Reached, Below
    <2> QED
      BY <1>5
  <1>7. UnitOf(v, step, last) = i
    BY DEF UnitOf
  <1> QED
    BY <1>6, <1>7

LEMMA FractionType ==
  ASSUME NEW display, NEW k, NEW most \in Nat, most >= 2
  PROVE  FractionOf(display, k, most) \in Nat
  BY DEF FractionOf

(* What a decimal number is written with.                                  *)
Signs == 0..29

LEMMA SeqGrows ==
  ASSUME NEW S, NEW T, \A x \in S : x \in T, NEW s \in Seq(S)
  PROVE  s \in Seq(T)
  <1>1. s \in [1..Len(s) -> S] /\ Len(s) \in Nat
    OBVIOUS
  <1>2. \A k \in 1..Len(s) : s[k] \in T
    BY <1>1
  <1>3. s \in [1..Len(s) -> T]
    BY <1>1, <1>2
  <1> QED
    BY <1>1, <1>3

LEMMA DecimalType ==
  ASSUME NEW q \in Nat, NEW f \in Nat
  PROVE  DecimalText(q, f) \in Seq(Signs)
  <1> DEFINE ten == 10
             p == Power(ten, f)
             high == q \div p
             H == Digits(high, ten)
             L == LastDigits(q, f, ten)
             S == Signs
             N == 0..9
             e == <<Point>>
  <1>1. q \in Nat
    OBVIOUS
  <1>2. ten \in Nat /\ ten >= 2 /\ 0..(ten - 1) = N /\ ten \in Nat \ {0}
    OBVIOUS
  <1>3. DecimalText(q, f) = H \o IF f = 0 THEN <<>> ELSE e \o L
    BY DEF DecimalText
  <1> HIDE DEF ten
  <1>4. p \in Nat \ {0}
    BY <1>2, PowerOfPositive
  <1> HIDE DEF p
  <1>5. high \in Nat
    BY <1>1, <1>4, Division
  <1> HIDE DEF high
  <1>6. \A x \in N : x \in S
    BY DEF Signs
  <1>7. e \in Seq(S)
    BY DEF Signs, Point
  <1> HIDE DEF S, N
  <1>8. H \in Seq(N)
    BY <1>2, <1>5, DigitsRead
  <1>9. L \in Seq(N)
    BY <1>1, <1>2, LastDigitsType
  <1> HIDE DEF H, L, e
  <1>10. H \in Seq(S) /\ L \in Seq(S)
    BY <1>6, <1>8, <1>9, SeqGrows
  <1>11. H \o <<>> \in Seq(S)
    BY <1>10
  <1>12. e \o L \in Seq(S)
    BY <1>7, <1>10
  <1>13. H \o (e \o L) \in Seq(S)
    <2> DEFINE w == e \o L
    <2>1. w \in Seq(S)
      BY <1>12
    <2> HIDE DEF w
    <2>2. H \o w \in Seq(S)
      BY <1>10, <2>1
    <2> QED
      BY <2>2 DEF w
  <1> QED
    BY <1>3, <1>11, <1>13 DEF S

LEMMA UnitShown ==
  ASSUME NEW head \in Seq(Signs), NEW tail \in Seq(Nat), NEW k \in 0..6, NEW step,
         \E i \in 1..Len(tail) : tail[i] = Unit(k),
         \A i \in 1..Len(tail) : tail[i] < 30 \/ tail[i] = Unit(k)
  PROVE  UnitIn(head \o tail, step) = Power(step, k)
  <1> DEFINE t == head \o tail
             HasUnit(j) == \E n \in DOMAIN t : t[n] = Unit(j)
             j == CHOOSE j \in 0..6 : HasUnit(j)
  <1>1. /\ head \in Seq(Nat) /\ \A n \in 1..Len(head) : head[n] < 30 /\ head[n] \in Nat
    <2>1. \A x \in Signs : x \in Nat
      BY DEF Signs
    <2>2. ASSUME NEW n \in 1..Len(head) PROVE head[n] < 30 /\ head[n] \in Nat
      <3> DEFINE c == head[n]
      <3>1. c \in Signs
        OBVIOUS
      <3> HIDE DEF c
      <3>2. c < 30 /\ c \in Nat
        BY ONLY <3>1 DEF Signs
      <3> QED
        BY <3>2 DEF c
    <2>3. \A n \in 1..Len(head) : head[n] < 30 /\ head[n] \in Nat
      BY <2>2
    <2> QED
      BY <2>1, <2>3, SeqGrows
  <1>2. /\ t \in Seq(Nat) /\ Len(t) = Len(head) + Len(tail)
        /\ \A n \in 1..Len(head) : t[n] = head[n]
        /\ \A n \in 1..Len(tail) : t[Len(head) + n] = tail[n]
    BY <1>1, JoinedOf
  <1>3. Len(head) \in Nat /\ Len(tail) \in Nat
    OBVIOUS
  <1> HIDE DEF t
  <1>4. HasUnit(k)
    <2>1. PICK i \in 1..Len(tail) : tail[i] = Unit(k)
      OBVIOUS
    <2> DEFINE n == Len(head) + i
    <2>2. n \in DOMAIN t
      BY <1>2, <1>3
    <2>3. t[n] = Unit(k)
      BY <1>2, <2>1
    <2> HIDE DEF n
    <2> QED
      BY <2>2, <2>3
  <1>5. ASSUME NEW i \in 0..6, HasUnit(i) PROVE i = k
    <2>1. PICK n \in 1..Len(t) : t[n] = Unit(i)
      BY <1>2, <1>5
    <2>2. Unit(i) = 30 + i
      BY DEF Unit
    <2>3. CASE n <= Len(head)
      <3>1. n \in 1..Len(head)
        BY <1>3, <2>3
      <3>2. t[n] < 30
        BY <1>1, <1>2, <3>1
      <3> QED
        BY <2>1, <2>2, <3>2
    <2>4. CASE n > Len(head)
      <3> DEFINE m == n - Len(head)
      <3>1. m \in 1..Len(tail) /\ n = Len(head) + m
        BY <1>2, <1>3, <2>4
      <3> HIDE DEF m
      <3>2. t[n] < 30 \/ t[n] = Unit(k)
        BY <1>2, <3>1
      <3> QED
        BY <2>1, <2>2, <3>2 DEF Unit
    <2> QED
      BY <1>3, <2>3, <2>4
  <1>6. j = k
    <2> HIDE DEF HasUnit
    <2> QED
      BY <1>4, <1>5
  <1>7. UnitIn(t, step) = Power(step, j)
    BY DEF UnitIn
  <1> QED
    BY <1>6, <1>7 DEF t

(* A number, a unit and what follows the letter of the unit.               *)
UnitText(q, f, tail) == <<>> \o (DecimalText(q, f) \o tail)

LEMMA UnitReads ==
  ASSUME NEW q \in Nat, NEW step, NEW k \in 0..6, NEW f \in Nat,
         NEW tail \in Seq(Nat), Plain(tail), NEW i \in 1..Len(tail), tail[i] = Unit(k),
         \A n \in 1..Len(tail) : tail[n] < 30 \/ tail[n] = Unit(k)
  PROVE  /\ Shows(UnitText(q, f, tail), q, f)
         /\ UnitIn(UnitText(q, f, tail), step) = Power(step, k)
  <1> DEFINE D == DecimalText(q, f)
             none == <<>>
             w == D \o tail
  <1>1. none \in Seq(Nat) /\ Plain(none)
    BY DEF Plain, PointFree
  <1>2. D \in Seq(Signs)
    BY DecimalType
  <1>3. UnitText(q, f, tail) = none \o w
    BY DEF UnitText
  <1> HIDE DEF none
  <1>4. D \in Seq(Nat) /\ Shows(none \o w, q, f)
    BY <1>1, DecimalShows
  <1> HIDE DEF D
  <1>5. none \o w = w
    <2>1. w \in Seq(Nat)
      BY <1>4, JoinedOf
    <2> HIDE DEF w
    <2> QED
      BY <2>1, JoinedWithNone DEF none
  <1>6. UnitIn(w, step) = Power(step, k)
    BY <1>2, UnitShown
  <1> QED
    BY <1>3, <1>4, <1>5, <1>6

LEMMA UnitTexts ==
  /\ Unit(0) = 30 /\ \A k \in 0..6 : Unit(k) \in Nat /\ Unit(k) # Point /\ ~IsDigit(Unit(k))
  /\ Blank \in Nat /\ Blank < 30 /\ Blank # Point /\ ~IsDigit(Blank)
  /\ Letter \in Nat /\ Letter < 30 /\ Letter # Point /\ ~IsDigit(Letter)
  BY DEF Unit, Point, Blank, Letter, IsDigit

HumanTail(k) == <<Blank, Unit(k)>> \o IF k = 0 THEN <<>> ELSE <<Letter>>

LEMMA HumanReads ==
  ASSUME NEW q \in Nat, NEW k \in 0..6, NEW f \in Nat, NEW step
  PROVE  /\ Shows(UnitText(q, f, HumanTail(k)), q, f)
         /\ UnitIn(UnitText(q, f, HumanTail(k)), step) = Power(step, k)
  <1> DEFINE a == <<Blank, Unit(k)>>
             b == IF k = 0 THEN <<>> ELSE <<Letter>>
             tail == a \o b
  <1>1. /\ a \in Seq(Nat) /\ Len(a) = 2 /\ a[1] = Blank /\ a[2] = Unit(k)
        /\ b \in Seq(Nat) /\ Len(b) \in 0..1 /\ \A n \in 1..Len(b) : b[n] = Letter
    BY UnitTexts, SMTT(30)
  <1> HIDE DEF a, b
  <1>2. /\ tail \in Seq(Nat) /\ Len(tail) = 2 + Len(b)
        /\ \A n \in 1..2 : tail[n] = a[n]
        /\ \A n \in 1..Len(b) : tail[2 + n] = b[n]
    <2>1. /\ tail \in Seq(Nat) /\ Len(tail) = Len(a) + Len(b)
          /\ \A n \in 1..Len(a) : tail[n] = a[n]
          /\ \A n \in 1..Len(b) : tail[Len(a) + n] = b[n]
      BY <1>1, JoinedOf
    <2> HIDE DEF tail
    <2> QED
      BY <1>1, <2>1
  <1> HIDE DEF tail
  <1>3. tail[1] = Blank /\ tail[2] = Unit(k) /\ 2 \in 1..Len(tail)
    BY <1>1, <1>2
  <1>4. \A n \in 1..Len(tail) : tail[n] \in {Blank, Unit(k), Letter}
    <2>1. ASSUME NEW n \in 1..Len(tail) PROVE n = 1 \/ n = 2 \/ (n = 2 + 1 /\ 1 \in 1..Len(b))
      <3> DEFINE m == Len(b)
      <3>1. m \in 0..1 /\ Len(tail) = 2 + m
        BY <1>1, <1>2
      <3> HIDE DEF m
      <3>2. n = 1 \/ n = 2 \/ (n = 2 + 1 /\ 1 \in 1..m)
        BY ONLY <3>1, n \in 1..Len(tail)
      <3> QED
        BY <3>2 DEF m
    <2> QED
      BY <1>1, <1>2, <1>3, <2>1
  <1>5. Plain(tail) /\ \A n \in 1..Len(tail) : tail[n] < 30 \/ tail[n] = Unit(k)
    BY <1>4, UnitTexts DEF Plain, PointFree
  <1> DEFINE second == 2
  <1>6. second \in 1..Len(tail) /\ tail[second] = Unit(k)
    BY <1>3
  <1> HIDE DEF second
  <1>7. HumanTail(k) = tail
    BY DEF HumanTail, tail, a, b
  <1> HIDE DEF tail
  <1>8. /\ Shows(UnitText(q, f, tail), q, f)
        /\ UnitIn(UnitText(q, f, tail), step) = Power(step, k)
    BY <1>2, <1>5, <1>6, UnitReads
  <1> QED
    BY <1>7, <1>8

DurationTail(k) == <<Unit(k)>> \o IF k = 3 THEN <<>> ELSE <<Letter>>

LEMMA DurationReads ==
  ASSUME NEW q \in Nat, NEW k \in 0..6, NEW f \in Nat, NEW step
  PROVE  /\ Shows(UnitText(q, f, DurationTail(k)), q, f)
         /\ UnitIn(UnitText(q, f, DurationTail(k)), step) = Power(step, k)
  <1> DEFINE a == <<Unit(k)>>
             b == IF k = 3 THEN <<>> ELSE <<Letter>>
             tail == a \o b
  <1>1. /\ a \in Seq(Nat) /\ Len(a) = 1 /\ a[1] = Unit(k)
        /\ b \in Seq(Nat) /\ Len(b) \in 0..1 /\ \A n \in 1..Len(b) : b[n] = Letter
    BY UnitTexts, SMTT(30)
  <1> HIDE DEF a, b
  <1>2. /\ tail \in Seq(Nat) /\ Len(tail) = 1 + Len(b)
        /\ tail[1] = a[1]
        /\ \A n \in 1..Len(b) : tail[1 + n] = b[n]
    <2>1. /\ tail \in Seq(Nat) /\ Len(tail) = Len(a) + Len(b)
          /\ \A n \in 1..Len(a) : tail[n] = a[n]
          /\ \A n \in 1..Len(b) : tail[Len(a) + n] = b[n]
      BY <1>1, JoinedOf
    <2> HIDE DEF tail
    <2> QED
      BY <1>1, <2>1
  <1> HIDE DEF tail
  <1>3. tail[1] = Unit(k) /\ 1 \in 1..Len(tail)
    BY <1>1, <1>2
  <1>4. \A n \in 1..Len(tail) : tail[n] \in {Unit(k), Letter}
    <2>1. ASSUME NEW n \in 1..Len(tail) PROVE n = 1 \/ (n = 1 + 1 /\ 1 \in 1..Len(b))
      <3> DEFINE m == Len(b)
      <3>1. m \in 0..1 /\ Len(tail) = 1 + m
        BY <1>1, <1>2
      <3> HIDE DEF m
      <3>2. n = 1 \/ (n = 1 + 1 /\ 1 \in 1..m)
        BY ONLY <3>1, n \in 1..Len(tail)
      <3> QED
        BY <3>2 DEF m
    <2> QED
      BY <1>1, <1>2, <1>3, <2>1
  <1>5. Plain(tail) /\ \A n \in 1..Len(tail) : tail[n] < 30 \/ tail[n] = Unit(k)
    BY <1>4, UnitTexts DEF Plain, PointFree
  <1> DEFINE first == 1
  <1>6. first \in 1..Len(tail) /\ tail[first] = Unit(k)
    BY <1>3
  <1> HIDE DEF first
  <1>7. DurationTail(k) = tail
    BY DEF DurationTail, tail, a, b
  <1> HIDE DEF tail
  <1>8. /\ Shows(UnitText(q, f, tail), q, f)
        /\ UnitIn(UnitText(q, f, tail), step) = Power(step, k)
    BY <1>2, <1>5, <1>6, UnitReads
  <1> QED
    BY <1>7, <1>8

(* A value shown in a unit that it reaches, but for its own rounding.      *)
LEMMA UnitKeeps ==
  ASSUME NEW v \in Nat, NEW step \in Nat, step > 1, NEW k \in Nat, NEW f \in Nat,
         k > 0 => Power(step, k) <= 2 * Rounded(v, 1),
         NEW sum \in Sums(Display(v, Power(step, k)), Power(10, f)),
         NEW chars, Shows(chars, sum \div One, f), UnitIn(chars, step) = Power(step, k)
  PROVE  ReadsAs(chars, v, UnitIn(chars, step))
  <1> DEFINE u == Power(step, k)
             display == Display(v, u)
             t == (v * One) \div u
  <1>1. u \in Nat \ {0}
    <2>1. step \in Nat \ {0}
      OBVIOUS
    <2> QED
      BY <2>1, PowerOfPositive
  <1>2. u = 1 \/ u <= 2 * Rounded(v, 1)
    BY PowerOfZero
  <1>3. sum \in Sums(display, Power(10, f)) /\ UnitIn(chars, step) = u
    OBVIOUS
  <1> HIDE DEF u
  <1>4. display \in Nat /\ Within(8 * (display * u), 8 * (v * One), 17 * (v * One))
    BY <1>1, <1>2, DisplayNear
  <1>5. Near(chars, v, u)
    <2> HIDE DEF display
    <2> QED
      BY <1>1, <1>3, <1>4, ShownNear
  <1>6. ASSUME ExactIn(v, u, FractionIn(chars)) PROVE Nearest(chars, v, u)
    <2>1. IsDouble(v) /\ t * u = v * One /\ IsDouble(t) /\ Exact(t, f)
      BY <1>6 DEF ExactIn, Shows
    <2>2. t \in Nat
      <3> DEFINE n == v * One
      <3>1. n \in Nat
        BY PartsType
      <3> HIDE DEF n
      <3>2. n \div u \in Nat
        BY <1>1, <3>1, Division
      <3> QED
        BY <3>2 DEF n
    <2> HIDE DEF t
    <2>3. display = t
      BY <1>1, <2>1, <2>2, DisplayExact
    <2> HIDE DEF display
    <2>4. sum \in Sums(t, Power(10, f))
      BY <1>3, <2>3
    <2> QED
      BY <1>1, <2>1, <2>2, <2>4, ShownNearest
  <1> QED
    BY <1>3, <1>5, <1>6 DEF ReadsAs

-----------------------------------------------------------------------------
(* Escapes.                                                                *)
LEMMA SixteenPower == Power(16, 4) = 65536
  <1> DEFINE b == 16
  <1>1. b \in Nat
    OBVIOUS
  <1> HIDE DEF b
  <1>2. /\ Power(b, 0) = 1 /\ Power(b, 0 + 1) = b * Power(b, 0) /\ Power(b, 1 + 1) = b * Power(b, 1)
        /\ Power(b, 2 + 1) = b * Power(b, 2) /\ Power(b, 3 + 1) = b * Power(b, 3)
    BY <1>1, PowerOfZero, PowerAfter
  <1>3. /\ Power(16, 0) = 1 /\ Power(16, 1) = 16 * Power(16, 0) /\ Power(16, 2) = 16 * Power(16, 1)
        /\ Power(16, 3) = 16 * Power(16, 2) /\ Power(16, 4) = 16 * Power(16, 3)
    BY <1>2 DEF b
  <1> QED
    BY <1>3

LEMMA FourHexReads ==
  ASSUME NEW x \in Nat, x < 65536
  PROVE  /\ FourHex(x) \in Seq(Nat) /\ Len(FourHex(x)) = 4
         /\ ValueOf(FourHex(x), 16) = x
  <1> DEFINE b == 16
             four == 4
             s == LastDigits(x, four, b)
  <1>1. b \in Nat /\ b >= 2 /\ four \in Nat
    OBVIOUS
  <1>2. FourHex(x) = s
    BY DEF FourHex
  <1>3. Power(b, four) = 65536
    BY SixteenPower
  <1> HIDE DEF b, four
  <1>4. s \in Seq(Nat) /\ Len(s) = four
    BY <1>1, LastDigitsType
  <1>5. ValueOf(s, b) = x % Power(b, four)
    BY <1>1, LastDigitsRead
  <1>6. x % 65536 = x
    OBVIOUS
  <1> HIDE DEF s
  <1> QED
    BY <1>2, <1>3, <1>4, <1>5, <1>6 DEF b, four

(* The middle of three parts.                                              *)
LEMMA MiddleOf ==
  ASSUME NEW a \in Seq(Nat), NEW b \in Seq(Nat), NEW c \in Seq(Nat), Len(b) > 0
  PROVE  /\ (a \o b) \o c \in Seq(Nat) /\ Len((a \o b) \o c) = Len(a) + Len(b) + Len(c)
         /\ SubSeq((a \o b) \o c, Len(a) + 1, Len(a) + Len(b)) = b
  <1> DEFINE m == a \o b
             t == m \o c
             i == Len(a) + 1
             j == Len(a) + Len(b)
             s == SubSeq(t, i, j)
  <1>1. /\ m \in Seq(Nat) /\ Len(m) = j
        /\ \A k \in 1..Len(b) : m[Len(a) + k] = b[k]
    BY JoinedOf
  <1> HIDE DEF m
  <1>2. /\ t \in Seq(Nat) /\ Len(t) = Len(m) + Len(c) /\ \A k \in 1..Len(m) : t[k] = m[k]
    BY <1>1, JoinedOf
  <1> HIDE DEF t
  <1>3. /\ Len(a) \in Nat /\ Len(b) \in Nat /\ Len(c) \in Nat
        /\ i \in 1..Len(t) /\ j \in 1..Len(t) /\ j - i + 1 = Len(b)
    <2>1. Len(a) \in Nat /\ Len(b) \in Nat /\ Len(c) \in Nat
      OBVIOUS
    <2>2. Len(t) = j + Len(c)
      BY <1>1, <1>2
    <2> DEFINE x == Len(a)
               y == Len(b)
               z == Len(c)
               w == Len(t)
    <2>3. x \in Nat /\ y \in Nat /\ z \in Nat /\ y > 0 /\ w = x + y + z
      BY <2>1, <2>2
    <2> HIDE DEF x, y, z, w
    <2>4. x + 1 \in 1..w /\ x + y \in 1..w /\ (x + y) - (x + 1) + 1 = y
      BY ONLY <2>3
    <2> QED
      BY <2>3, <2>4 DEF x, y, z, w
  <1>4. s \in Seq(Nat) /\ Len(s) = Len(b)
    BY <1>2, <1>3, SMTT(30)
  <1>5. ASSUME NEW k \in 1..Len(b) PROVE s[k] = b[k]
    <2>1. k \in 1..(j - i + 1) /\ i + k - 1 = Len(a) + k /\ Len(a) + k \in 1..Len(m)
      BY <1>1, <1>3
    <2>2. s[k] = t[i + k - 1]
      BY <1>2, <1>3, <2>1
    <2> QED
      BY <1>1, <1>2, <2>1, <2>2
  <1> HIDE DEF s, i, j
  <1>6. s = b
    <2>1. s \in [1..Len(b) -> Nat]
      BY ONLY <1>4
    <2>2. b \in [1..Len(b) -> Nat]
      OBVIOUS
    <2> QED
      BY <1>5, <2>1, <2>2
  <1> QED
    BY <1>1, <1>2, <1>6 DEF s, t, m, i, j

LEMMA BasicEscapeReads ==
  ASSUME NEW v \in Nat, v < 65536
  PROVE  CodePointIn(<<Escape, Letter>> \o FourHex(v)) = v
  <1> DEFINE a == <<Escape, Letter>>
             b == FourHex(v)
             t == a \o b
  <1>1. a \in Seq(Nat) /\ Len(a) = 2
    BY DEF Escape, Letter
  <1>2. b \in Seq(Nat) /\ Len(b) = 4 /\ ValueOf(b, 16) = v
    BY FourHexReads
  <1> HIDE DEF a, b
  <1>3. t \in Seq(Nat) /\ Len(t) = 6
    <2>1. t \in Seq(Nat) /\ Len(t) = Len(a) + Len(b)
      BY ONLY <1>1, <1>2, JoinedOf
    <2> HIDE DEF t
    <2> QED
      BY <1>1, <1>2, <2>1
  <1>4. SubSeq(t, 3, 6) = b
    <2>1. SubSeq(t, Len(a) + 1, Len(t)) = b
      <3>1. Len(b) > 0
        BY <1>2
      <3> QED
        BY ONLY <1>1, <1>2, <3>1, RestOfJoined
    <2> HIDE DEF t
    <2> QED
      BY <1>1, <1>3, <2>1
  <1> HIDE DEF t
  <1>5. CodePointIn(t) = ValueOf(SubSeq(t, 3, 3 + 3), 16)
    BY <1>3 DEF CodePointIn, HexIn
  <1>6. CodePointIn(t) = v
    <2>1. 3 + 3 = 6
      OBVIOUS
    <2>2. SubSeq(t, 3, 3 + 3) = b
      BY ONLY <1>4, <2>1
    <2> QED
      BY ONLY <1>2, <1>5, <2>2
  <1> QED
    BY <1>6 DEF t, a, b

PairText(high, low) ==
  <<Escape, Letter>> \o FourHex(high + HighSurrogate) \o <<Escape, Letter>> \o FourHex(low + LowSurrogate)

LEMMA PairEscapeReads ==
  ASSUME NEW high \in Nat, high < 1024, NEW low \in Nat, low < 1024
  PROVE  CodePointIn(PairText(high, low)) = 65536 + high * 1024 + low
  <1> DEFINE a == <<Escape, Letter>>
             x == high + HighSurrogate
             y == low + LowSurrogate
             b == FourHex(x)
             d == FourHex(y)
             m == (a \o b) \o a
             t == m \o d
  <1>1. a \in Seq(Nat) /\ Len(a) = 2
    BY DEF Escape, Letter
  <1>2. x \in Nat /\ x < 65536 /\ y \in Nat /\ y < 65536
    BY DEF HighSurrogate, LowSurrogate
  <1>0. PairText(high, low) = t
    BY DEF PairText
  <1> HIDE DEF x, y
  <1>3. /\ b \in Seq(Nat) /\ Len(b) = 4 /\ ValueOf(b, 16) = x
        /\ d \in Seq(Nat) /\ Len(d) = 4 /\ ValueOf(d, 16) = y
    BY <1>2, FourHexReads
  <1> HIDE DEF a, b, d
  <1>4. m \in Seq(Nat) /\ Len(m) = 8
    <2>1. m \in Seq(Nat) /\ Len(m) = Len(a) + Len(b) + Len(a)
      <3>1. Len(b) > 0
        BY <1>3
      <3> QED
        BY <1>1, <1>3, <3>1, MiddleOf, ZenonT(30)
    <2> HIDE DEF m
    <2> QED
      BY <1>1, <1>3, <2>1
  <1>5. SubSeq(t, 9, 12) = d /\ t \in Seq(Nat) /\ Len(t) = 12
    <2> HIDE DEF m
    <2>1. t \in Seq(Nat) /\ Len(t) = 12
      <3>1. t \in Seq(Nat) /\ Len(t) = Len(m) + Len(d)
        BY <1>3, <1>4, JoinedOf, ZenonT(30)
      <3> HIDE DEF t
      <3> QED
        BY <1>3, <1>4, <3>1
    <2>2. SubSeq(t, Len(m) + 1, Len(t)) = d
      <3>1. Len(d) > 0
        BY <1>3
      <3> QED
        BY <1>3, <1>4, <3>1, RestOfJoined, ZenonT(30)
    <2> HIDE DEF t
    <2> QED
      BY <1>4, <2>1, <2>2
  <1>6. SubSeq(t, 3, 6) = b
    <2> DEFINE c == a \o d
    <2>1. c \in Seq(Nat) /\ a \o b \in Seq(Nat)
      BY <1>1, <1>3, JoinedOf
    <2>2. t = (a \o b) \o c
      <3> DEFINE w == a \o b
      <3>1. w \in Seq(Nat)
        BY <2>1
      <3> HIDE DEF w
      <3>2. (w \o a) \o d = w \o (a \o d)
        BY <1>1, <1>3, <3>1, JoinsAssociate, ZenonT(30)
      <3> QED
        BY <3>2 DEF w
    <2> HIDE DEF c
    <2>3. SubSeq((a \o b) \o c, Len(a) + 1, Len(a) + Len(b)) = b
      <3>1. Len(b) > 0
        BY <1>3
      <3> QED
        BY <1>1, <1>3, <2>1, <3>1, MiddleOf, ZenonT(30)
    <2> HIDE DEF t
    <2>4. Len(a) + 1 = 3 /\ Len(a) + Len(b) = 6
      BY ONLY <1>1, <1>3
    <2> QED
      BY ONLY <2>2, <2>3, <2>4
  <1> HIDE DEF t
  <1>7. CodePointIn(t) = 65536 + (ValueOf(SubSeq(t, 3, 6), 16) - 55296) * 1024 + (ValueOf(SubSeq(t, 9, 12), 16) - 56320)
    <2>1. Len(t) # 6
      BY <1>5
    <2> QED
      BY <2>1 DEF CodePointIn, HexIn
  <1>8. CodePointIn(t) = 65536 + high * 1024 + low
    <2>1. x - 55296 = high /\ y - 56320 = low
      BY DEF x, y, HighSurrogate, LowSurrogate
    <2>2. ValueOf(SubSeq(t, 3, 6), 16) = x /\ ValueOf(SubSeq(t, 9, 12), 16) = y
      BY ONLY <1>3, <1>5, <1>6
    <2> QED
      BY ONLY <1>7, <2>1, <2>2
  <1> QED
    BY ONLY <1>0, <1>8

EscapeText(v) ==
  LET adjusted == v - (LastBasic + 1)
  IN IF v <= LastBasic THEN <<Escape, Letter>> \o FourHex(v)
     ELSE PairText((adjusted \div 1024) % 1024, adjusted % 1024)

LEMMA EscapeReads ==
  ASSUME NEW v \in Nat, v <= LastCodePoint
  PROVE  CodePointIn(EscapeText(v)) = v
  <1>1. CASE v <= LastBasic
    <2>1. v < 65536
      BY <1>1 DEF LastBasic
    <2>2. EscapeText(v) = <<Escape, Letter>> \o FourHex(v)
      BY <1>1 DEF EscapeText
    <2>3. v \in Nat
      OBVIOUS
    <2>4. CodePointIn(<<Escape, Letter>> \o FourHex(v)) = v
      BY ONLY <2>1, <2>3, BasicEscapeReads
    <2> QED
      BY ONLY <2>2, <2>4
  <1>2. CASE ~(v <= LastBasic)
    <2> DEFINE adjusted == v - (LastBasic + 1)
               size == 1024
               q == adjusted \div size
               low == adjusted % size
               high == q % size
    <2>1. adjusted \in Nat /\ v = 65536 + adjusted /\ adjusted < 1048576
      BY <1>2 DEF LastBasic, LastCodePoint
    <2>2. EscapeText(v) = PairText(high, low)
      BY <1>2 DEF EscapeText
    <2> HIDE DEF adjusted
    <2>3. size \in Nat \ {0}
      OBVIOUS
    <2>4. q \in Nat /\ low \in Nat /\ low < size /\ adjusted = q * size + low
      <3> HIDE DEF size
      <3> QED
        BY ONLY <2>1, <2>3, Division
    <2> HIDE DEF q, low
    <2>5. q < size
      BY ONLY <2>1, <2>4 DEF size
    <2>6. high = q
      <3> HIDE DEF size
      <3>1. q = 0 * size + q /\ q \in 0..(size - 1) /\ 0 \in Int /\ q \in Int
        BY ONLY <2>3, <2>4, <2>5
      <3>2. q % size = q
        BY ONLY <2>3, <3>1, DivisionIs
      <3> QED
        BY <3>2
    <2> HIDE DEF high
    <2>7. high \in Nat /\ high < 1024 /\ low \in Nat /\ low < 1024
      BY ONLY <2>4, <2>5, <2>6 DEF size
    <2>9. CodePointIn(PairText(high, low)) = 65536 + high * 1024 + low
      BY ONLY <2>7, PairEscapeReads
    <2>10. v = 65536 + high * 1024 + low
      BY ONLY <2>1, <2>4, <2>6 DEF size
    <2> QED
      BY ONLY <2>2, <2>9, <2>10
  <1> QED
    BY <1>1, <1>2

-----------------------------------------------------------------------------
(* The functions that write any other text than an integer.                *)
LEMMA Written ==
  ASSUME NEW chars, Write(chars)
  PROVE  /\ call' = call /\ result' # "pending"
         /\ result' = "true" => output' = chars /\ Len(chars) <= call.capacity
  BY DEF Write, Return

LEMMA Refused ==
  ASSUME NEW written, Return(FALSE, written)
  PROVE  call' = call /\ result' = "false"
  BY DEF Return

LEMMA WroteDouble ==
  ASSUME NEW sign, NEW display, NEW fraction, NEW unit,
         WriteDouble(sign, display, fraction, unit)
  PROVE  /\ call' = call
         /\ result' = "true" =>
              /\ Len(output') <= call.capacity
              /\ \E sum \in Sums(display, Power(10, fraction)) :
                   output' = sign \o (DecimalText(sum \div One, fraction) \o unit)
  <1>1. PICK sum \in Sums(display, Power(10, fraction)) :
          \/ Return(FALSE, output)
          \/ Write(sign \o (DecimalText(sum \div One, fraction) \o unit))
    BY DEF WriteDouble
  <1> DEFINE t == sign \o (DecimalText(sum \div One, fraction) \o unit)
  <1>2. Return(FALSE, output) \/ Write(t)
    BY <1>1
  <1>3. call' = call /\ (result' = "true" => output' = t /\ Len(t) <= call.capacity)
    <2> HIDE DEF t
    <2> QED
      BY <1>2, Written, Refused
  <1> QED
    BY <1>3

LEMMA HexKeeps ==
  ASSUME InvCall, FormatHex
  PROVE  TextReads'
  <1>1. call.op = "hex" /\ Write(Digits(Arg, 16))
    BY DEF FormatHex, Pending
  <1>2. Arg \in Nat
    BY <1>1 DEF InvCall, NumberCall, Arg
  <1>3. ValueOf(Digits(Arg, 16), 16) = Arg
    <2> DEFINE b == 16
    <2>1. b \in Nat /\ b >= 2
      OBVIOUS
    <2> HIDE DEF b
    <2>2. ValueOf(Digits(Arg, b), b) = Arg
      BY <1>2, <2>1, DigitsRead
    <2> QED
      BY <2>2 DEF b
  <1>4. /\ call' = call /\ Arg' = Arg
        /\ result' = "true" => output' = Digits(Arg, 16) /\ Len(Digits(Arg, 16)) <= call.capacity
    BY <1>1, Written DEF Arg
  <1> QED
    BY <1>1, <1>3, <1>4 DEF TextReads

LEMMA HexPaddedKeeps ==
  ASSUME InvCall, FormatHexPadded
  PROVE  TextReads'
  <1> DEFINE b == 16
             s == LastDigits(Arg, call.digits, b)
  <1>1. call.op = "hex_padded" /\ ((call.digits \in 1..HexDigits /\ Write(s)) \/ Return(FALSE, output))
    BY DEF FormatHexPadded, Pending
  <1>2. Arg \in Nat
    BY <1>1 DEF InvCall, NumberCall, Arg
  <1>3. /\ call' = call /\ Arg' = Arg
        /\ result' = "true" => call.digits \in 1..HexDigits /\ output' = s /\ Len(s) <= call.capacity
    BY <1>1, Written, Refused DEF Arg
  <1>4. call.digits \in 1..HexDigits => Len(s) = call.digits /\ ValueOf(s, b) = Arg % Power(b, call.digits)
    <2>1. b \in Nat /\ b >= 2
      OBVIOUS
    <2> SUFFICES ASSUME call.digits \in 1..HexDigits
                 PROVE  Len(s) = call.digits /\ ValueOf(s, b) = Arg % Power(b, call.digits)
      OBVIOUS
    <2> HIDE DEF b
    <2>2. call.digits \in Nat
      BY NumbersAssumption
    <2> QED
      BY <1>2, <2>1, <2>2, LastDigitsType, LastDigitsRead
  <1> HIDE DEF s
  <1> QED
    BY <1>1, <1>3, <1>4 DEF TextReads

LEMMA DoubleKeeps ==
  ASSUME InvCall, FormatDouble
  PROVE  TextReads'
  <1> DEFINE sign == IF call.negative THEN <<Minus>> ELSE <<>>
             none == <<>>
             f == call.fraction
  <1>1. call.op = "double"
    BY DEF FormatDouble, Pending
  <1>2. \/ Return(FALSE, output)
        \/ call.kind \in {"nan", "inf"} /\ \E chars : Write(chars)
        \/ f \in 0..FractionMax /\ WriteDouble(sign, Arg, f, none)
    BY DEF FormatDouble
  <1>3. sign \in Seq(Nat) /\ Plain(sign) /\ none \in Seq(Nat) /\ Plain(none)
    BY DEF Plain, PointFree, Minus, Point, IsDigit
  <1> HIDE DEF sign, none
  <1>4. /\ call' = call /\ Arg' = Arg
        /\ result' = "true" => Len(output') <= call.capacity
        /\ result' = "true" /\ call.kind = "finite" =>
             /\ f \in 0..FractionMax
             /\ \E sum \in Sums(Arg, Power(10, f)) :
                  output' = sign \o (DecimalText(sum \div One, f) \o none)
    <2> DEFINE spoken == call.kind \in {"nan", "inf"}
               wrote == f \in 0..FractionMax /\ WriteDouble(sign, Arg, f, none)
    <2>1. spoken => call.kind # "finite"
      OBVIOUS
    <2>2. CASE Return(FALSE, output)
      <3>1. call' = call /\ result' = "false"
        BY <2>2, Refused
      <3> QED
        BY <3>1 DEF Arg
    <2>3. CASE spoken /\ \E chars : Write(chars)
      <3> HIDE DEF spoken
      <3>1. call' = call /\ (result' = "true" => Len(output') <= call.capacity)
        BY <2>3, Written
      <3> QED
        BY <2>1, <2>3, <3>1 DEF Arg
    <2>4. CASE wrote
      <3>1. WriteDouble(sign, Arg, f, none) /\ f \in 0..FractionMax
        BY <2>4
      <3>2. /\ call' = call
            /\ result' = "true" =>
                 /\ Len(output') <= call.capacity
                 /\ \E sum \in Sums(Arg, Power(10, f)) :
                      output' = sign \o (DecimalText(sum \div One, f) \o none)
        BY <3>1, WroteDouble
      <3>3. Arg' = Arg
        BY <3>2 DEF Arg
      <3> QED
        BY <3>1, <3>2, <3>3
    <2> QED
      BY <1>2, <2>2, <2>3, <2>4
  <1>5. ASSUME result' = "true", call.kind = "finite"
        PROVE  /\ Near(output', Arg, One)
               /\ Exact(Arg, f) => Nearest(output', Arg, One)
    <2>1. Arg \in Nat /\ f \in Nat
      BY <1>1, <1>4, <1>5, NumbersAssumption DEF InvCall, NumberCall, Arg
    <2>2. PICK sum \in Sums(Arg, Power(10, f)) :
            output' = sign \o (DecimalText(sum \div One, f) \o none)
      BY <1>4, <1>5
    <2> DEFINE q == sum \div One
               t == sign \o (DecimalText(q, f) \o none)
    <2>3. q \in Nat
      BY <2>1, TenPower, SumType
    <2> HIDE DEF q, f
    <2>4. Shows(t, q, f)
      BY <1>3, <2>1, <2>3, DecimalShows
    <2> HIDE DEF t
    <2>5. Shows(t, sum \div One, f) /\ One \in Nat \ {0}
      BY <2>4, PartsType DEF q
    <2>6. Within(8 * (Arg * One), 8 * (Arg * One), 17 * (Arg * One))
      <3> DEFINE x == Arg * One
      <3>1. x \in Nat
        BY <2>1, <2>5
      <3> HIDE DEF x
      <3>2. Shares * (8 * x - 8 * x) <= 17 * x
        BY <3>1, PartsType
      <3> QED
        BY <3>2 DEF Within, x
    <2>7. Near(t, Arg, One)
      BY <2>1, <2>5, <2>6, ShownNear
    <2>8. Exact(Arg, f) => Nearest(t, Arg, One)
      BY <2>1, <2>5, ShownNearest
    <2> QED
      BY <2>2, <2>7, <2>8 DEF t, q
  <1> QED
    BY <1>1, <1>4, <1>5 DEF TextReads

LEMMA HumanKeeps ==
  ASSUME InvCall, FormatHuman
  PROVE  TextReads'
  <1> DEFINE a == Rounded(Arg, 1)
             k == UnitOf(a, Kilo, 6)
             u == Power(Kilo, k)
             display == Display(Arg, u)
             f == FractionOf(display, k, 2)
  <1>1. call.op = "human" /\ WriteDouble(<<>>, display, f, HumanTail(k))
    BY DEF FormatHuman, HumanTail, Pending
  <1>2. Arg \in Nat
    BY <1>1 DEF InvCall, NumberCall, Arg
  <1>3. Kilo \in Nat /\ Kilo > 1 /\ a \in Nat
    BY <1>2, NumbersAssumption, WholeRounded
  <1>4. k \in 0..6 /\ (k > 0 => a >= u)
    <2> DEFINE six == 6
    <2>1. six \in Nat
      OBVIOUS
    <2> HIDE DEF six, a
    <2>2. LET i == UnitOf(a, Kilo, six) IN i \in 0..six /\ (i > 0 => a >= Power(Kilo, i))
      BY <1>3, <2>1, UnitType
    <2> QED
      BY <2>2 DEF six
  <1> HIDE DEF k
  <1>5. k > 0 => u <= 2 * Rounded(Arg, 1)
    <2>1. k \in Nat
      BY <1>4
    <2>2. u \in Nat
      BY <1>3, <2>1, PowerAfter
    <2> HIDE DEF u
    <2>3. k > 0 => u <= 2 * a
      <3> HIDE DEF a
      <3> QED
        BY <1>3, <1>4, <2>2
    <2> QED
      BY <2>3 DEF u
  <1>6. f \in Nat
    BY FractionType
  <1> HIDE DEF a, f
  <1>7. /\ call' = call /\ Arg' = Arg
        /\ result' = "true" =>
             /\ Len(output') <= call.capacity
             /\ \E sum \in Sums(display, Power(10, f)) :
                  output' = UnitText(sum \div One, f, HumanTail(k))
    <2> DEFINE none == <<>>
               tail == HumanTail(k)
    <2>1. WriteDouble(none, display, f, tail)
      BY <1>1
    <2>2. \A q : UnitText(q, f, tail) = none \o (DecimalText(q, f) \o tail)
      BY DEF UnitText
    <2> HIDE DEF none, tail, display
    <2>3. /\ call' = call
          /\ result' = "true" =>
               /\ Len(output') <= call.capacity
               /\ \E sum \in Sums(display, Power(10, f)) :
                    output' = none \o (DecimalText(sum \div One, f) \o tail)
      BY <2>1, WroteDouble
    <2>4. Arg' = Arg
      BY <2>3 DEF Arg
    <2> QED
      BY <2>2, <2>3, <2>4 DEF tail
  <1>8. ASSUME result' = "true" PROVE ReadsAs(output', Arg, UnitIn(output', Kilo))
    <2>1. PICK sum \in Sums(display, Power(10, f)) :
            output' = UnitText(sum \div One, f, HumanTail(k))
      BY <1>7, <1>8
    <2> DEFINE q == sum \div One
               t == UnitText(q, f, HumanTail(k))
    <2>2. q \in Nat
      <3>1. display \in Nat
        <4>1. u \in Nat \ {0}
          <5>1. k \in Nat /\ Kilo \in Nat \ {0}
            BY <1>3, <1>4
          <5> QED
            BY <5>1, PowerOfPositive
        <4>2. u = 1 \/ u <= 2 * Rounded(Arg, 1)
          <5>1. k = 0 \/ k > 0
            BY <1>4
          <5> QED
            BY <1>3, <1>5, <5>1, PowerOfZero
        <4> HIDE DEF u
        <4> QED
          BY <1>2, <4>1, <4>2, DisplayNear
      <3> HIDE DEF display
      <3> QED
        BY <1>6, <3>1, TenPower, SumType
    <2> HIDE DEF q
    <2>3. Shows(t, q, f) /\ UnitIn(t, Kilo) = Power(Kilo, k)
      BY <1>4, <1>6, <2>2, HumanReads
    <2> HIDE DEF t
    <2>4. Shows(t, sum \div One, f) /\ k \in Nat
      BY <1>4, <2>3 DEF q
    <2>5. ReadsAs(t, Arg, UnitIn(t, Kilo))
      BY <1>2, <1>3, <1>5, <1>6, <2>3, <2>4, UnitKeeps
    <2> QED
      BY <2>1, <2>5 DEF t, q
  <1> QED
    BY <1>1, <1>7, <1>8 DEF TextReads

LEMMA DurationKeeps ==
  ASSUME InvCall, FormatDuration
  PROVE  TextReads'
  <1> DEFINE a == Rounded(Arg, 1)
             k == UnitOf(Arg, Milli, 3)
             u == Power(Milli, k)
             display == Display(Arg, u)
             f == FractionOf(display, k, 3)
  <1>1. call.op = "duration" /\ WriteDouble(<<>>, display, f, DurationTail(k))
    BY DEF FormatDuration, DurationTail, Pending
  <1>2. Arg \in Nat
    BY <1>1 DEF InvCall, NumberCall, Arg
  <1>3. Milli \in Nat /\ Milli > 1 /\ a \in Nat /\ Arg <= 2 * a
    <2>1. Milli \in Nat /\ Milli > 1 /\ a \in Nat /\ Within(a, Arg, Arg)
      BY <1>2, NumbersAssumption, WholeRounded
    <2> HIDE DEF a
    <2>2. Shares * (Arg - a) <= Arg /\ Arg - a \in Int
      BY <1>2, <2>1 DEF Within
    <2> DEFINE v == Arg
    <2>3. v \in Nat /\ 8 * (v - a) <= v
      BY <1>2, <2>2, AtMostEighth
    <2> HIDE DEF v
    <2>4. v <= 2 * a
      BY <2>1, <2>3
    <2> QED
      BY <2>1, <2>4 DEF v
  <1>4. k \in 0..3 /\ (k > 0 => Arg >= u)
    <2> DEFINE three == 3
    <2>1. three \in Nat
      OBVIOUS
    <2> HIDE DEF three
    <2>2. LET i == UnitOf(Arg, Milli, three)
          IN i \in 0..three /\ (i > 0 => Arg >= Power(Milli, i))
      BY <1>2, <1>3, <2>1, UnitType
    <2> QED
      BY <2>2 DEF three
  <1> HIDE DEF k
  <1>5. k > 0 => u <= 2 * Rounded(Arg, 1)
    <2>1. k \in Nat
      BY <1>4
    <2>2. u \in Nat
      BY <1>3, <2>1, PowerAfter
    <2> HIDE DEF u
    <2>3. k > 0 => u <= 2 * a
      <3> HIDE DEF a
      <3> QED
        BY <1>2, <1>3, <1>4, <2>2
    <2> QED
      BY <2>3 DEF u
  <1>6. f \in Nat /\ k \in 0..6
    BY <1>4, FractionType
  <1> HIDE DEF a, f
  <1>7. /\ call' = call /\ Arg' = Arg
        /\ result' = "true" =>
             /\ Len(output') <= call.capacity
             /\ \E sum \in Sums(display, Power(10, f)) :
                  output' = UnitText(sum \div One, f, DurationTail(k))
    <2> DEFINE none == <<>>
               tail == DurationTail(k)
    <2>1. WriteDouble(none, display, f, tail)
      BY <1>1
    <2>2. \A q : UnitText(q, f, tail) = none \o (DecimalText(q, f) \o tail)
      BY DEF UnitText
    <2> HIDE DEF none, tail, display
    <2>3. /\ call' = call
          /\ result' = "true" =>
               /\ Len(output') <= call.capacity
               /\ \E sum \in Sums(display, Power(10, f)) :
                    output' = none \o (DecimalText(sum \div One, f) \o tail)
      BY <2>1, WroteDouble
    <2>4. Arg' = Arg
      BY <2>3 DEF Arg
    <2> QED
      BY <2>2, <2>3, <2>4 DEF tail
  <1>8. ASSUME result' = "true" PROVE ReadsAs(output', Arg, UnitIn(output', Milli))
    <2>1. PICK sum \in Sums(display, Power(10, f)) :
            output' = UnitText(sum \div One, f, DurationTail(k))
      BY <1>7, <1>8
    <2> DEFINE q == sum \div One
               t == UnitText(q, f, DurationTail(k))
    <2>2. q \in Nat
      <3>1. display \in Nat
        <4>1. u \in Nat \ {0}
          <5>1. k \in Nat /\ Milli \in Nat \ {0}
            BY <1>3, <1>4
          <5> QED
            BY <5>1, PowerOfPositive
        <4>2. u = 1 \/ u <= 2 * Rounded(Arg, 1)
          <5>1. k = 0 \/ k > 0
            BY <1>4
          <5> QED
            BY <1>3, <1>5, <5>1, PowerOfZero
        <4> HIDE DEF u
        <4> QED
          BY <1>2, <4>1, <4>2, DisplayNear
      <3> HIDE DEF display
      <3> QED
        BY <1>6, <3>1, TenPower, SumType
    <2> HIDE DEF q
    <2>3. Shows(t, q, f) /\ UnitIn(t, Milli) = Power(Milli, k)
      BY <1>6, <2>2, DurationReads
    <2> HIDE DEF t
    <2>4. Shows(t, sum \div One, f) /\ k \in Nat
      BY <1>4, <2>3 DEF q
    <2>5. ReadsAs(t, Arg, UnitIn(t, Milli))
      BY <1>2, <1>3, <1>5, <1>6, <2>3, <2>4, UnitKeeps
    <2> QED
      BY <2>1, <2>5 DEF t, q
  <1> QED
    BY <1>1, <1>7, <1>8 DEF TextReads

LEMMA EscapeKeeps ==
  ASSUME InvCall, FormatEscape
  PROVE  TextReads'
  <1> DEFINE t == EscapeText(Arg)
             adjusted == Arg - (LastBasic + 1)
             one == <<Escape, Letter>> \o FourHex(Arg)
             pair == PairText((adjusted \div 1024) % 1024, adjusted % 1024)
  <1>1. call.op = "escape"
    BY DEF FormatEscape, Pending
  <1>2. Arg \in Nat
    BY <1>1 DEF InvCall, NumberCall, Arg
  <1>3. /\ call' = call /\ Arg' = Arg
        /\ result' = "true" => ~(Arg > LastCodePoint) /\ output' = t /\ Len(t) <= call.capacity
    <2>1. t = IF Arg <= LastBasic THEN one ELSE pair
      BY DEF EscapeText
    <2>2. IF Arg > LastCodePoint \/ Arg \in Surrogates THEN Return(FALSE, output)
          ELSE IF Arg <= LastBasic THEN Write(one) ELSE Write(pair)
      BY DEF FormatEscape, PairText
    <2> HIDE DEF t, one, pair
    <2>3. CASE Return(FALSE, output)
      BY <2>3, Refused DEF Arg
    <2>4. CASE ~(Arg > LastCodePoint) /\ Arg <= LastBasic /\ Write(one)
      <3>1. call' = call /\ (result' = "true" => output' = one /\ Len(one) <= call.capacity)
        BY <2>4, Written
      <3> QED
        BY <2>1, <2>4, <3>1 DEF Arg
    <2>5. CASE ~(Arg > LastCodePoint) /\ ~(Arg <= LastBasic) /\ Write(pair)
      <3>1. call' = call /\ (result' = "true" => output' = pair /\ Len(pair) <= call.capacity)
        BY <2>5, Written
      <3> QED
        BY <2>1, <2>5, <3>1 DEF Arg
    <2> QED
      BY <2>2, <2>3, <2>4, <2>5
  <1>4. ~(Arg > LastCodePoint) => CodePointIn(t) = Arg
    <2> SUFFICES ASSUME ~(Arg > LastCodePoint) PROVE CodePointIn(t) = Arg
      OBVIOUS
    <2>1. Arg <= LastCodePoint
      BY <1>2 DEF LastCodePoint
    <2> QED
      BY <1>2, <2>1, EscapeReads
  <1> HIDE DEF t
  <1> QED
    BY <1>1, <1>3, <1>4 DEF TextReads

LEMMA TextFormatKeeps ==
  ASSUME InvCall, FormatHex \/ FormatHexPadded \/ FormatDouble \/ FormatHuman
                    \/ FormatDuration \/ FormatEscape
  PROVE  InvNumbers' /\ call' = call
  <1>1. TextReads'
    BY HexKeeps, HexPaddedKeeps, DoubleKeeps, HumanKeeps, DurationKeeps, EscapeKeeps
  <1>2. call' = call /\ call.op \in TextFormats
    <2> USE DEF Pending, Write, Return, TextFormats
    <2>1. ASSUME FormatHex \/ FormatHexPadded PROVE call' = call /\ call.op \in TextFormats
      BY <2>1 DEF FormatHex, FormatHexPadded
    <2>2. ASSUME FormatDouble \/ FormatHuman \/ FormatDuration
          PROVE  call' = call /\ call.op \in TextFormats
      <3>1. (\E chars : Write(chars)) => call' = call
        OBVIOUS
      <3>2. (\E sign, display, fraction, unit : WriteDouble(sign, display, fraction, unit)) =>
              call' = call
        BY WroteDouble
      <3>3. FormatDouble => call' = call
        BY <3>1, <3>2 DEF FormatDouble
      <3>4. FormatHuman \/ FormatDuration => call' = call
        BY <3>2 DEF FormatHuman, FormatDuration
      <3> QED
        BY <2>2, <3>3, <3>4 DEF FormatDouble, FormatHuman, FormatDuration
    <2>3. ASSUME FormatEscape PROVE call' = call /\ call.op \in TextFormats
      BY <2>3 DEF FormatEscape
    <2> QED
      BY <2>1, <2>2, <2>3
  <1>3. InvWritten' /\ InvParse' /\ ParsedIsValue' /\ IntegersReadBack'
    BY <1>2 DEF InvWritten, InvParse, ParsedIsValue, IntegersReadBack, Pending, Returned, Parses, TextFormats
  <1> QED
    BY <1>1, <1>2, <1>3 DEF InvNumbers, FormattedReads

-----------------------------------------------------------------------------
(* Classes.                                                                *)

(* What bc_core_glob_parse_class has found from each index on.             *)
ItemEnd(k) == IF IsRange(k) THEN k + 3 ELSE k + 1

ScanAt(scan, k, begin, target) ==
  /\ k >= Len(Pattern) => scan[k].closed = FALSE
  /\ k < Len(Pattern) /\ PatternChar(k) = Close /\ k # begin =>
       scan[k].closed = TRUE /\ scan[k].end = k /\ scan[k].matched = FALSE
  /\ k < Len(Pattern) /\ ~(PatternChar(k) = Close /\ k # begin) =>
       /\ scan[k].closed = scan[ItemEnd(k)].closed /\ scan[k].end = scan[ItemEnd(k)].end
       /\ scan[k].matched = (ItemMatches(k, target) \/ scan[ItemEnd(k)].matched)

ScanOf(scan, begin, target) == \A k \in Nat : ScanAt(scan, k, begin, target)

LEMMA ScanIs ==
  ASSUME Pattern \in Seq(Int), NEW i \in Nat, NEW target
  PROVE  LET begin == IF PatternHas(i, Bang) THEN i + 1 ELSE i
         IN \E scan : /\ ScanOf(scan, begin, target)
                      /\ ParseClass(i, target) =
                           [closed |-> scan[begin].closed, end |-> scan[begin].end,
                            match |-> scan[begin].matched # PatternHas(i, Bang)]
  <1> DEFINE begin == IF PatternHas(i, Bang) THEN i + 1 ELSE i
             V == [closed : BOOLEAN, end : Nat, matched : BOOLEAN]
             Found(g, k) ==
               IF k >= Len(Pattern) THEN [closed |-> FALSE, end |-> k, matched |-> FALSE]
               ELSE IF PatternChar(k) = Close /\ k # begin
                 THEN [closed |-> TRUE, end |-> k, matched |-> FALSE]
               ELSE LET rest == g[IF IsRange(k) THEN k + 3 ELSE k + 1]
                    IN [closed |-> rest.closed, end |-> rest.end,
                        matched |-> ItemMatches(k, target) \/ rest.matched]
             Made(g) == g = [k \in Nat |-> Found(g, k)]
             scan == CHOOSE g : Made(g)
             S == Nat
             F == [S -> V]
             B == [g \in F |-> [k \in S |-> Found(g, k)]]
             L == Len(Pattern)
             mu == [k \in S |-> IF k < L THEN L - k ELSE 0]
             none == [closed |-> FALSE, end |-> 0, matched |-> FALSE]
  <1>1. ParseClass(i, target) =
          [closed |-> scan[begin].closed, end |-> scan[begin].end,
           match |-> scan[begin].matched # PatternHas(i, Bang)]
    BY DEF ParseClass
  <1> HIDE DEF begin
  <1>2. L \in Nat /\ none \in V
    OBVIOUS
  <1>3. ASSUME NEW g \in F, NEW k \in Nat PROVE Found(g, k) \in V
    <2>1. g[k + 3] \in V /\ g[k + 1] \in V
      OBVIOUS
    <2> QED
      BY <2>1
  <1>4. ASSUME NEW g \in F, NEW h \in F, NEW k \in Nat,
               \A t \in Nat : mu[t] < mu[k] => g[t] = h[t]
        PROVE  Found(g, k) = Found(h, k)
    <2>1. k < L => g[k + 3] = h[k + 3] /\ g[k + 1] = h[k + 1]
      <3> SUFFICES ASSUME k < L PROVE g[k + 3] = h[k + 3] /\ g[k + 1] = h[k + 1]
        OBVIOUS
      <3>1. \A n \in Nat : mu[n] = IF n < L THEN L - n ELSE 0
        OBVIOUS
      <3> HIDE DEF mu, L
      <3>2. ASSUME NEW n \in Nat, k < n PROVE mu[n] < mu[k]
        <4>1. mu[k] = L - k
          BY <3>1
        <4>2. CASE n < L
          <5>1. mu[n] = L - n
            BY <3>1, <4>2
          <5> QED
            BY <1>2, <3>2, <4>1, <5>1
        <4>3. CASE ~(n < L)
          <5>1. mu[n] = 0
            BY <3>1, <4>3
          <5> QED
            BY <1>2, <4>1, <5>1
        <4> QED
          BY <4>2, <4>3
      <3>3. k + 1 \in Nat /\ k < k + 1 /\ k + 3 \in Nat /\ k < k + 3
        OBVIOUS
      <3>4. mu[k + 1] < mu[k] /\ mu[k + 3] < mu[k]
        BY <3>2, <3>3
      <3> QED
        BY <1>4, <3>3, <3>4
    <2>2. CASE k >= L
      BY <1>2, <2>2
    <2>3. CASE k < L /\ PatternChar(k) = Close /\ k # begin
      BY <1>2, <2>3
    <2>4. CASE k < L /\ ~(PatternChar(k) = Close /\ k # begin)
      <3>1. g[IF IsRange(k) THEN k + 3 ELSE k + 1] = h[IF IsRange(k) THEN k + 3 ELSE k + 1]
        <4>1. CASE IsRange(k)
          BY <2>1, <2>4, <4>1
        <4>2. CASE ~IsRange(k)
          BY <2>1, <2>4, <4>2
        <4> QED
          BY <4>1, <4>2
      <3>2. ~(k >= L)
        BY <1>2, <2>4
      <3> QED
        BY <2>4, <3>1, <3>2
    <2> QED
      BY <1>2, <2>2, <2>3, <2>4
  <1> HIDE DEF Found, V, none, Made
  <1>5. mu \in [S -> 0..L]
    BY <1>2
  <1> HIDE DEF mu
  <1>6. \A g \in F : B[g] = [k \in S |-> Found(g, k)] /\ B[g] \in F
    BY <1>3
  <1>7. B \in [F -> F]
    BY <1>6
  <1>8. \A g, h \in F : \A k \in S :
          (\A t \in S : mu[t] < mu[k] => g[t] = h[t]) => B[g][k] = B[h][k]
    BY <1>4, <1>6
  <1> HIDE DEF B, L, S
  <1>9. Contracts(B, S, V, mu, L)
    BY <1>5, <1>7, <1>8 DEF Contracts
  <1>10. PICK f : FixedPoint(f, B, S, V)
    BY <1>2, <1>9, FixedBy
  <1>11. Made(f)
    BY <1>6, <1>10 DEF Made, S, FixedPoint
  <1>12. Made(scan)
    BY <1>11
  <1> HIDE DEF scan
  <1>13. \A k \in Nat : scan[k] = Found(scan, k)
    BY <1>12 DEF Made
  <1>14. ASSUME NEW k \in Nat PROVE ScanAt(scan, k, begin, target)
    <2>1. CASE k >= L
      <3>1. scan[k] = [closed |-> FALSE, end |-> k, matched |-> FALSE]
        BY <1>13, <2>1 DEF Found, L
      <3>2. scan[k].closed = FALSE /\ ~(k < L)
        BY <1>2, <2>1, <3>1
      <3> QED
        BY <3>2 DEF L, ScanAt
    <2>2. CASE k < L /\ PatternChar(k) = Close /\ k # begin
      <3>1. ~(k >= L)
        BY <1>2, <2>2
      <3>2. scan[k] = [closed |-> TRUE, end |-> k, matched |-> FALSE]
        BY <1>13, <2>2, <3>1 DEF Found, L
      <3>3. scan[k].closed = TRUE /\ scan[k].end = k /\ scan[k].matched = FALSE
        BY <3>2
      <3> QED
        BY <2>2, <3>1, <3>3 DEF L, ScanAt
    <2>3. CASE k < L /\ ~(PatternChar(k) = Close /\ k # begin)
      <3>1. ~(k >= L)
        BY <1>2, <2>3
      <3>2. Found(scan, k) =
              [closed |-> scan[ItemEnd(k)].closed, end |-> scan[ItemEnd(k)].end,
               matched |-> ItemMatches(k, target) \/ scan[ItemEnd(k)].matched]
        BY <2>3, <3>1 DEF Found, L, ItemEnd
      <3>3. scan[k] = Found(scan, k)
        BY <1>13
      <3>4. /\ scan[k].closed = scan[ItemEnd(k)].closed /\ scan[k].end = scan[ItemEnd(k)].end
            /\ scan[k].matched = (ItemMatches(k, target) \/ scan[ItemEnd(k)].matched)
        BY <3>2, <3>3
      <3> QED
        BY <2>3, <3>1, <3>4 DEF L, ScanAt
    <2> QED
      BY <1>2, <2>1, <2>2, <2>3
  <1>15. ScanOf(scan, begin, target)
    BY <1>14 DEF ScanOf
  <1>16. begin = IF PatternHas(i, Bang) THEN i + 1 ELSE i
    BY DEF begin
  <1> QED
    BY <1>1, <1>15 DEF begin

(* What a class names from each index on.                                  *)
IsNamedRange(k, last) == k + 2 <= last /\ PatternChar(k + 1) = Dash

NamesAt(names, k, last, c) ==
  names[k] <=>
    /\ k <= last
    /\ IF IsNamedRange(k, last)
       THEN Fold(c) \in Fold(PatternChar(k))..Fold(PatternChar(k + 2)) \/ names[k + 3]
       ELSE Same(PatternChar(k), c) \/ names[k + 1]

NamesOf(names, last, c) == \A k \in Nat : NamesAt(names, k, last, c)

LEMMA NamesIs ==
  ASSUME NEW first \in Nat, NEW last \in Nat, NEW c
  PROVE  \E names : NamesOf(names, last, c) /\ (ClassNames(first, last, c) <=> names[first])
  <1> DEFINE V == BOOLEAN
             Named(g, k) ==
               /\ k <= last
               /\ IF k + 2 <= last /\ PatternChar(k + 1) = Dash
                  THEN Fold(c) \in Fold(PatternChar(k))..Fold(PatternChar(k + 2)) \/ g[k + 3]
                  ELSE Same(PatternChar(k), c) \/ g[k + 1]
             Made(g) == g = [k \in Nat |-> Named(g, k)]
             names == CHOOSE g : Made(g)
             S == Nat
             F == [S -> V]
             B == [g \in F |-> [k \in S |-> Named(g, k)]]
             L == last + 1
             mu == [k \in S |-> IF k < L THEN L - k ELSE 0]
             none == FALSE
  <1>1. ClassNames(first, last, c) <=> names[first]
    BY DEF ClassNames
  <1>2. L \in Nat /\ none \in V
    OBVIOUS
  <1>3. ASSUME NEW g \in F, NEW k \in Nat PROVE Named(g, k) \in V
    OBVIOUS
  <1>4. ASSUME NEW g \in F, NEW h \in F, NEW k \in Nat,
               \A t \in Nat : mu[t] < mu[k] => g[t] = h[t]
        PROVE  Named(g, k) <=> Named(h, k)
    <2> SUFFICES ASSUME k <= last PROVE Named(g, k) <=> Named(h, k)
      OBVIOUS
    <2>1. \A n \in Nat : mu[n] = IF n < L THEN L - n ELSE 0
      OBVIOUS
    <2>2. k < L
      OBVIOUS
    <2> HIDE DEF mu, L, Named
    <2>3. ASSUME NEW n \in Nat, k < n PROVE mu[n] < mu[k]
      <3>1. mu[k] = L - k
        BY <2>1, <2>2
      <3>2. CASE n < L
        <4>1. mu[n] = L - n
          BY <2>1, <3>2
        <4> QED
          BY <1>2, <2>3, <3>1, <4>1
      <3>3. CASE ~(n < L)
        <4>1. mu[n] = 0
          BY <2>1, <3>3
        <4> QED
          BY <1>2, <2>2, <3>1, <4>1
      <3> QED
        BY <3>2, <3>3
    <2>4. k + 1 \in Nat /\ k < k + 1 /\ k + 3 \in Nat /\ k < k + 3
      OBVIOUS
    <2>5. g[k + 1] = h[k + 1] /\ g[k + 3] = h[k + 3]
      BY <1>4, <2>3, <2>4
    <2> QED
      BY <2>5 DEF Named
  <1> HIDE DEF Named, V, none, Made
  <1>5. mu \in [S -> 0..L]
    BY <1>2
  <1> HIDE DEF mu
  <1>6. \A g \in F : B[g] = [k \in S |-> Named(g, k)] /\ B[g] \in F
    BY <1>3
  <1>7. B \in [F -> F]
    BY <1>6
  <1>8. \A g, h \in F : \A k \in S :
          (\A t \in S : mu[t] < mu[k] => g[t] = h[t]) => B[g][k] = B[h][k]
    <2>1. ASSUME NEW g \in F, NEW h \in F, NEW k \in S, \A t \in S : mu[t] < mu[k] => g[t] = h[t]
          PROVE  B[g][k] = B[h][k]
      <3>1. Named(g, k) <=> Named(h, k)
        BY <1>4, <2>1
      <3>2. Named(g, k) \in BOOLEAN /\ Named(h, k) \in BOOLEAN
        BY <1>3 DEF V
      <3>3. Named(g, k) = Named(h, k)
        BY <3>1, <3>2
      <3> QED
        BY <1>6, <3>3
    <2> QED
      BY <2>1
  <1> HIDE DEF B, L, S
  <1>9. Contracts(B, S, V, mu, L)
    BY <1>5, <1>7, <1>8 DEF Contracts
  <1>10. PICK f : FixedPoint(f, B, S, V)
    BY <1>2, <1>9, FixedBy
  <1>11. Made(f)
    BY <1>6, <1>10 DEF Made, S, FixedPoint
  <1>12. Made(names)
    BY <1>11
  <1> HIDE DEF names
  <1>13. \A k \in Nat : names[k] = Named(names, k)
    BY <1>12 DEF Made
  <1>14. ASSUME NEW k \in Nat PROVE NamesAt(names, k, last, c)
    <2>1. names[k] <=> Named(names, k)
      BY <1>13
    <2> QED
      BY <2>1 DEF Named, NamesAt, IsNamedRange
  <1>15. NamesOf(names, last, c)
    BY <1>14 DEF NamesOf
  <1> QED
    BY <1>1, <1>15

(* A class is closed by the first of the characters that can close it.     *)
LEMMA ClassEndIs ==
  ASSUME Pattern \in Seq(Int), NEW i \in Nat, Closings(i) # {}
  PROVE  /\ ClassEnd(i) \in Closings(i) /\ \A n \in Closings(i) : ClassEnd(i) <= n
         /\ ClassEnd(i) \in Nat /\ ClassBegin(i) \in Nat /\ ClassBegin(i) < ClassEnd(i)
         /\ i < ClassEnd(i) /\ ClassEnd(i) < Len(Pattern) /\ PatternChar(ClassEnd(i)) = Close
         /\ \A n \in Nat : ClassBegin(i) < n /\ n < ClassEnd(i) => PatternChar(n) # Close
  <1>1. ClassBegin(i) \in Nat /\ i < ClassBegin(i) /\ Len(Pattern) \in Nat
    BY DEF ClassBegin
  <1> DEFINE b == ClassBegin(i)
             L == Len(Pattern)
             C == Closings(i)
  <1>2. C = {n \in (b + 1)..(L - 1) : PatternChar(n) = Close}
    BY DEF Closings
  <1> HIDE DEF b, L, C
  <1>3. C \in SUBSET Nat /\ C # {}
    BY <1>1, <1>2 DEF b, C
  <1>4. \E n \in C : \A m \in C : n <= m
    BY <1>3, LeastNat
  <1>5. ClassEnd(i) \in C /\ \A n \in C : ClassEnd(i) <= n
    BY <1>4 DEF ClassEnd, C
  <1> DEFINE e == ClassEnd(i)
  <1> HIDE DEF e
  <1>6. e \in (b + 1)..(L - 1) /\ PatternChar(e) = Close /\ \A n \in C : e <= n
    BY <1>2, <1>5 DEF e
  <1>7. e \in Nat /\ b \in Nat /\ b < e /\ i < e /\ e < L
    BY <1>1, <1>6 DEF b, L
  <1>8. ASSUME NEW n \in Nat, b < n, n < e PROVE PatternChar(n) # Close
    <2>1. n \in (b + 1)..(L - 1) /\ ~(e <= n)
      BY <1>1, <1>7, <1>8 DEF b, L
    <2> QED
      BY <1>2, <1>6, <2>1
  <1> QED
    BY <1>5, <1>6, <1>7, <1>8 DEF b, e, L, C

(* A class that no character closes is not closed.                         *)
LEMMA NeverClosed ==
  ASSUME Pattern \in Seq(Int), NEW i \in Nat, Closings(i) = {}, NEW scan, NEW target,
         ScanOf(scan, ClassBegin(i), target)
  PROVE  scan[ClassBegin(i)].closed = FALSE
  <1> DEFINE b == ClassBegin(i)
             L == Len(Pattern)
             T == {m \in 0..L : \A k \in Nat : b <= k /\ L <= k + m => scan[k].closed = FALSE}
  <1>1. b \in Nat /\ L \in Nat
    BY DEF ClassBegin
  <1>2. \A n \in (b + 1)..(L - 1) : PatternChar(n) # Close
    BY DEF Closings
  <1> HIDE DEF b, L
  <1>3. \A k \in Nat : ScanAt(scan, k, b, target)
    BY DEF ScanOf, b
  <1>4. \A k \in Nat : L <= k => scan[k].closed = FALSE
    BY <1>1, <1>3 DEF ScanAt, L
  <1>5. 0 \in T
    BY <1>1, <1>4
  <1>6. ASSUME NEW m \in 1..L, m - 1 \in T PROVE m \in T
    <2>0. m \in 0..L /\ m \in Nat
      BY <1>1
    <2> SUFFICES ASSUME NEW k \in Nat, b <= k, L <= k + m PROVE scan[k].closed = FALSE
      BY <2>0
    <2>1. CASE L <= k
      BY <1>4, <2>1
    <2>2. CASE k < L
      <3>1. ~(PatternChar(k) = Close /\ k # b)
        <4> SUFFICES ASSUME k # b PROVE PatternChar(k) # Close
          OBVIOUS
        <4>1. k \in (b + 1)..(L - 1)
          BY <1>1, <2>2
        <4> QED
          BY <1>2, <4>1
      <3>2. scan[k].closed = scan[ItemEnd(k)].closed
        BY <1>3, <2>2, <3>1 DEF ScanAt, L
      <3>3. ItemEnd(k) \in Nat /\ b <= ItemEnd(k) /\ L <= ItemEnd(k) + (m - 1)
        <4>1. ItemEnd(k) = k + 1 \/ ItemEnd(k) = k + 3
          BY DEF ItemEnd
        <4> QED
          BY <1>1, <4>1
      <3> QED
        BY <1>6, <3>2, <3>3
    <2>3. L <= k \/ k < L
      BY <1>1
    <2> QED
      BY <2>1, <2>2, <2>3
  <1>7. L \in T
    <2> HIDE DEF T
    <2>1. \A m \in 0..L : m \in T
      BY <1>1, <1>5, <1>6, Upwards
    <2> QED
      BY <1>1, <2>1
  <1>8. b <= b /\ L <= b + L
    BY <1>1
  <1> QED
    BY <1>1, <1>7, <1>8 DEF b

(* A class that is closed is scanned up to there, and matches what it      *)
(* names.                                                                  *)
ScannedAt(scan, names, k, e) ==
  /\ scan[k].closed = TRUE /\ scan[k].end = e
  /\ scan[k].matched \in BOOLEAN /\ (scan[k].matched <=> names[k])

LEMMA ScannedToEnd ==
  ASSUME Pattern \in Seq(Int), NEW i \in Nat, Closings(i) # {}, NEW scan, NEW target,
         ScanOf(scan, ClassBegin(i), target),
         NEW names, NamesOf(names, ClassEnd(i) - 1, target)
  PROVE  ScannedAt(scan, names, ClassBegin(i), ClassEnd(i))
  <1> DEFINE b == ClassBegin(i)
             e == ClassEnd(i)
             L == Len(Pattern)
             T == {m \in 0..e : \A k \in Nat : b <= k /\ k <= e /\ e <= k + m => ScannedAt(scan, names, k, e)}
  <1>1. /\ b \in Nat /\ e \in Nat /\ L \in Nat /\ b < e /\ e < L /\ PatternChar(e) = Close
        /\ \A n \in Nat : b < n /\ n < e => PatternChar(n) # Close
    BY ClassEndIs
  <1> HIDE DEF b, e, L
  <1>2. \A k \in Nat : ScanAt(scan, k, b, target) /\ NamesAt(names, k, e - 1, target)
    BY DEF ScanOf, NamesOf, b, e
  <1>3. ScannedAt(scan, names, e, e)
    <2>1. e # b /\ ~(e <= e - 1)
      BY <1>1
    <2>2. scan[e].closed = TRUE /\ scan[e].end = e /\ scan[e].matched = FALSE
      BY <1>1, <1>2, <2>1 DEF ScanAt, L
    <2>3. ~names[e]
      BY <1>1, <1>2, <2>1 DEF NamesAt
    <2> QED
      BY <2>2, <2>3 DEF ScannedAt
  <1>4. 0 \in T
    BY <1>1, <1>3
  <1>5. ASSUME NEW m \in 1..e, m - 1 \in T PROVE m \in T
    <2> SUFFICES ASSUME NEW k \in Nat, b <= k, k <= e, e <= k + m PROVE ScannedAt(scan, names, k, e)
      OBVIOUS
    <2>1. CASE k = e
      BY <1>3, <2>1
    <2>2. CASE k < e
      <3>1. k < L /\ ~(PatternChar(k) = Close /\ k # b) /\ k <= e - 1
        BY <1>1, <2>2
      <3>2. /\ scan[k].closed = scan[ItemEnd(k)].closed /\ scan[k].end = scan[ItemEnd(k)].end
            /\ scan[k].matched = (ItemMatches(k, target) \/ scan[ItemEnd(k)].matched)
        BY <1>2, <3>1 DEF ScanAt, L
      <3>3. /\ IsRange(k) <=> IsNamedRange(k, e - 1)
            /\ IsRange(k) => k + 3 <= e
        <4> DEFINE c1 == PatternChar(k + 1)
                   c2 == PatternChar(k + 2)
                   ce == PatternChar(e)
        <4>1. IsRange(k) <=> k + 2 < L /\ c1 = Dash /\ c2 # Close
          BY DEF IsRange, L
        <4>2. IsNamedRange(k, e - 1) <=> k + 2 <= e - 1 /\ c1 = Dash
          BY DEF IsNamedRange
        <4>3. Dash # Close
          BY DEF Dash, Close
        <4>4. k + 1 = e => c1 = Close
          BY <1>1
        <4>5. k + 2 = e => c2 = Close
          BY <1>1
        <4>6. k + 2 < e => c2 # Close
          <5> SUFFICES ASSUME k + 2 < e PROVE c2 # Close
            OBVIOUS
          <5>1. k + 2 \in Nat /\ b < k + 2
            BY <1>1
          <5> QED
            BY <1>1, <5>1
        <4> HIDE DEF c1, c2
        <4> QED
          BY <1>1, <2>2, <4>1, <4>2, <4>3, <4>4, <4>5, <4>6
      <3>4. ItemEnd(k) \in Nat /\ b <= ItemEnd(k) /\ ItemEnd(k) <= e /\ e <= ItemEnd(k) + (m - 1)
        <4>1. CASE IsRange(k)
          BY <1>1, <2>2, <3>3, <4>1 DEF ItemEnd
        <4>2. CASE ~IsRange(k)
          BY <1>1, <2>2, <4>2 DEF ItemEnd
        <4> QED
          BY <4>1, <4>2
      <3>5. ScannedAt(scan, names, ItemEnd(k), e)
        BY <1>5, <3>4
      <3>6. names[k] <=> ItemMatches(k, target) \/ names[ItemEnd(k)]
        <4>1. NamesAt(names, k, e - 1, target)
          BY <1>2
        <4>2. CASE IsRange(k)
          BY <3>1, <3>3, <4>1, <4>2 DEF NamesAt, ItemEnd, ItemMatches
        <4>3. CASE ~IsRange(k)
          BY <3>1, <3>3, <4>1, <4>3 DEF NamesAt, ItemEnd, ItemMatches
        <4> QED
          BY <4>2, <4>3
      <3>7. scan[k].matched \in BOOLEAN
        BY <3>2
      <3>8. scan[k].matched <=> names[k]
        BY <3>2, <3>5, <3>6 DEF ScannedAt
      <3> QED
        BY <3>2, <3>5, <3>7, <3>8 DEF ScannedAt
    <2> QED
      BY <1>1, <2>1, <2>2
  <1>6. e \in T
    <2> HIDE DEF T
    <2>1. \A m \in 0..e : m \in T
      BY <1>1, <1>4, <1>5, Upwards
    <2> QED
      BY <1>1, <2>1
  <1>7. b <= b /\ b <= e /\ e <= b + e
    BY <1>1
  <1> QED
    BY <1>1, <1>6, <1>7 DEF b, e

LEMMA ClassIs ==
  ASSUME Pattern \in Seq(Int), NEW i \in Nat, NEW target
  PROVE  /\ ParseClass(i + 1, target).closed <=> Closings(i) # {}
         /\ Closings(i) # {} =>
              /\ ParseClass(i + 1, target).end = ClassEnd(i)
              /\ ParseClass(i + 1, target).match <=>
                   (ClassNames(ClassBegin(i), ClassEnd(i) - 1, target) <=> ~PatternHas(i + 1, Bang))
  <1> DEFINE b == ClassBegin(i)
             start == IF PatternHas(i + 1, Bang) THEN (i + 1) + 1 ELSE i + 1
             class == ParseClass(i + 1, target)
             negate == PatternHas(i + 1, Bang)
  <1>1. b = start /\ b \in Nat
    BY DEF ClassBegin
  <1>2. PICK scan : /\ ScanOf(scan, start, target)
                    /\ class = [closed |-> scan[start].closed, end |-> scan[start].end,
                                match |-> scan[start].matched # negate]
    <2>1. i + 1 \in Nat
      OBVIOUS
    <2> QED
      BY <2>1, ScanIs
  <1> HIDE DEF start, class
  <1>3. /\ ScanOf(scan, b, target)
        /\ class.closed = scan[b].closed /\ class.end = scan[b].end
        /\ class.match = (scan[b].matched # negate)
    BY <1>1, <1>2
  <1>4. CASE Closings(i) = {}
    BY <1>3, <1>4, NeverClosed DEF class
  <1>5. CASE Closings(i) # {}
    <2>1. b < ClassEnd(i) /\ ClassEnd(i) \in Nat
      BY <1>5, ClassEndIs
    <2>2. ClassEnd(i) - 1 \in Nat
      BY <1>1, <2>1
    <2>3. PICK names : /\ NamesOf(names, ClassEnd(i) - 1, target)
                       /\ ClassNames(b, ClassEnd(i) - 1, target) <=> names[b]
      BY <1>1, <2>2, NamesIs
    <2>4. ScannedAt(scan, names, b, ClassEnd(i))
      BY <1>3, <1>5, <2>3, ScannedToEnd
    <2>5. /\ class.closed = TRUE /\ class.end = ClassEnd(i)
          /\ scan[b].matched \in BOOLEAN /\ (scan[b].matched <=> names[b])
      BY <1>3, <2>4 DEF ScannedAt
    <2> DEFINE named == ClassNames(b, ClassEnd(i) - 1, target)
    <2> HIDE DEF named, negate
    <2>6. named <=> names[b]
      BY <2>3 DEF named
    <2>7. class.match <=> (named <=> ~negate)
      <3>1. negate \in BOOLEAN
        BY DEF negate, PatternHas
      <3>2. CASE scan[b].matched = TRUE
        BY <1>3, <2>5, <2>6, <3>1, <3>2
      <3>3. CASE scan[b].matched = FALSE
        BY <1>3, <2>5, <2>6, <3>1, <3>3
      <3> QED
        BY <2>5, <3>2, <3>3
    <2> QED
      BY <1>5, <2>5, <2>7 DEF named, negate, class
  <1> QED
    BY <1>4, <1>5

-----------------------------------------------------------------------------
(* Patterns.                                                               *)

(* How a text goes on that matches the pattern from i on.                  *)
Continues(i, j, matching) ==
  \/ \E k \in 0..Len(Subject) : StandsFor(i, j, k) /\ k \in matching[NextToken(i)]
  \/ DoubleStar(i) /\ PatternHas(i + 2, Slash) /\ j \in matching[i + 3]

(* Tokens do not reach past the end of the pattern.                        *)
LEMMA NextTokenIs ==
  ASSUME Pattern \in Seq(Int), NEW i \in 0..(Len(Pattern) - 1)
  PROVE  /\ NextToken(i) \in Nat /\ i < NextToken(i) /\ NextToken(i) <= Len(Pattern)
         /\ PatternHas(i + 2, Slash) => i + 3 <= Len(Pattern)
  <1>1. Len(Pattern) \in Nat /\ i \in Nat /\ i < Len(Pattern)
    OBVIOUS
  <1>2. CASE DoubleStar(i) \/ Escaped(i)
    <2>1. i + 1 < Len(Pattern)
      BY <1>2 DEF DoubleStar, Escaped, PatternHas
    <2> QED
      BY <1>1, <1>2, <2>1 DEF NextToken, PatternHas
  <1>3. CASE ~(DoubleStar(i) \/ Escaped(i)) /\ PatternChar(i) = Open /\ Closings(i) # {}
    <2>1. ClassEnd(i) \in Nat /\ i < ClassEnd(i) /\ ClassEnd(i) < Len(Pattern)
      BY <1>1, <1>3, ClassEndIs
    <2>2. NextToken(i) = ClassEnd(i) + 1
      BY <1>3 DEF NextToken
    <2> QED
      BY <1>1, <2>1, <2>2 DEF PatternHas
  <1>4. CASE ~(DoubleStar(i) \/ Escaped(i)) /\ ~(PatternChar(i) = Open /\ Closings(i) # {})
    <2>1. NextToken(i) = i + 1
      BY <1>4 DEF NextToken
    <2> QED
      BY <1>1, <2>1 DEF PatternHas
  <1> QED
    BY <1>2, <1>3, <1>4

(* A token for one character.                                              *)
FitsOne(i, c) ==
  CASE Escaped(i) -> Same(PatternChar(i + 1), c)
    [] PatternChar(i) = Question -> GlobOptions.path => c # Slash
    [] PatternChar(i) = Open ->
         /\ Closings(i) # {}
         /\ ClassNames(ClassBegin(i), ClassEnd(i) - 1, c) <=> ~PatternHas(i + 1, Bang)
    [] OTHER -> Same(PatternChar(i), c)

LEMMA OneCharacter ==
  ASSUME Pattern \in Seq(Int), Subject \in Seq(Int), NEW g, NEW i \in 0..(Len(Pattern) - 1),
         PatternChar(i) # Star
  PROVE  {j \in 0..Len(Subject) : Continues(i, j, g)} =
           {j \in 0..(Len(Subject) - 1) : FitsOne(i, SubjectChar(j)) /\ j + 1 \in g[NextToken(i)]}
  <1> DEFINE t == Len(Subject)
             G == g[NextToken(i)]
  <1>1. t \in Nat
    OBVIOUS
  <1>2. ~DoubleStar(i)
    BY DEF DoubleStar
  <1>3. \A j, k : StandsFor(i, j, k) <=> k = j + 1 /\ FitsOne(i, SubjectChar(j))
    BY DEF StandsFor, FitsOne
  <1>4. \A j : Continues(i, j, g) <=> \E k \in 0..t : k = j + 1 /\ FitsOne(i, SubjectChar(j)) /\ k \in G
    BY <1>2, <1>3 DEF Continues
  <1> HIDE DEF t, G
  <1>5. \A j \in 0..t : Continues(i, j, g) <=> j \in 0..(t - 1) /\ FitsOne(i, SubjectChar(j)) /\ j + 1 \in G
    BY <1>1, <1>4
  <1>6. \A j \in 0..(t - 1) : j \in 0..t
    BY <1>1
  <1> QED
    BY <1>5, <1>6 DEF t, G

(* What the matcher tries is what the tokens mean.                         *)
LEMMA MatchingAt ==
  ASSUME Pattern \in Seq(Int), Subject \in Seq(Int), NEW g, NEW i \in 0..(Len(Pattern) - 1)
  PROVE  MatchingFrom(i, g) = {j \in 0..Len(Subject) : Continues(i, j, g)}
  <1> DEFINE t == Len(Subject)
             OneFits == {j \in 0..(t - 1) : FitsOne(i, SubjectChar(j)) /\ j + 1 \in g[NextToken(i)]}
  <1>1. i # Len(Pattern) /\ i \in Nat /\ t \in Nat
    OBVIOUS
  <1>2. CASE PatternChar(i) = Star
    <2> DEFINE double == DoubleStar(i)
               after  == IF double THEN i + 2 ELSE i + 1
    <2>1. double <=> GlobOptions.double /\ PatternHas(i + 1, Star)
      BY <1>2 DEF DoubleStar
    <2>2. ~Escaped(i) /\ PatternChar(i) # Open
      BY <1>2 DEF Escaped, Star, Backslash, Open
    <2>3. NextToken(i) = after
      BY <2>2 DEF NextToken
    <2>4. MatchingFrom(i, g) =
            {j \in 0..t : \/ NoDirectory(double, after) /\ j \in g[after + 1]
                          \/ Reach(double, j) \cap g[after] # {}}
      BY <1>1, <1>2 DEF MatchingFrom, DoubleStar
    <2>5. \A j \in 0..t : (NoDirectory(double, after) /\ j \in g[after + 1]) <=>
                          (double /\ PatternHas(i + 2, Slash) /\ j \in g[i + 3])
      BY <1>1 DEF NoDirectory
    <2>6. ASSUME NEW j \in 0..t
          PROVE  Reach(double, j) \cap g[after] # {} <=>
                   \E k \in 0..t : StandsFor(i, j, k) /\ k \in g[after]
      <3>1. \A k : k \in Reach(double, j) <=> k \in 0..t /\ StandsFor(i, j, k)
        <4>1. \A k : k \in j..t <=> k \in 0..t /\ j <= k
          BY <1>1
        <4> QED
          BY <1>2, <4>1 DEF Reach, StandsFor
      <3> QED
        BY <3>1
    <2>7. \A j \in 0..t : Continues(i, j, g) <=>
            \/ NoDirectory(double, after) /\ j \in g[after + 1]
            \/ Reach(double, j) \cap g[after] # {}
      BY <2>3, <2>5, <2>6 DEF Continues
    <2> HIDE DEF double, after
    <2> QED
      BY <2>4, <2>7
  <1>3. CASE PatternChar(i) # Star
    <2>1. {j \in 0..t : Continues(i, j, g)} = OneFits
      BY <1>3, OneCharacter
    <2> DEFINE C(j) ==
            IF PatternChar(i) = Backslash /\ GlobOptions.escape /\ i + 1 < Len(Pattern) THEN
              Same(PatternChar(i + 1), SubjectChar(j)) /\ j + 1 \in g[i + 2]
            ELSE IF PatternChar(i) = Question THEN
              ~(GlobOptions.path /\ SubjectChar(j) = Slash) /\ j + 1 \in g[i + 1]
            ELSE IF PatternChar(i) = Open THEN
              LET class == ParseClass(i + 1, SubjectChar(j))
              IN class.closed /\ class.match /\ j + 1 \in g[class.end + 1]
            ELSE Same(PatternChar(i), SubjectChar(j)) /\ j + 1 \in g[i + 1]
    <2>2. MatchingFrom(i, g) = {j \in 0..(t - 1) : C(j)}
      BY <1>1, <1>3 DEF MatchingFrom
    <2>3. Question # Backslash /\ Open # Backslash /\ Open # Question
      BY DEF Question, Backslash, Open
    <2>4. ~DoubleStar(i)
      BY <1>3 DEF DoubleStar
    <2>5. ASSUME NEW j \in 0..(t - 1)
          PROVE  C(j) <=> FitsOne(i, SubjectChar(j)) /\ j + 1 \in g[NextToken(i)]
      <3> DEFINE c == SubjectChar(j)
      <3>1. CASE Escaped(i)
        <4>1. FitsOne(i, c) <=> Same(PatternChar(i + 1), c)
          BY <2>3, <3>1 DEF FitsOne, Escaped
        <4>2. NextToken(i) = i + 2
          BY <3>1 DEF NextToken
        <4> QED
          BY <3>1, <4>1, <4>2 DEF Escaped
      <3>2. CASE ~Escaped(i) /\ PatternChar(i) = Question
        <4>1. FitsOne(i, c) <=> ~(GlobOptions.path /\ c = Slash)
          BY <2>3, <3>2 DEF FitsOne
        <4>2. NextToken(i) = i + 1
          BY <2>3, <2>4, <3>2 DEF NextToken
        <4> QED
          BY <2>3, <3>2, <4>1, <4>2 DEF Escaped
      <3>3. CASE ~Escaped(i) /\ PatternChar(i) = Open
        <4> DEFINE class == ParseClass(i + 1, c)
        <4>1. FitsOne(i, c) <=>
                /\ Closings(i) # {}
                /\ ClassNames(ClassBegin(i), ClassEnd(i) - 1, c) <=> ~PatternHas(i + 1, Bang)
          BY <2>3, <3>3 DEF FitsOne
        <4>2. C(j) <=> class.closed /\ class.match /\ j + 1 \in g[class.end + 1]
          BY <2>3, <3>3 DEF Escaped
        <4> HIDE DEF class, c, C
        <4>3. /\ class.closed <=> Closings(i) # {}
              /\ Closings(i) # {} =>
                   /\ class.end = ClassEnd(i)
                   /\ class.match <=>
                        (ClassNames(ClassBegin(i), ClassEnd(i) - 1, c) <=> ~PatternHas(i + 1, Bang))
          BY <1>1, ClassIs DEF class
        <4>4. Closings(i) # {} => NextToken(i) = ClassEnd(i) + 1
          BY <2>4, <3>3 DEF NextToken
        <4>5. C(j) <=> FitsOne(i, c) /\ j + 1 \in g[NextToken(i)]
          <5>1. CASE Closings(i) = {}
            BY <4>1, <4>2, <4>3, <5>1
          <5>2. CASE Closings(i) # {}
            BY <4>1, <4>2, <4>3, <4>4, <5>2
          <5> QED
            BY <5>1, <5>2
        <4> QED
          BY <4>5 DEF c
      <3>4. CASE ~Escaped(i) /\ PatternChar(i) # Question /\ PatternChar(i) # Open
        <4>1. FitsOne(i, c) <=> Same(PatternChar(i), c)
          BY <3>4 DEF FitsOne
        <4>2. NextToken(i) = i + 1
          BY <2>4, <3>4 DEF NextToken
        <4> QED
          BY <3>4, <4>1, <4>2 DEF Escaped
      <3> QED
        BY <3>1, <3>2, <3>3, <3>4
    <2> HIDE DEF C
    <2>6. {j \in 0..(t - 1) : C(j)} = OneFits
      BY <2>5
    <2> QED
      BY <2>1, <2>2, <2>6
  <1> QED
    BY <1>2, <1>3

(* The rows of the matcher.                                                *)
MatchingOf(m) ==
  /\ m[Len(Pattern)] = {Len(Subject)}
  /\ \A i \in 0..(Len(Pattern) - 1) : m[i] = {j \in 0..Len(Subject) : Continues(i, j, m)}

LEMMA MatchingIs ==
  ASSUME Pattern \in Seq(Int), Subject \in Seq(Int)
  PROVE  \E m : MatchingOf(m) /\ (GlobMatches <=> 0 \in m[0])
  <1> DEFINE P == Len(Pattern)
             t == Len(Subject)
             S == 0..P
             V == SUBSET (0..t)
             Made(g) == g = [i \in 0..P |-> MatchingFrom(i, g)]
             m == CHOOSE g : Made(g)
             F == [S -> V]
             B == [g \in F |-> [i \in S |-> MatchingFrom(i, g)]]
             mu == [i \in S |-> P - i]
             none == {}
  <1>1. GlobMatches <=> 0 \in m[0]
    BY DEF GlobMatches
  <1>2. P \in Nat /\ t \in Nat /\ none \in V
    OBVIOUS
  <1>3. ASSUME NEW g PROVE MatchingFrom(P, g) = {t}
    BY DEF MatchingFrom
  <1>4. ASSUME NEW g, NEW i \in 0..(P - 1)
        PROVE  MatchingFrom(i, g) = {j \in 0..t : Continues(i, j, g)}
    BY MatchingAt
  <1>5. \A i \in S : i = P \/ i \in 0..(P - 1)
    BY <1>2
  <1>6. ASSUME NEW g, NEW i \in S PROVE MatchingFrom(i, g) \in V
    <2>1. CASE i = P
      BY <1>2, <1>3, <2>1
    <2>2. CASE i \in 0..(P - 1)
      BY <1>4, <2>2
    <2> QED
      BY <1>5, <2>1, <2>2
  <1>7. ASSUME NEW g \in F, NEW h \in F, NEW i \in S, \A k \in S : mu[k] < mu[i] => g[k] = h[k]
        PROVE  MatchingFrom(i, g) = MatchingFrom(i, h)
    <2>1. CASE i = P
      BY <1>3, <2>1
    <2>2. CASE i \in 0..(P - 1)
      <3>1. ASSUME NEW n \in Nat, i < n, n <= P PROVE g[n] = h[n]
        <4>1. n \in S /\ mu[n] < mu[i]
          BY <1>2, <2>2, <3>1
        <4> HIDE DEF mu, S
        <4> QED
          BY <1>7, <4>1
      <3>2. /\ NextToken(i) \in Nat /\ i < NextToken(i) /\ NextToken(i) <= P
            /\ PatternHas(i + 2, Slash) => i + 3 <= P
        BY <2>2, NextTokenIs
      <3>3. i + 3 \in Nat /\ i < i + 3
        BY <2>2
      <3>4. g[NextToken(i)] = h[NextToken(i)] /\ (PatternHas(i + 2, Slash) => g[i + 3] = h[i + 3])
        BY <3>1, <3>2, <3>3
      <3>5. \A j : Continues(i, j, g) <=> Continues(i, j, h)
        BY <3>4 DEF Continues
      <3> QED
        BY <1>4, <2>2, <3>5
    <2> QED
      BY <1>5, <2>1, <2>2
  <1>8. mu \in [S -> 0..P]
    BY <1>2
  <1> HIDE DEF P, V, none, Made, mu
  <1>9. \A g \in F : B[g] = [i \in S |-> MatchingFrom(i, g)] /\ B[g] \in F
    BY <1>6
  <1>10. B \in [F -> F]
    BY <1>9
  <1>11. \A g, h \in F : \A i \in S : (\A k \in S : mu[k] < mu[i] => g[k] = h[k]) => B[g][i] = B[h][i]
    BY <1>7, <1>9
  <1> HIDE DEF B, S
  <1>12. Contracts(B, S, V, mu, P)
    BY <1>8, <1>10, <1>11 DEF Contracts
  <1>13. PICK f : FixedPoint(f, B, S, V)
    BY <1>2, <1>12, FixedBy
  <1>14. Made(f)
    BY <1>9, <1>13 DEF Made, S, FixedPoint
  <1>15. Made(m)
    BY <1>14
  <1> HIDE DEF m
  <1>16. \A i \in 0..P : m[i] = MatchingFrom(i, m)
    BY <1>15 DEF Made
  <1>17. m[P] = {t}
    BY <1>2, <1>3, <1>16
  <1>18. ASSUME NEW i \in 0..(P - 1) PROVE m[i] = {j \in 0..t : Continues(i, j, m)}
    <2>1. i \in 0..P
      BY <1>2
    <2> QED
      BY <1>4, <1>16, <2>1
  <1>19. MatchingOf(m)
    BY <1>17, <1>18 DEF MatchingOf, P, t
  <1> QED
    BY <1>1, <1>19

(* The rows of the language.                                               *)
EndsFrom(i, e) ==
  IF i = 0 THEN {0}
  ELSE (UNION {PieceEnds(p, e[p]) : p \in {q \in 0..(i - 1) : NextToken(q) = i}})
         \cup (UNION {e[p] : p \in {q \in 0..(i - 1) : /\ i = q + 3 /\ DoubleStar(q)
                                                          /\ PatternHas(q + 2, Slash)}})

EndsOf(e) ==
  \A i \in 0..Len(Pattern) : e[i] \in SUBSET (0..Len(Subject)) /\ e[i] = EndsFrom(i, e)

LEMMA EndsIs ==
  ASSUME Pattern \in Seq(Int), Subject \in Seq(Int)
  PROVE  \E e : EndsOf(e) /\ Ends = e[Len(Pattern)]
  <1> DEFINE P == Len(Pattern)
             t == Len(Subject)
             S == 0..P
             V == SUBSET (0..t)
             Made(g) == g = [i \in 0..P |-> EndsFrom(i, g)]
             e == CHOOSE g : Made(g)
             F == [S -> V]
             B == [g \in F |-> [i \in S |-> EndsFrom(i, g)]]
             mu == [i \in S |-> i]
             none == {}
  <1>1. Ends = e[P]
    BY DEF Ends, EndsFrom
  <1>2. P \in Nat /\ t \in Nat /\ none \in V /\ 0 \in 0..t
    OBVIOUS
  <1>3. \A i \in S : i \in Nat /\ \A q \in 0..(i - 1) : q \in S /\ q < i
    BY <1>2
  <1>4. ASSUME NEW g, NEW i \in S, \A q \in 0..(i - 1) : g[q] \in V PROVE EndsFrom(i, g) \in V
    <2>1. CASE i = 0
      BY <1>2, <2>1 DEF EndsFrom
    <2>2. CASE i # 0
      <3> DEFINE Q1 == {q \in 0..(i - 1) : NextToken(q) = i}
                 Q2 == {q \in 0..(i - 1) : i = q + 3 /\ DoubleStar(q) /\ PatternHas(q + 2, Slash)}
      <3>1. EndsFrom(i, g) = (UNION {PieceEnds(p, g[p]) : p \in Q1}) \cup (UNION {g[p] : p \in Q2})
        BY <2>2 DEF EndsFrom
      <3>2. \A p \in Q1 : PieceEnds(p, g[p]) \subseteq 0..t
        BY DEF PieceEnds
      <3>3. \A p \in Q2 : g[p] \subseteq 0..t
        BY <1>4
      <3> HIDE DEF Q1, Q2, t
      <3>4. \A j \in EndsFrom(i, g) : j \in 0..t
        BY <3>1, <3>2, <3>3
      <3> QED
        BY <3>4
    <2> QED
      BY <2>1, <2>2
  <1>5. ASSUME NEW g, NEW h, NEW i \in S, \A q \in 0..(i - 1) : g[q] = h[q]
        PROVE  EndsFrom(i, g) = EndsFrom(i, h)
    <2> DEFINE Q1 == {q \in 0..(i - 1) : NextToken(q) = i}
               Q2 == {q \in 0..(i - 1) : i = q + 3 /\ DoubleStar(q) /\ PatternHas(q + 2, Slash)}
    <2>1. \A p \in Q1 : PieceEnds(p, g[p]) = PieceEnds(p, h[p])
      BY <1>5
    <2>2. \A p \in Q2 : g[p] = h[p]
      BY <1>5
    <2>3. EndsFrom(i, g) = IF i = 0 THEN {0} ELSE (UNION {PieceEnds(p, g[p]) : p \in Q1}) \cup (UNION {g[p] : p \in Q2})
      BY DEF EndsFrom
    <2>4. EndsFrom(i, h) = IF i = 0 THEN {0} ELSE (UNION {PieceEnds(p, h[p]) : p \in Q1}) \cup (UNION {h[p] : p \in Q2})
      BY DEF EndsFrom
    <2> HIDE DEF Q1, Q2
    <2>5. {PieceEnds(p, g[p]) : p \in Q1} = {PieceEnds(p, h[p]) : p \in Q1} /\ {g[p] : p \in Q2} = {h[p] : p \in Q2}
      BY <2>1, <2>2
    <2> QED
      BY <2>3, <2>4, <2>5
  <1> HIDE DEF Made, none, t, V
  <1>6. \A g \in F : B[g] = [i \in S |-> EndsFrom(i, g)] /\ B[g] \in F
    <2>1. ASSUME NEW g \in F, NEW i \in S PROVE EndsFrom(i, g) \in V
      <3>1. \A q \in 0..(i - 1) : g[q] \in V
        BY <1>3
      <3> QED
        BY <1>4, <3>1
    <2> HIDE DEF S
    <2> QED
      BY <2>1
  <1>7. \A g, h \in F : \A i \in S : (\A k \in S : mu[k] < mu[i] => g[k] = h[k]) => B[g][i] = B[h][i]
    <2>1. ASSUME NEW g \in F, NEW h \in F, NEW i \in S, \A k \in S : mu[k] < mu[i] => g[k] = h[k]
          PROVE  B[g][i] = B[h][i]
      <3>1. \A k \in S : mu[k] = k
        OBVIOUS
      <3>2. \A q \in 0..(i - 1) : g[q] = h[q]
        BY <1>3, <2>1, <3>1
      <3> QED
        BY <1>5, <1>6, <3>2
    <2> QED
      BY <2>1
  <1>8. mu \in [S -> 0..P]
    BY <1>2
  <1>9. B \in [F -> F]
    BY <1>6
  <1> HIDE DEF P, mu, B, S
  <1>10. Contracts(B, S, V, mu, P)
    BY <1>7, <1>8, <1>9 DEF Contracts
  <1>11. PICK f : FixedPoint(f, B, S, V)
    BY <1>2, <1>10, FixedBy
  <1>12. Made(f)
    BY <1>6, <1>11 DEF Made, S, FixedPoint
  <1>13. Made(e)
    BY <1>12
  <1> HIDE DEF e
  <1>14. \A i \in S : e[i] = EndsFrom(i, e)
    BY <1>13 DEF Made, S
  <1> DEFINE R == {i \in S : e[i] \notin V}
  <1>15. ASSUME R # {} PROVE FALSE
    <2>1. PICK i \in R : \A k \in R : i <= k
      <3>1. R \in SUBSET Nat
        BY <1>3
      <3> HIDE DEF R
      <3> QED
        BY <1>15, <3>1, LeastNat
    <2>2. i \in S /\ i \in Nat /\ e[i] \notin V
      BY <1>3
    <2>3. \A q \in 0..(i - 1) : e[q] \in V
      <3>1. \A q \in 0..(i - 1) : q \in S /\ ~(i <= q)
        BY <1>3, <2>2
      <3> QED
        BY <2>1, <3>1
    <2> QED
      BY <1>4, <1>14, <2>2, <2>3
  <1>16. \A i \in S : e[i] \in V /\ e[i] = EndsFrom(i, e)
    BY <1>14, <1>15
  <1>17. EndsOf(e)
    BY <1>16 DEF EndsOf, S, V, P, t
  <1> QED
    BY <1>1, <1>17 DEF P

(* A text is matched if and only if it is in the language of the pattern.  *)
LEMMA MatchesLanguage ==
  ASSUME Pattern \in Seq(Int), Subject \in Seq(Int)
  PROVE  GlobMatches <=> Len(Subject) \in Ends
  <1> DEFINE P == Len(Pattern)
             t == Len(Subject)
  <1>1. PICK m : MatchingOf(m) /\ (GlobMatches <=> 0 \in m[0])
    BY MatchingIs
  <1>2. PICK e : EndsOf(e) /\ Ends = e[P]
    BY EndsIs
  <1>3. P \in Nat /\ t \in Nat
    OBVIOUS
  <1>4. m[P] = {t} /\ \A i \in 0..(P - 1) : m[i] = {j \in 0..t : Continues(i, j, m)}
    BY <1>1 DEF MatchingOf
  <1>5. \A i \in 0..P : e[i] \in SUBSET (0..t) /\ e[i] = EndsFrom(i, e)
    BY <1>2 DEF EndsOf
  <1>6. ASSUME NEW i \in 0..(P - 1)
        PROVE  /\ NextToken(i) \in Nat /\ i < NextToken(i) /\ NextToken(i) <= P
               /\ PatternHas(i + 2, Slash) => i + 3 <= P
    BY NextTokenIs
  <1> DEFINE Meets == {i \in 0..P : \E j \in 0..t : j \in e[i] /\ j \in m[i]}
  <1> HIDE DEF P, t
  <1>7. ASSUME t \in e[P] PROVE 0 \in m[0]
    <2>1. P \in Meets
      BY <1>3, <1>4, <1>7
    <2>2. PICK i \in Meets : \A k \in Meets : i <= k
      <3>1. Meets \in SUBSET Nat
        BY <1>3
      <3> HIDE DEF Meets
      <3> QED
        BY <2>1, <3>1, LeastNat
    <2>3. PICK j \in 0..t : j \in e[i] /\ j \in m[i]
      OBVIOUS
    <2>4. i \in 0..P /\ i \in Nat
      BY <1>3
    <2>5. ASSUME NEW p \in 0..(i - 1), p \in Meets PROVE FALSE
      <3>1. ~(i <= p)
        BY <2>4
      <3> QED
        BY <2>2, <2>5, <3>1
    <2>6. CASE i = 0
      <3>1. e[0] = {0}
        BY <1>5, <2>4, <2>6 DEF EndsFrom
      <3> QED
        BY <2>3, <2>6, <3>1
    <2>7. CASE i # 0
      <3> DEFINE Q1 == {q \in 0..(i - 1) : NextToken(q) = i}
                 Q2 == {q \in 0..(i - 1) : i = q + 3 /\ DoubleStar(q) /\ PatternHas(q + 2, Slash)}
      <3>1. j \in (UNION {PieceEnds(p, e[p]) : p \in Q1}) \cup (UNION {e[p] : p \in Q2})
        BY <1>5, <2>3, <2>4, <2>7 DEF EndsFrom
      <3>2. \A q \in 0..(i - 1) : q \in 0..(P - 1) /\ q \in 0..P
        BY <1>3, <2>4
      <3>3. CASE \E p \in Q1 : j \in PieceEnds(p, e[p])
        <4>1. PICK p \in Q1 : j \in PieceEnds(p, e[p])
          BY <3>3
        <4>2. PICK n \in e[p] : StandsFor(p, n, j)
          BY <4>1 DEF PieceEnds
        <4>3. p \in 0..(i - 1) /\ NextToken(p) = i /\ p \in 0..(P - 1) /\ p \in 0..P
          BY <3>2
        <4>4. n \in 0..t
          BY <1>5, <4>2, <4>3
        <4>5. Continues(p, n, m)
          BY <2>3, <4>2, <4>3 DEF Continues, t
        <4>6. n \in m[p]
          BY <1>4, <4>3, <4>4, <4>5
        <4> QED
          BY <2>5, <4>2, <4>3, <4>4, <4>6
      <3>4. CASE \E p \in Q2 : j \in e[p]
        <4>1. PICK p \in Q2 : j \in e[p]
          BY <3>4
        <4>2. /\ p \in 0..(i - 1) /\ i = p + 3 /\ DoubleStar(p) /\ PatternHas(p + 2, Slash)
              /\ p \in 0..(P - 1) /\ p \in 0..P
          BY <3>2
        <4>3. Continues(p, j, m)
          BY <2>3, <4>2 DEF Continues
        <4>4. j \in m[p]
          BY <1>4, <4>2, <4>3
        <4> QED
          BY <2>5, <4>1, <4>2, <4>4
      <3>5. (\E p \in Q1 : j \in PieceEnds(p, e[p])) \/ (\E p \in Q2 : j \in e[p])
        <4> HIDE DEF Q1, Q2
        <4> QED
          BY ONLY <3>1
      <3> QED
        BY <3>3, <3>4, <3>5
    <2> QED
      BY <2>6, <2>7
  <1>8. ASSUME 0 \in m[0] PROVE t \in e[P]
    <2>1. 0 \in Meets
      <3>1. 0 \in 0..P /\ 0 \in 0..t
        BY <1>3
      <3>2. e[0] = {0}
        BY <1>5, <3>1 DEF EndsFrom
      <3> QED
        BY <1>8, <3>1, <3>2
    <2> DEFINE FromEnd == {n \in 0..P : P - n \in Meets}
    <2>2. PICK r \in FromEnd : \A k \in FromEnd : r <= k
      <3>1. FromEnd \in SUBSET Nat
        BY <1>3
      <3>2. P \in FromEnd
        BY <1>3, <2>1
      <3> HIDE DEF FromEnd
      <3> QED
        BY <3>1, <3>2, LeastNat
    <2> DEFINE i == P - r
    <2>3. i \in Meets /\ i \in 0..P
      BY <1>3, <2>2
    <2>4. ASSUME NEW n \in 0..P, n \in Meets, i < n PROVE FALSE
      <3>1. P - n \in 0..P /\ P - (P - n) = n
        BY <1>3
      <3>2. P - n \in FromEnd
        BY <2>4, <3>1
      <3>3. ~(r <= P - n)
        BY <1>3, <2>2, <2>4
      <3> QED
        BY <2>2, <3>2, <3>3
    <2> HIDE DEF i, FromEnd
    <2>5. PICK j \in 0..t : j \in e[i] /\ j \in m[i]
      BY <2>3
    <2>6. CASE i = P
      BY <1>4, <2>5, <2>6
    <2>7. CASE i # P
      <3>1. i \in 0..(P - 1) /\ i \in Nat
        BY <1>3, <2>3, <2>7
      <3>2. Continues(i, j, m)
        BY <1>4, <2>5, <3>1
      <3>3. CASE \E k \in 0..t : StandsFor(i, j, k) /\ k \in m[NextToken(i)]
        <4>1. PICK k \in 0..t : StandsFor(i, j, k) /\ k \in m[NextToken(i)]
          BY <3>3
        <4> DEFINE n == NextToken(i)
        <4>2. n \in Nat /\ i < n /\ n <= P
          BY <1>6, <3>1
        <4>3. n \in 0..P /\ n # 0 /\ i \in 0..(n - 1)
          BY <1>3, <3>1, <4>2
        <4>4. i \in {q \in 0..(n - 1) : NextToken(q) = n}
          BY <4>3
        <4>5. k \in PieceEnds(i, e[i])
          BY <2>5, <4>1 DEF PieceEnds, t
        <4> HIDE DEF n
        <4>6. k \in EndsFrom(n, e)
          BY <4>3, <4>4, <4>5 DEF EndsFrom
        <4>7. n \in Meets
          BY <1>5, <4>1, <4>3, <4>6 DEF n
        <4> QED
          BY <2>4, <4>2, <4>3, <4>7
      <3>4. CASE DoubleStar(i) /\ PatternHas(i + 2, Slash) /\ j \in m[i + 3]
        <4> DEFINE n == i + 3
        <4>1. n \in Nat /\ i < n /\ n <= P
          BY <1>6, <3>1, <3>4
        <4>2. n \in 0..P /\ n # 0 /\ i \in 0..(n - 1)
          BY <1>3, <3>1, <4>1
        <4> DEFINE Q2 == {q \in 0..(n - 1) : n = q + 3 /\ DoubleStar(q) /\ PatternHas(q + 2, Slash)}
                   some == UNION {e[p] : p \in Q2}
        <4>3. i \in Q2
          BY <3>4, <4>2
        <4> HIDE DEF n
        <4>4. j \in EndsFrom(n, e)
          <5>1. some \subseteq EndsFrom(n, e)
            BY <4>2 DEF EndsFrom
          <5> HIDE DEF Q2
          <5>2. j \in some
            BY <2>5, <4>3
          <5> QED
            BY <5>1, <5>2
        <4>5. n \in Meets
          BY <1>5, <3>4, <4>2, <4>4 DEF n
        <4> QED
          BY <2>4, <4>1, <4>2, <4>5
      <3> QED
        BY <3>2, <3>3, <3>4 DEF Continues, t
    <2> QED
      BY <2>6, <2>7
  <1> QED
    BY <1>1, <1>2, <1>7, <1>8 DEF t, P

LEMMA SameGlob ==
  ASSUME call' = call
  PROVE  Subject' = Subject /\ Ends' = Ends
  <1>1. Subject' = Subject /\ Pattern' = Pattern /\ GlobOptions' = GlobOptions
    BY DEF Subject, Pattern, GlobOptions
  <1> QED
    BY <1>1 DEF Ends, PieceEnds, NextToken, StandsFor, DoubleStar, Escaped, ClassBegin, Closings,
                ClassEnd, ClassNames, PatternChar, SubjectChar, PatternHas, Same, Fold

(* The text was matched if and only if it is in the language.              *)
LEMMA GlobMatchKeeps ==
  ASSUME GlobCall(call), GlobMatch
  PROVE  GlobIsLanguage' /\ GlobCall(call')
  <1>1. call.op \in Globs /\ call' = call /\ output' = GlobMatches
    BY DEF GlobMatch, Pending, Return
  <1>2. Pattern \in Seq(Int) /\ Subject \in Seq(Int)
    BY <1>1 DEF GlobCall, Pattern, Subject
  <1>3. GlobMatches \in BOOLEAN
    BY DEF GlobMatches
  <1>4. output' = (Len(Subject) \in Ends)
    BY <1>1, <1>2, <1>3, MatchesLanguage
  <1> QED
    BY <1>1, <1>4, SameGlob DEF GlobIsLanguage

-----------------------------------------------------------------------------
(* Checksums.  Polynomials over two elements: finite sets of exponents.    *)
Poly == {a \in SUBSET Nat : \E m \in Nat : a \subseteq 0..m}

Odd(S) == Cardinality(S) % 2 = 1

Mul(a, b) == {e \in Nat : Odd({i \in a : e - i \in b})}

LEMMA InDiff ==
  ASSUME NEW a, NEW b
  PROVE  \A e : e \in SymDiff(a, b) <=> ~(e \in a <=> e \in b)
  BY DEF SymDiff

LEMMA DiffNone ==
  ASSUME NEW a
  PROVE  SymDiff(a, {}) = a /\ SymDiff({}, a) = a /\ SymDiff(a, a) = {}
  BY DEF SymDiff

LEMMA DiffComm ==
  ASSUME NEW a, NEW b
  PROVE  SymDiff(a, b) = SymDiff(b, a)
  BY DEF SymDiff

LEMMA DiffAssoc ==
  ASSUME NEW a, NEW b, NEW c
  PROVE  SymDiff(SymDiff(a, b), c) = SymDiff(a, SymDiff(b, c))
  <1>1. \A e : e \in SymDiff(SymDiff(a, b), c) <=> e \in SymDiff(a, SymDiff(b, c))
    BY InDiff
  <1> QED
    BY <1>1

LEMMA DiffSwap ==
  ASSUME NEW a, NEW b, NEW c
  PROVE  SymDiff(SymDiff(a, b), c) = SymDiff(SymDiff(a, c), b)
  <1>1. \A e : e \in SymDiff(SymDiff(a, b), c) <=> e \in SymDiff(SymDiff(a, c), b)
    BY InDiff
  <1> QED
    BY <1>1

LEMMA DiffFour ==
  ASSUME NEW a, NEW b, NEW c, NEW d
  PROVE  SymDiff(SymDiff(a, b), SymDiff(c, d)) = SymDiff(SymDiff(a, c), SymDiff(b, d))
  <1>1. \A e : e \in SymDiff(SymDiff(a, b), SymDiff(c, d)) <=> e \in SymDiff(SymDiff(a, c), SymDiff(b, d))
    BY InDiff
  <1> QED
    BY <1>1

LEMMA DiffMiddle ==
  ASSUME NEW a, NEW b, NEW c
  PROVE  SymDiff(SymDiff(a, b), SymDiff(b, c)) = SymDiff(a, c)
  <1>1. \A e : e \in SymDiff(SymDiff(a, b), SymDiff(b, c)) <=> e \in SymDiff(a, c)
    BY InDiff
  <1> QED
    BY <1>1

LEMMA PolySimple ==
  /\ {} \in Poly
  /\ \A n \in Nat : {n} \in Poly
  /\ \A n \in Nat : \A a \in SUBSET (0..n) : a \in Poly
  <1>1. {} \subseteq 0..0 /\ \A n \in Nat : {n} \subseteq 0..n
    OBVIOUS
  <1> QED
    BY <1>1 DEF Poly

LEMMA PolyIsSet ==
  ASSUME NEW a \in Poly
  PROVE  a \in SUBSET Nat /\ IsFiniteSet(a)
  <1>1. PICK m \in Nat : a \subseteq 0..m
    BY DEF Poly
  <1>2. IsFiniteSet(0..m)
    BY FS_Interval
  <1> QED
    BY <1>1, <1>2, FS_Subset DEF Poly

LEMMA PolyDiff ==
  ASSUME NEW a \in Poly, NEW b \in Poly
  PROVE  SymDiff(a, b) \in Poly
  <1>1. PICK m \in Nat : a \subseteq 0..m
    BY DEF Poly
  <1>2. PICK n \in Nat : b \subseteq 0..n
    BY DEF Poly
  <1>3. m + n \in Nat /\ \A e : e \in 0..m \/ e \in 0..n => e \in 0..(m + n)
    OBVIOUS
  <1>4. SymDiff(a, b) \subseteq 0..(m + n)
    BY <1>1, <1>2, <1>3, InDiff
  <1> QED
    BY <1>3, <1>4, PolySimple

LEMMA DiffInside ==
  ASSUME NEW S, NEW a \in SUBSET S, NEW b \in SUBSET S
  PROVE  SymDiff(a, b) \in SUBSET S
  BY DEF SymDiff

LEMMA DiffOfExponents ==
  ASSUME NEW a, NEW b, a \subseteq Nat, b \subseteq Nat
  PROVE  SymDiff(a, b) \in SUBSET Nat
  BY DEF SymDiff

LEMMA LowBitsGrow ==
  ASSUME NEW a \in SUBSET Nat, NEW k \in Nat
  PROVE  /\ LowBits(a, 0) = {}
         /\ LowBits(a, k) \subseteq 0..k
         /\ k \notin LowBits(a, k)
         /\ k \in a => LowBits(a, k + 1) = SymDiff(LowBits(a, k), {k})
         /\ k \notin a => LowBits(a, k + 1) = LowBits(a, k)
         /\ a \subseteq 0..k => LowBits(a, k + 1) = a
  <1>1. \A n \in Nat : \A e : e \in LowBits(a, n) <=> e \in a /\ e < n
    BY DEF LowBits
  <1>2. LowBits(a, 0) = {}
    <2>1. \A e \in Nat : ~(e < 0)
      OBVIOUS
    <2>2. \A e : e \notin LowBits(a, 0)
      BY <1>1, <2>1
    <2> QED
      BY <2>2
  <1>3. LowBits(a, k) \subseteq 0..k /\ k \notin LowBits(a, k)
    <2>1. ~(k < k) /\ \A e \in Nat : e < k => e \in 0..k
      OBVIOUS
    <2>2. \A e \in LowBits(a, k) : e \in Nat /\ e < k
      BY <1>1
    <2> QED
      BY <2>1, <2>2
  <1>4. \A e \in Nat : e < k + 1 <=> e < k \/ e = k
    OBVIOUS
  <1>5. k + 1 \in Nat /\ ~(k < k)
    OBVIOUS
  <1>6. \A e : e \in LowBits(a, k + 1) <=> e \in LowBits(a, k) \/ (e = k /\ k \in a)
    <2> SUFFICES ASSUME NEW e
                 PROVE  e \in LowBits(a, k + 1) <=> e \in LowBits(a, k) \/ (e = k /\ k \in a)
      OBVIOUS
    <2>1. e \in LowBits(a, k + 1) <=> e \in a /\ e < k + 1
      BY <1>1, <1>5
    <2>2. e \in LowBits(a, k) <=> e \in a /\ e < k
      BY <1>1
    <2>3. e \in a => e \in Nat
      OBVIOUS
    <2> QED
      BY <1>4, <2>1, <2>2, <2>3
  <1>7. ASSUME k \in a PROVE LowBits(a, k + 1) = SymDiff(LowBits(a, k), {k})
    <2>1. \A e : e \in LowBits(a, k + 1) <=> e \in SymDiff(LowBits(a, k), {k})
      BY <1>3, <1>6, <1>7, InDiff
    <2> QED
      BY <2>1
  <1>8. ASSUME k \notin a PROVE LowBits(a, k + 1) = LowBits(a, k)
    <2>1. \A e : e \in LowBits(a, k + 1) <=> e \in LowBits(a, k)
      BY <1>6, <1>8
    <2> QED
      BY <2>1
  <1>9. ASSUME a \subseteq 0..k PROVE LowBits(a, k + 1) = a
    <2>1. \A e \in a : e < k + 1
      BY <1>9
    <2>2. \A e : e \in LowBits(a, k + 1) <=> e \in a
      BY <1>1, <1>5, <2>1
    <2> QED
      BY <2>2
  <1> QED
    BY <1>2, <1>3, <1>7, <1>8, <1>9

(* What holds of no term, and goes on to hold with one more, holds of all. *)
LEMMA PolyInduction ==
  ASSUME NEW J, {} \in J,
         \A a \in Poly, n \in Nat : a \in J => SymDiff(a, {n}) \in J
  PROVE  \A a \in Poly : a \in J
  <1> SUFFICES ASSUME NEW a \in Poly PROVE a \in J
    OBVIOUS
  <1>1. PICK m \in Nat : a \subseteq 0..m
    BY DEF Poly
  <1> DEFINE T == {k \in Nat : LowBits(a, k) \in J}
  <1>2. a \in SUBSET Nat
    BY PolyIsSet
  <1>3. 0 \in T
    <2>1. LowBits(a, 0) = {}
      BY <1>2, LowBitsGrow
    <2> QED
      BY <2>1
  <1>4. ASSUME NEW k \in 1..(m + 1), k - 1 \in T PROVE k \in T
    <2> DEFINE l == k - 1
               low == LowBits(a, l)
    <2>1. l \in Nat /\ k \in Nat /\ l + 1 = k /\ low \in J
      BY <1>4
    <2> HIDE DEF l
    <2>2. low \subseteq 0..l
      BY <1>2, <2>1, LowBitsGrow
    <2>3. low \in Poly
      <3> HIDE DEF low
      <3> QED
        BY <2>1, <2>2, PolySimple
    <2>4. /\ l \in a => LowBits(a, l + 1) = SymDiff(low, {l})
          /\ l \notin a => LowBits(a, l + 1) = low
      BY <1>2, <2>1, LowBitsGrow
    <2> HIDE DEF low
    <2>5. SymDiff(low, {l}) \in J
      BY <2>1, <2>3
    <2>6. LowBits(a, l + 1) \in J
      BY <2>1, <2>4, <2>5
    <2> QED
      BY <2>1, <2>6
  <1>5. m + 1 \in Nat /\ m + 1 \in 0..(m + 1)
    OBVIOUS
  <1> HIDE DEF T
  <1>6. m + 1 \in T
    BY <1>3, <1>4, <1>5, Upwards
  <1>7. LowBits(a, m + 1) = a
    BY <1>1, <1>2, LowBitsGrow
  <1> QED
    BY <1>6, <1>7 DEF T

-----------------------------------------------------------------------------
LEMMA InShift ==
  ASSUME NEW a \in SUBSET Nat, NEW n \in Nat
  PROVE  /\ Shift(a, n) \in SUBSET Nat
         /\ \A e \in Nat : e \in Shift(a, n) <=> e - n \in a
         /\ \A e \in Nat : e + n \in Shift(a, n) <=> e \in a
  BY DEF Shift

LEMMA ShiftPoly ==
  ASSUME NEW a \in Poly, NEW n \in Nat
  PROVE  Shift(a, n) \in Poly
  <1>1. PICK m \in Nat : a \subseteq 0..m
    BY DEF Poly
  <1>2. Shift(a, n) \subseteq 0..(m + n) /\ m + n \in Nat
    BY <1>1 DEF Shift
  <1> QED
    BY <1>2, PolySimple

LEMMA ShiftDiff ==
  ASSUME NEW a \in SUBSET Nat, NEW b \in SUBSET Nat, NEW n \in Nat
  PROVE  Shift(SymDiff(a, b), n) = SymDiff(Shift(a, n), Shift(b, n))
  <1>1. SymDiff(a, b) \in SUBSET Nat
    BY InDiff
  <1>2. \A e \in Nat : e \in Shift(SymDiff(a, b), n) <=> e \in SymDiff(Shift(a, n), Shift(b, n))
    <2> SUFFICES ASSUME NEW e \in Nat
                 PROVE  e \in Shift(SymDiff(a, b), n) <=> e \in SymDiff(Shift(a, n), Shift(b, n))
      OBVIOUS
    <2>1. e \in Shift(SymDiff(a, b), n) <=> e - n \in SymDiff(a, b)
      <3> DEFINE c == SymDiff(a, b)
      <3>1. c \in SUBSET Nat
        BY <1>1
      <3> HIDE DEF c
      <3>2. e \in Shift(c, n) <=> e - n \in c
        BY <3>1, InShift
      <3> QED
        BY <3>2 DEF c
    <2>2. e \in Shift(a, n) <=> e - n \in a
      BY InShift
    <2>3. e \in Shift(b, n) <=> e - n \in b
      BY InShift
    <2> QED
      BY <2>1, <2>2, <2>3, InDiff
  <1>3. Shift(SymDiff(a, b), n) \in SUBSET Nat
    BY <1>1, InShift
  <1>4. SymDiff(Shift(a, n), Shift(b, n)) \in SUBSET Nat
    <2>1. Shift(a, n) \in SUBSET Nat
      BY InShift
    <2>2. Shift(b, n) \in SUBSET Nat
      BY InShift
    <2> QED
      BY <2>1, <2>2, DiffOfExponents
  <1> QED
    BY <1>2, <1>3, <1>4

LEMMA ShiftSum ==
  ASSUME NEW a \in SUBSET Nat, NEW n \in Nat, NEW m \in Nat
  PROVE  Shift(Shift(a, n), m) = Shift(a, n + m)
  <1>1. \A e \in a : (e + n) + m = e + (n + m)
    OBVIOUS
  <1>2. \A x : x \in Shift(Shift(a, n), m) <=> x \in Shift(a, n + m)
    <2> SUFFICES ASSUME NEW x PROVE x \in Shift(Shift(a, n), m) <=> x \in Shift(a, n + m)
      OBVIOUS
    <2>1. ASSUME x \in Shift(Shift(a, n), m) PROVE x \in Shift(a, n + m)
      <3>1. PICK y \in Shift(a, n) : x = y + m
        BY <2>1 DEF Shift
      <3>2. PICK e \in a : y = e + n
        BY <3>1 DEF Shift
      <3>3. x = e + (n + m)
        BY <1>1, <3>1, <3>2
      <3> QED
        BY <3>3 DEF Shift
    <2>2. ASSUME x \in Shift(a, n + m) PROVE x \in Shift(Shift(a, n), m)
      <3>1. PICK e \in a : x = e + (n + m)
        BY <2>2 DEF Shift
      <3>2. x = (e + n) + m /\ e + n \in Shift(a, n)
        BY <1>1, <3>1 DEF Shift
      <3> QED
        BY <3>2 DEF Shift
    <2> QED
      BY <2>1, <2>2
  <1> QED
    BY <1>2

LEMMA ShiftSimple ==
  /\ \A n \in Nat : Shift({}, n) = {}
  /\ \A n \in Nat, m \in Nat : Shift({n}, m) = {n + m}
  /\ \A a \in SUBSET Nat : Shift(a, 0) = a
  <1>1. ASSUME NEW a \in SUBSET Nat PROVE Shift(a, 0) = a
    <2>1. \A e \in Nat : e - 0 = e
      OBVIOUS
    <2>2. \A e \in Nat : e \in Shift(a, 0) <=> e \in a
      BY <2>1, InShift
    <2>3. Shift(a, 0) \in SUBSET Nat
      BY InShift
    <2> QED
      BY <2>2, <2>3
  <1> QED
    BY <1>1 DEF Shift

-----------------------------------------------------------------------------
LEMMA ParityFlips ==
  ASSUME NEW c \in Int
  PROVE  (c + 1) % 2 = 1 <=> ~(c % 2 = 1)
  OBVIOUS

LEMMA OddToggles ==
  ASSUME NEW S, NEW x, IsFiniteSet(S)
  PROVE  Odd(SymDiff(S, {x})) <=> ~Odd(S)
  <1>0. Cardinality(S) \in Nat
    BY FS_CardinalityType
  <1>1. CASE x \in S
    <2>1. SymDiff(S, {x}) = S \ {x}
      BY <1>1 DEF SymDiff
    <2>2. Cardinality(S \ {x}) = Cardinality(S) - 1
      BY <1>1, FS_RemoveElement
    <2>3. Cardinality(S) - 1 \in Int /\ (Cardinality(S) - 1) + 1 = Cardinality(S)
      BY <1>0
    <2>4. Cardinality(S) % 2 = 1 <=> ~((Cardinality(S) - 1) % 2 = 1)
      BY <2>3, ParityFlips
    <2> QED
      BY <2>1, <2>2, <2>4 DEF Odd
  <1>2. CASE x \notin S
    <2>1. SymDiff(S, {x}) = S \cup {x}
      BY <1>2 DEF SymDiff
    <2>2. Cardinality(S \cup {x}) = Cardinality(S) + 1
      BY <1>2, FS_AddElement
    <2>4. (Cardinality(S) + 1) % 2 = 1 <=> ~(Cardinality(S) % 2 = 1)
      BY <1>0, ParityFlips
    <2> QED
      BY <2>1, <2>2, <2>4 DEF Odd
  <1> QED
    BY <1>1, <1>2

LEMMA MulNone ==
  ASSUME NEW b
  PROVE  Mul({}, b) = {}
  <1>1. \A e : {i \in {} : e - i \in b} = {}
    OBVIOUS
  <1>2. ~Odd({})
    BY FS_EmptySet DEF Odd
  <1> QED
    BY <1>1, <1>2 DEF Mul

LEMMA MulIsSet ==
  ASSUME NEW a, NEW b
  PROVE  Mul(a, b) \in SUBSET Nat
  BY DEF Mul

(* One more term adds the other factor, moved by its exponent.             *)
LEMMA MulTerm ==
  ASSUME NEW a \in Poly, NEW n \in Nat, NEW b \in SUBSET Nat
  PROVE  Mul(SymDiff(a, {n}), b) = SymDiff(Mul(a, b), Shift(b, n))
  <1>1. ASSUME NEW e \in Nat
        PROVE e \in Mul(SymDiff(a, {n}), b) <=> e \in SymDiff(Mul(a, b), Shift(b, n))
    <2> DEFINE S == {i \in a : e - i \in b}
               R == {i \in SymDiff(a, {n}) : e - i \in b}
    <2>1. IsFiniteSet(S)
      BY PolyIsSet, FS_Subset
    <2>2. e \in Mul(SymDiff(a, {n}), b) <=> Odd(R)
      BY DEF Mul
    <2>3. e \in Mul(a, b) <=> Odd(S)
      BY DEF Mul
    <2>4. e \in Shift(b, n) <=> e - n \in b
      BY InShift
    <2>5. e \in SymDiff(Mul(a, b), Shift(b, n)) <=> ~(e \in Mul(a, b) <=> e \in Shift(b, n))
      BY InDiff
    <2>6. ASSUME e - n \in b PROVE R = SymDiff(S, {n})
      <3>1. \A i : i \in R <=> i \in SymDiff(S, {n})
        BY <2>6, InDiff
      <3> HIDE DEF R, S
      <3> QED
        BY <3>1
    <2>7. ASSUME e - n \notin b PROVE R = S
      <3>1. \A i : i \in R <=> i \in S
        BY <2>7, InDiff
      <3> HIDE DEF R, S
      <3> QED
        BY <3>1
    <2> HIDE DEF R, S
    <2>8. Odd(SymDiff(S, {n})) <=> ~Odd(S)
      BY <2>1, OddToggles
    <2> QED
      BY <2>2, <2>3, <2>4, <2>5, <2>6, <2>7, <2>8
  <1>2. SymDiff(Mul(a, b), Shift(b, n)) \in SUBSET Nat
    <2>1. Shift(b, n) \in SUBSET Nat
      BY InShift
    <2>2. Mul(a, b) \in SUBSET Nat
      BY MulIsSet
    <2> QED
      BY <2>1, <2>2, DiffOfExponents
  <1>3. Mul(SymDiff(a, {n}), b) \in SUBSET Nat
    BY MulIsSet
  <1> QED
    BY <1>1, <1>2, <1>3

LEMMA MulPoly ==
  ASSUME NEW b \in Poly
  PROVE  \A a \in Poly : Mul(a, b) \in Poly
  <1> DEFINE J == {a \in Poly : Mul(a, b) \in Poly}
  <1>1. {} \in J
    BY MulNone, PolySimple
  <1>2. ASSUME NEW a \in Poly, NEW n \in Nat, a \in J PROVE SymDiff(a, {n}) \in J
    <2>1. SymDiff(a, {n}) \in Poly
      BY PolySimple, PolyDiff
    <2>2. Mul(SymDiff(a, {n}), b) = SymDiff(Mul(a, b), Shift(b, n))
      BY MulTerm, PolyIsSet
    <2>3. SymDiff(Mul(a, b), Shift(b, n)) \in Poly
      BY <1>2, ShiftPoly, PolyDiff
    <2> QED
      BY <2>1, <2>2, <2>3
  <1> HIDE DEF J
  <1>3. \A a \in Poly : a \in J
    BY <1>1, <1>2, PolyInduction
  <1> QED
    BY <1>3 DEF J

LEMMA MulLeft ==
  ASSUME NEW a \in Poly, NEW c \in Poly
  PROVE  \A b \in Poly : Mul(SymDiff(a, b), c) = SymDiff(Mul(a, c), Mul(b, c))
  <1> DEFINE J == {b \in Poly : Mul(SymDiff(a, b), c) = SymDiff(Mul(a, c), Mul(b, c))}
  <1>1. {} \in J
    <2>1. SymDiff(a, {}) = a /\ Mul({}, c) = {} /\ SymDiff(Mul(a, c), {}) = Mul(a, c)
      BY MulNone, DiffNone
    <2> QED
      BY <2>1, PolySimple
  <1>2. ASSUME NEW b \in Poly, NEW n \in Nat, b \in J PROVE SymDiff(b, {n}) \in J
    <2>1. SymDiff(b, {n}) \in Poly /\ SymDiff(a, b) \in Poly /\ c \in SUBSET Nat
      BY PolySimple, PolyDiff, PolyIsSet
    <2>2. SymDiff(a, SymDiff(b, {n})) = SymDiff(SymDiff(a, b), {n})
      BY DiffAssoc
    <2>3. Mul(SymDiff(SymDiff(a, b), {n}), c) = SymDiff(Mul(SymDiff(a, b), c), Shift(c, n))
      BY <2>1, MulTerm
    <2>4. Mul(SymDiff(b, {n}), c) = SymDiff(Mul(b, c), Shift(c, n))
      BY <2>1, MulTerm
    <2>5. Mul(SymDiff(a, b), c) = SymDiff(Mul(a, c), Mul(b, c))
      BY <1>2
    <2>6. SymDiff(SymDiff(Mul(a, c), Mul(b, c)), Shift(c, n)) = SymDiff(Mul(a, c), SymDiff(Mul(b, c), Shift(c, n)))
      BY DiffAssoc
    <2> QED
      BY <2>1, <2>2, <2>3, <2>4, <2>5, <2>6
  <1> HIDE DEF J
  <1>3. \A b \in Poly : b \in J
    BY <1>1, <1>2, PolyInduction
  <1> QED
    BY <1>3 DEF J

LEMMA MulRight ==
  ASSUME NEW b \in Poly, NEW c \in Poly
  PROVE  \A a \in Poly : Mul(a, SymDiff(b, c)) = SymDiff(Mul(a, b), Mul(a, c))
  <1> DEFINE J == {a \in Poly : Mul(a, SymDiff(b, c)) = SymDiff(Mul(a, b), Mul(a, c))}
  <1>1. {} \in J
    BY MulNone, PolySimple, DiffNone
  <1>2. ASSUME NEW a \in Poly, NEW n \in Nat, a \in J PROVE SymDiff(a, {n}) \in J
    <2>1. /\ SymDiff(a, {n}) \in Poly
          /\ b \in SUBSET Nat /\ c \in SUBSET Nat /\ SymDiff(b, c) \in SUBSET Nat
      BY PolySimple, PolyDiff, PolyIsSet
    <2>2. Mul(SymDiff(a, {n}), SymDiff(b, c)) = SymDiff(Mul(a, SymDiff(b, c)), Shift(SymDiff(b, c), n))
      BY <2>1, MulTerm
    <2>3. Mul(SymDiff(a, {n}), b) = SymDiff(Mul(a, b), Shift(b, n))
      BY <2>1, MulTerm
    <2>4. Mul(SymDiff(a, {n}), c) = SymDiff(Mul(a, c), Shift(c, n))
      BY <2>1, MulTerm
    <2>5. Mul(a, SymDiff(b, c)) = SymDiff(Mul(a, b), Mul(a, c))
      BY <1>2
    <2>6. Shift(SymDiff(b, c), n) = SymDiff(Shift(b, n), Shift(c, n))
      BY <2>1, ShiftDiff
    <2>7. SymDiff(SymDiff(Mul(a, b), Mul(a, c)), SymDiff(Shift(b, n), Shift(c, n)))
            = SymDiff(SymDiff(Mul(a, b), Shift(b, n)), SymDiff(Mul(a, c), Shift(c, n)))
      BY DiffFour
    <2> QED
      BY <2>1, <2>2, <2>3, <2>4, <2>5, <2>6, <2>7
  <1> HIDE DEF J
  <1>3. \A a \in Poly : a \in J
    BY <1>1, <1>2, PolyInduction
  <1> QED
    BY <1>3 DEF J

LEMMA MulByPower ==
  ASSUME NEW n \in Nat
  PROVE  \A a \in Poly : Mul(a, {n}) = Shift(a, n) /\ Mul({n}, a) = Shift(a, n)
  <1> DEFINE J == {a \in Poly : Mul(a, {n}) = Shift(a, n)}
  <1>1. {} \in J
    BY MulNone, PolySimple, ShiftSimple
  <1>2. ASSUME NEW a \in Poly, NEW m \in Nat, a \in J PROVE SymDiff(a, {m}) \in J
    <2>1. SymDiff(a, {m}) \in Poly /\ a \in SUBSET Nat /\ {n} \in SUBSET Nat /\ {m} \in SUBSET Nat
      BY PolySimple, PolyDiff, PolyIsSet
    <2>2. Mul(SymDiff(a, {m}), {n}) = SymDiff(Mul(a, {n}), Shift({n}, m))
      BY <2>1, MulTerm
    <2>3. Shift({n}, m) = Shift({m}, n)
      <3>1. n + m = m + n
        OBVIOUS
      <3>2. Shift({n}, m) = {n + m}
        BY ShiftSimple
      <3>3. Shift({m}, n) = {m + n}
        BY ShiftSimple
      <3> QED
        BY <3>1, <3>2, <3>3
    <2>4. Shift(SymDiff(a, {m}), n) = SymDiff(Shift(a, n), Shift({m}, n))
      BY <2>1, ShiftDiff
    <2> QED
      BY <1>2, <2>1, <2>2, <2>3, <2>4
  <1> HIDE DEF J
  <1>3. \A a \in Poly : a \in J
    BY <1>1, <1>2, PolyInduction
  <1>4. ASSUME NEW a \in Poly PROVE Mul({n}, a) = Shift(a, n)
    <2>1. Mul(SymDiff({}, {n}), a) = SymDiff(Mul({}, a), Shift(a, n))
      BY MulTerm, PolySimple, PolyIsSet
    <2> QED
      BY <2>1, MulNone, DiffNone
  <1> QED
    BY <1>3, <1>4 DEF J

LEMMA MulShift ==
  ASSUME NEW b \in Poly, NEW n \in Nat
  PROVE  \A a \in Poly : Mul(Shift(a, n), b) = Shift(Mul(a, b), n)
  <1> DEFINE J == {a \in Poly : Mul(Shift(a, n), b) = Shift(Mul(a, b), n)}
  <1>1. {} \in J
    BY MulNone, PolySimple, ShiftSimple
  <1>2. ASSUME NEW a \in Poly, NEW m \in Nat, a \in J PROVE SymDiff(a, {m}) \in J
    <2>1. /\ SymDiff(a, {m}) \in Poly /\ Shift(a, n) \in Poly
          /\ a \in SUBSET Nat /\ {m} \in SUBSET Nat /\ b \in SUBSET Nat
          /\ Mul(a, b) \in SUBSET Nat /\ Shift(b, m) \in SUBSET Nat
      BY PolySimple, PolyDiff, PolyIsSet, ShiftPoly, MulIsSet
    <2>2. Shift(SymDiff(a, {m}), n) = SymDiff(Shift(a, n), {m + n})
      <3>1. Shift(SymDiff(a, {m}), n) = SymDiff(Shift(a, n), Shift({m}, n))
        BY <2>1, ShiftDiff
      <3>2. Shift({m}, n) = {m + n}
        BY ShiftSimple
      <3> QED
        BY <3>1, <3>2
    <2>3. m + n \in Nat
      OBVIOUS
    <2>4. Mul(SymDiff(Shift(a, n), {m + n}), b) = SymDiff(Mul(Shift(a, n), b), Shift(b, m + n))
      BY <2>1, <2>3, MulTerm
    <2>5. Shift(Mul(SymDiff(a, {m}), b), n) = SymDiff(Shift(Mul(a, b), n), Shift(Shift(b, m), n))
      BY <2>1, MulTerm, ShiftDiff
    <2>6. Shift(Shift(b, m), n) = Shift(b, m + n)
      BY <2>1, ShiftSum
    <2> QED
      BY <1>2, <2>1, <2>2, <2>4, <2>5, <2>6
  <1> HIDE DEF J
  <1>3. \A a \in Poly : a \in J
    BY <1>1, <1>2, PolyInduction
  <1> QED
    BY <1>3 DEF J

LEMMA MulAssoc ==
  ASSUME NEW b \in Poly, NEW c \in Poly
  PROVE  \A a \in Poly : Mul(Mul(a, b), c) = Mul(a, Mul(b, c))
  <1> DEFINE J == {a \in Poly : Mul(Mul(a, b), c) = Mul(a, Mul(b, c))}
  <1>1. {} \in J
    BY MulNone, PolySimple
  <1>2. ASSUME NEW a \in Poly, NEW m \in Nat, a \in J PROVE SymDiff(a, {m}) \in J
    <2>1. /\ SymDiff(a, {m}) \in Poly /\ Mul(a, b) \in Poly /\ Shift(b, m) \in Poly
          /\ b \in SUBSET Nat /\ Mul(b, c) \in SUBSET Nat
      BY PolySimple, PolyDiff, PolyIsSet, ShiftPoly, MulPoly
    <2>2. Mul(SymDiff(a, {m}), b) = SymDiff(Mul(a, b), Shift(b, m))
      BY <2>1, MulTerm
    <2>3. Mul(SymDiff(Mul(a, b), Shift(b, m)), c) = SymDiff(Mul(Mul(a, b), c), Mul(Shift(b, m), c))
      BY <2>1, MulLeft
    <2>4. Mul(Shift(b, m), c) = Shift(Mul(b, c), m)
      BY MulShift
    <2>5. Mul(SymDiff(a, {m}), Mul(b, c)) = SymDiff(Mul(a, Mul(b, c)), Shift(Mul(b, c), m))
      BY <2>1, MulTerm
    <2> QED
      BY <1>2, <2>1, <2>2, <2>3, <2>4, <2>5
  <1> HIDE DEF J
  <1>3. \A a \in Poly : a \in J
    BY <1>1, <1>2, PolyInduction
  <1> QED
    BY <1>3 DEF J

(* A square has the exponents doubled: the mixed products cancel.          *)
LEMMA MulSquare ==
  \A a \in Poly : Mul(a, a) = {2 * e : e \in a}
  <1> DEFINE Sq(a) == {2 * e : e \in a}
             J == {a \in Poly : Mul(a, a) = Sq(a)}
  <1>1. {} \in J
    BY MulNone, PolySimple
  <1>2. ASSUME NEW a \in Poly, NEW n \in Nat, a \in J PROVE SymDiff(a, {n}) \in J
    <2>1. SymDiff(a, {n}) \in Poly /\ {n} \in Poly /\ a \in SUBSET Nat /\ Mul(a, a) = Sq(a)
      BY <1>2, PolySimple, PolyDiff, PolyIsSet
    <2>2. Mul(SymDiff(a, {n}), SymDiff(a, {n}))
            = SymDiff(Mul(a, SymDiff(a, {n})), Mul({n}, SymDiff(a, {n})))
      BY <2>1, MulLeft
    <2>3. Mul(a, SymDiff(a, {n})) = SymDiff(Mul(a, a), Shift(a, n))
      BY <2>1, MulRight, MulByPower
    <2>4. Mul({n}, SymDiff(a, {n})) = SymDiff(Shift(a, n), {n + n})
      <3>1. Mul({n}, SymDiff(a, {n})) = Shift(SymDiff(a, {n}), n)
        BY <2>1, MulByPower
      <3>2. Shift(SymDiff(a, {n}), n) = SymDiff(Shift(a, n), Shift({n}, n))
        <4>1. {n} \in SUBSET Nat
          OBVIOUS
        <4> QED
          BY <2>1, <4>1, ShiftDiff
      <3>3. Shift({n}, n) = {n + n}
        BY ShiftSimple
      <3> QED
        BY <3>1, <3>2, <3>3
    <2>5. SymDiff(SymDiff(Mul(a, a), Shift(a, n)), SymDiff(Shift(a, n), {n + n}))
            = SymDiff(Mul(a, a), {n + n})
      BY DiffMiddle
    <2>6. Sq(SymDiff(a, {n})) = SymDiff(Sq(a), {n + n})
      <3>1. \A e \in Nat : 2 * e = n + n => e = n
        OBVIOUS
      <3>2. 2 * n = n + n
        OBVIOUS
      <3>3. CASE n \in a
        <4>1. SymDiff(a, {n}) = a \ {n}
          BY <3>3 DEF SymDiff
        <4>2. \A x : x \in Sq(a \ {n}) <=> x \in Sq(a) /\ x # n + n
          BY <2>1, <3>1, <3>2
        <4>3. n + n \in Sq(a)
          BY <3>2, <3>3
        <4> HIDE DEF Sq
        <4>4. \A x : x \in SymDiff(Sq(a), {n + n}) <=> x \in Sq(a) /\ x # n + n
          BY <4>3, InDiff
        <4> QED
          BY <4>1, <4>2, <4>4
      <3>4. CASE n \notin a
        <4>1. SymDiff(a, {n}) = a \cup {n}
          BY <3>4 DEF SymDiff
        <4>2. \A x : x \in Sq(a \cup {n}) <=> x \in Sq(a) \/ x = n + n
          BY <2>1, <3>1, <3>2
        <4>3. n + n \notin Sq(a)
          BY <2>1, <3>1, <3>4
        <4> HIDE DEF Sq
        <4>4. \A x : x \in SymDiff(Sq(a), {n + n}) <=> x \in Sq(a) \/ x = n + n
          BY <4>3, InDiff
        <4> QED
          BY <4>1, <4>2, <4>4
      <3> QED
        BY <3>3, <3>4
    <2> HIDE DEF Sq
    <2>7. Mul(SymDiff(a, {n}), SymDiff(a, {n})) = Sq(SymDiff(a, {n}))
      BY <2>1, <2>2, <2>3, <2>4, <2>5, <2>6
    <2> QED
      BY <2>1, <2>7
  <1> HIDE DEF J
  <1>3. \A a \in Poly : a \in J
    BY <1>1, <1>2, PolyInduction
  <1> QED
    BY <1>3 DEF J

LEMMA MulDegree ==
  ASSUME NEW m \in Nat, NEW n \in Nat, NEW a \in SUBSET (0..m), NEW b \in SUBSET (0..n)
  PROVE  Mul(a, b) \in SUBSET (0..(m + n))
  <1>1. ASSUME NEW e \in Mul(a, b), e > m + n PROVE FALSE
    <2>1. e \in Nat /\ Odd({i \in a : e - i \in b})
      BY DEF Mul
    <2>2. {i \in a : e - i \in b} = {}
      <3>1. ASSUME NEW i \in a, e - i \in b PROVE FALSE
        <4>1. i \in 0..m /\ e - i \in 0..n
          BY <3>1
        <4> QED
          BY <1>1, <2>1, <4>1
      <3> QED
        BY <3>1
    <2>3. ~Odd({})
      BY FS_EmptySet DEF Odd
    <2> QED
      BY <2>1, <2>2, <2>3
  <1>2. \A e \in Nat : ~(e > m + n) => e \in 0..(m + n)
    OBVIOUS
  <1> QED
    BY <1>1, <1>2, MulIsSet

(* The highest terms have a product that no other product cancels.         *)
LEMMA MulTop ==
  ASSUME NEW m \in Nat, NEW n \in Nat, NEW a \in SUBSET (0..m), NEW b \in SUBSET (0..n),
         m \in a, n \in b
  PROVE  m + n \in Mul(a, b)
  <1>1. {i \in a : (m + n) - i \in b} = {m}
    <2>1. ASSUME NEW i \in a, (m + n) - i \in b PROVE i = m
      <3>1. i \in 0..m /\ (m + n) - i \in 0..n
        BY <2>1
      <3> QED
        BY <3>1
    <2>2. (m + n) - m = n
      OBVIOUS
    <2> QED
      BY <2>1, <2>2
  <1>2. Cardinality({m}) = 1
    BY FS_Singleton
  <1>3. Odd({m})
    BY <1>2 DEF Odd
  <1>4. m + n \in Nat
    OBVIOUS
  <1> QED
    BY <1>1, <1>3, <1>4 DEF Mul

LEMMA PolyTop ==
  ASSUME NEW a \in Poly, a # {}
  PROVE  \E m \in a : a \subseteq 0..m
  <1> DEFINE T == {m \in Nat : a \subseteq 0..m}
  <1>1. T # {} /\ T \in SUBSET Nat
    BY DEF Poly
  <1> HIDE DEF T
  <1>2. PICK m \in T : \A k \in T : m <= k
    BY <1>1, LeastNat
  <1>3. m \in Nat /\ a \subseteq 0..m /\ \A k \in Nat : a \subseteq 0..k => m <= k
    BY <1>2 DEF T
  <1>4. ASSUME m \notin a PROVE FALSE
    <2>1. PICK e \in a : TRUE
      OBVIOUS
    <2>2. e \in 0..m /\ e # m
      BY <1>3, <1>4, <2>1
    <2>3. m - 1 \in Nat /\ ~(m <= m - 1)
      BY <1>3, <2>2
    <2>4. a \subseteq 0..(m - 1)
      BY <1>3, <1>4
    <2> QED
      BY <1>3, <2>3, <2>4
  <1> QED
    BY <1>3, <1>4

-----------------------------------------------------------------------------
(* Modulo P: two polynomials differ by a multiple of it.                   *)
Ideal == {Mul(q, PolynomialP) : q \in Poly}

Congruent(a, b) == SymDiff(a, b) \in Ideal

LEMMA ReducerIs ==
  PolynomialP \in SUBSET (0..32) /\ 32 \in PolynomialP /\ PolynomialP \in Poly
  BY ReductionAssumption, PolySimple

LEMMA InIdeal ==
  /\ {} \in Ideal
  /\ PolynomialP \in Ideal
  /\ \A x \in Ideal : x \in Poly
  <1>1. {} \in Ideal
    BY MulNone, PolySimple DEF Ideal
  <1>2. PolynomialP \in Ideal
    <2>1. Mul({0}, PolynomialP) = Shift(PolynomialP, 0)
      BY MulByPower, ReducerIs
    <2>2. Shift(PolynomialP, 0) = PolynomialP
      BY ShiftSimple, ReducerIs, PolyIsSet
    <2>3. {0} \in Poly
      BY PolySimple
    <2> QED
      BY <2>1, <2>2, <2>3 DEF Ideal
  <1>3. ASSUME NEW x \in Ideal PROVE x \in Poly
    <2>1. PICK q \in Poly : x = Mul(q, PolynomialP)
      BY DEF Ideal
    <2> QED
      BY <2>1, ReducerIs, MulPoly
  <1> QED
    BY <1>1, <1>2, <1>3

LEMMA IdealDiff ==
  ASSUME NEW x \in Ideal, NEW y \in Ideal
  PROVE  SymDiff(x, y) \in Ideal
  <1>1. PICK q \in Poly : x = Mul(q, PolynomialP)
    BY DEF Ideal
  <1>2. PICK r \in Poly : y = Mul(r, PolynomialP)
    BY DEF Ideal
  <1>3. SymDiff(x, y) = Mul(SymDiff(q, r), PolynomialP)
    BY <1>1, <1>2, MulLeft, ReducerIs
  <1>4. SymDiff(q, r) \in Poly
    BY PolyDiff
  <1> QED
    BY <1>3, <1>4 DEF Ideal

LEMMA IdealMul ==
  ASSUME NEW x \in Ideal, NEW a \in Poly
  PROVE  Mul(a, x) \in Ideal
  <1>1. PICK q \in Poly : x = Mul(q, PolynomialP)
    BY DEF Ideal
  <1>2. Mul(a, x) = Mul(Mul(a, q), PolynomialP)
    BY <1>1, MulAssoc, ReducerIs
  <1>3. Mul(a, q) \in Poly
    BY MulPoly
  <1> QED
    BY <1>2, <1>3 DEF Ideal

LEMMA IdealShift ==
  ASSUME NEW x \in Ideal, NEW n \in Nat
  PROVE  Shift(x, n) \in Ideal
  <1>1. x \in Poly /\ {n} \in Poly
    BY InIdeal, PolySimple
  <1>2. Mul({n}, x) = Shift(x, n)
    BY <1>1, MulByPower
  <1> QED
    BY <1>1, <1>2, IdealMul

LEMMA IdealSmall ==
  ASSUME NEW x \in Ideal, x \subseteq 0..31
  PROVE  x = {}
  <1>1. PICK q \in Poly : x = Mul(q, PolynomialP)
    BY DEF Ideal
  <1>2. ASSUME q # {} PROVE FALSE
    <2>1. PICK m \in q : q \subseteq 0..m
      BY <1>2, PolyTop
    <2>2. m \in Nat
      BY PolyIsSet
    <2>3. q \in SUBSET (0..m) /\ 32 \in Nat
      BY <2>1
    <2>4. m + 32 \in x
      BY <1>1, <2>2, <2>3, ReducerIs, MulTop
    <2> QED
      BY <2>2, <2>4
  <1> QED
    BY <1>1, <1>2, MulNone

LEMMA SameIsCongruent ==
  ASSUME NEW a
  PROVE  Congruent(a, a)
  BY InIdeal, DiffNone DEF Congruent

LEMMA CongruentBack ==
  ASSUME NEW a, NEW b, Congruent(a, b)
  PROVE  Congruent(b, a)
  BY DiffComm DEF Congruent

LEMMA CongruentThrough ==
  ASSUME NEW a, NEW b, NEW c, Congruent(a, b), Congruent(b, c)
  PROVE  Congruent(a, c)
  <1>1. SymDiff(SymDiff(a, b), SymDiff(b, c)) \in Ideal
    BY IdealDiff DEF Congruent
  <1> QED
    BY <1>1, DiffMiddle DEF Congruent

LEMMA CongruentDiff ==
  ASSUME NEW a, NEW b, NEW c, NEW d, Congruent(a, b), Congruent(c, d)
  PROVE  Congruent(SymDiff(a, c), SymDiff(b, d))
  <1>1. SymDiff(SymDiff(a, b), SymDiff(c, d)) \in Ideal
    BY IdealDiff DEF Congruent
  <1>2. SymDiff(SymDiff(a, b), SymDiff(c, d)) = SymDiff(SymDiff(a, c), SymDiff(b, d))
    BY DiffFour
  <1> QED
    BY <1>1, <1>2 DEF Congruent

LEMMA CongruentShift ==
  ASSUME NEW a \in SUBSET Nat, NEW b \in SUBSET Nat, NEW n \in Nat, Congruent(a, b)
  PROVE  Congruent(Shift(a, n), Shift(b, n))
  <1>1. Shift(SymDiff(a, b), n) \in Ideal
    BY IdealShift DEF Congruent
  <1> QED
    BY <1>1, ShiftDiff DEF Congruent

LEMMA CongruentMul ==
  ASSUME NEW a \in Poly, NEW b \in Poly, NEW c \in Poly, Congruent(b, c)
  PROVE  Congruent(Mul(a, b), Mul(a, c))
  <1>1. Mul(a, SymDiff(b, c)) \in Ideal
    BY IdealMul DEF Congruent
  <1> QED
    BY <1>1, MulRight DEF Congruent

LEMMA CongruentSquare ==
  ASSUME NEW a \in Poly, NEW b \in Poly, Congruent(a, b)
  PROVE  Congruent({2 * e : e \in a}, {2 * e : e \in b})
  <1> DEFINE Sq(c) == {2 * e : e \in c}
  <1>1. SymDiff(a, b) \in Poly /\ a \in SUBSET Nat /\ b \in SUBSET Nat
    BY PolyDiff, PolyIsSet
  <1>2. Mul(SymDiff(a, b), SymDiff(a, b)) = Sq(SymDiff(a, b))
    BY <1>1, MulSquare
  <1>3. Sq(SymDiff(a, b)) = SymDiff(Sq(a), Sq(b))
    <2>1. \A e \in Nat, f \in Nat : 2 * e = 2 * f => e = f
      OBVIOUS
    <2>2. \A c \in SUBSET Nat : \A e \in Nat : 2 * e \in Sq(c) <=> e \in c
      BY <2>1
    <2>3. \A c \in SUBSET Nat : \A x \in Sq(c) : \E e \in Nat : x = 2 * e
      OBVIOUS
    <2>4. SymDiff(a, b) \in SUBSET Nat
      BY <1>1, PolyIsSet
    <2> HIDE DEF Sq
    <2>5. ASSUME NEW x PROVE x \in Sq(SymDiff(a, b)) <=> x \in SymDiff(Sq(a), Sq(b))
      <3>1. CASE \E e \in Nat : x = 2 * e
        <4>1. PICK e \in Nat : x = 2 * e
          BY <3>1
        <4>2. /\ x \in Sq(a) <=> e \in a
              /\ x \in Sq(b) <=> e \in b
              /\ x \in Sq(SymDiff(a, b)) <=> e \in SymDiff(a, b)
          BY <1>1, <2>2, <2>4, <4>1
        <4>3. e \in SymDiff(a, b) <=> ~(e \in a <=> e \in b)
          BY InDiff
        <4>4. x \in SymDiff(Sq(a), Sq(b)) <=> ~(x \in Sq(a) <=> x \in Sq(b))
          BY InDiff
        <4> QED
          BY <4>2, <4>3, <4>4
      <3>2. CASE ~ \E e \in Nat : x = 2 * e
        <4>1. x \notin Sq(a) /\ x \notin Sq(b) /\ x \notin Sq(SymDiff(a, b))
          BY <1>1, <2>3, <2>4, <3>2
        <4>2. x \in SymDiff(Sq(a), Sq(b)) <=> ~(x \in Sq(a) <=> x \in Sq(b))
          BY InDiff
        <4> QED
          BY <4>1, <4>2
      <3> QED
        BY <3>1, <3>2
    <2> QED
      BY <2>5
  <1>4. SymDiff(a, b) \in Ideal
    BY DEF Congruent
  <1> HIDE DEF Sq
  <1>5. SymDiff(Sq(a), Sq(b)) \in Ideal
    BY <1>1, <1>2, <1>3, <1>4, IdealMul
  <1>6. Congruent(Sq(a), Sq(b))
    BY <1>5 DEF Congruent
  <1> QED
    BY <1>6 DEF Sq

LEMMA SmallIsEqual ==
  ASSUME NEW a \in SUBSET (0..31), NEW b \in SUBSET (0..31), Congruent(a, b)
  PROVE  a = b
  <1>1. SymDiff(a, b) \subseteq 0..31
    BY InDiff
  <1>2. SymDiff(a, b) = {}
    BY <1>1, IdealSmall DEF Congruent
  <1>3. \A e : e \in a <=> e \in b
    BY <1>2, InDiff
  <1> QED
    BY <1>3

-----------------------------------------------------------------------------
LEMMA DiffLeaves ==
  ASSUME NEW a, NEW b
  PROVE  SymDiff(SymDiff(a, b), a) = b
  <1>1. \A e : e \in SymDiff(SymDiff(a, b), a) <=> e \in b
    BY InDiff
  <1> QED
    BY <1>1

LEMMA CancelledIs ==
  ASSUME NEW e \in Nat, e >= 32, NEW r \in Poly
  PROVE  /\ Cancelled(r, e) \in Poly
         /\ Congruent(Cancelled(r, e), r)
         /\ r \subseteq 0..e => Cancelled(r, e) \subseteq 0..(e - 1)
  <1>1. e - 32 \in Nat
    OBVIOUS
  <1>2. Shift(PolynomialP, e - 32) \in Ideal
    BY <1>1, InIdeal, IdealShift
  <1>3. CASE e \in r
    <2>1. Cancelled(r, e) = SymDiff(r, Shift(PolynomialP, e - 32))
      BY <1>3 DEF Cancelled
    <2>2. SymDiff(r, Shift(PolynomialP, e - 32)) \in Poly
      BY <1>2, InIdeal, PolyDiff
    <2>3. Congruent(SymDiff(r, Shift(PolynomialP, e - 32)), r)
      BY <1>2, DiffLeaves DEF Congruent
    <2>4. ASSUME r \subseteq 0..e PROVE SymDiff(r, Shift(PolynomialP, e - 32)) \subseteq 0..(e - 1)
      <3>1. PolynomialP \in SUBSET Nat
        BY ReducerIs
      <3>2. ASSUME NEW x \in Shift(PolynomialP, e - 32) PROVE x \in 0..e
        <4>1. PICK i \in PolynomialP : x = i + (e - 32)
          BY DEF Shift
        <4>2. i \in 0..32
          BY ReducerIs
        <4> QED
          BY <1>1, <4>1, <4>2
      <3>3. e \in Shift(PolynomialP, e - 32)
        <4>1. 32 + (e - 32) = e
          OBVIOUS
        <4> QED
          BY <4>1, ReducerIs DEF Shift
      <3>4. e \notin SymDiff(r, Shift(PolynomialP, e - 32))
        BY <1>3, <3>3, InDiff
      <3>5. \A x \in 0..e : x = e \/ x \in 0..(e - 1)
        OBVIOUS
      <3>6. \A x \in SymDiff(r, Shift(PolynomialP, e - 32)) : x \in 0..e
        <4> SUFFICES ASSUME NEW x \in SymDiff(r, Shift(PolynomialP, e - 32)) PROVE x \in 0..e
          OBVIOUS
        <4>1. x \in r \/ x \in Shift(PolynomialP, e - 32)
          BY InDiff
        <4> QED
          BY <2>4, <3>2, <4>1
      <3> QED
        BY <3>4, <3>5, <3>6
    <2> QED
      BY <2>1, <2>2, <2>3, <2>4
  <1>4. CASE e \notin r
    <2>1. Cancelled(r, e) = r
      BY <1>4 DEF Cancelled
    <2>2. \A x \in 0..e : x = e \/ x \in 0..(e - 1)
      OBVIOUS
    <2> QED
      BY <1>4, <2>1, <2>2, SameIsCongruent
  <1> QED
    BY <1>3, <1>4

DividedOf(f, a, n) ==
  f = [m \in 0..(n - 31) |-> IF m = 0 THEN a ELSE Cancelled(f[m - 1], (n - m) + 1)]

LEMMA DividedExists ==
  ASSUME NEW n \in Nat, n >= 31, NEW a \in Poly
  PROVE  \E f \in [0..(n - 31) -> Poly] : DividedOf(f, a, n)
  <1> DEFINE S == Poly
             k == n - 31
             step == [p \in S \X (1..k) |-> Cancelled(p[1], (n - p[2]) + 1)]
  <1>1. \A x \in S, m \in 1..k : step[<<x, m>>] = Cancelled(x, (n - m) + 1)
    OBVIOUS
  <1>2. \A m \in 1..k : (n - m) + 1 \in Nat /\ (n - m) + 1 >= 32
    OBVIOUS
  <1>3. k \in Nat /\ a \in S
    OBVIOUS
  <1> HIDE DEF step
  <1>4. StepsOf(step, S, k)
    BY <1>1, <1>2, CancelledIs DEF StepsOf
  <1> HIDE DEF S, k
  <1>5. PICK f : IteratesOf(f, S, a, step, k)
    BY <1>3, <1>4, Iterates
  <1>6. f \in [0..k -> S] /\ f[0] = a /\ \A m \in 1..k : f[m] = step[<<f[m - 1], m>>]
    BY <1>5 DEF IteratesOf
  <1>7. ASSUME NEW m \in 0..k PROVE f[m] = IF m = 0 THEN a ELSE Cancelled(f[m - 1], (n - m) + 1)
    <2>1. CASE m = 0
      BY <1>6, <2>1
    <2>2. CASE m # 0
      <3>1. m - 1 \in 0..k /\ m \in 1..k
        BY <1>3, <2>2
      <3>2. f[m - 1] \in S
        BY <1>6, <3>1
      <3> QED
        BY <1>1, <1>6, <2>2, <3>1, <3>2
    <2> QED
      BY <2>1, <2>2
  <1>8. f = [m \in 0..k |-> IF m = 0 THEN a ELSE Cancelled(f[m - 1], (n - m) + 1)]
    BY <1>6, <1>7
  <1> QED
    BY <1>6, <1>8 DEF DividedOf, S, k

LEMMA RemainderIs ==
  ASSUME NEW n \in Nat, n >= 31, NEW a \in SUBSET (0..n)
  PROVE  Remainder(a, n) \in SUBSET (0..31) /\ Congruent(Remainder(a, n), a)
  <1> DEFINE f == CHOOSE g : g = [m \in 0..(n - 31) |->
                                    IF m = 0 THEN a ELSE Cancelled(g[m - 1], (n - m) + 1)]
             k == n - 31
  <1>1. Remainder(a, n) = f[k]
    BY DEF Remainder
  <1>2. a \in Poly /\ k \in Nat /\ n - k = 31
    BY PolySimple
  <1>3. \E g : g = [m \in 0..(n - 31) |-> IF m = 0 THEN a ELSE Cancelled(g[m - 1], (n - m) + 1)]
    BY <1>2, DividedExists DEF DividedOf
  <1>4. f = [m \in 0..k |-> IF m = 0 THEN a ELSE Cancelled(f[m - 1], (n - m) + 1)]
    BY <1>3
  <1> HIDE DEF f
  <1> DEFINE T == {m \in 0..k : f[m] \subseteq 0..(n - m) /\ Congruent(f[m], a)}
  <1>5. 0 \in T
    <2>1. f[0] = a /\ 0 \in 0..k /\ n - 0 = n
      BY <1>2, <1>4
    <2> QED
      BY <2>1, SameIsCongruent
  <1>6. ASSUME NEW m \in 1..k, m - 1 \in T PROVE m \in T
    <2>1. /\ m \in 0..k /\ m # 0 /\ n - (m - 1) = (n - m) + 1 /\ ((n - m) + 1) - 1 = n - m
          /\ (n - m) + 1 \in Nat /\ (n - m) + 1 >= 32
      BY <1>2
    <2>2. f[m] = Cancelled(f[m - 1], (n - m) + 1)
      BY <1>4, <2>1
    <2>3. f[m - 1] \subseteq 0..((n - m) + 1) /\ Congruent(f[m - 1], a)
      BY <1>6, <2>1
    <2>4. f[m - 1] \in Poly
      BY <2>1, <2>3, PolySimple
    <2>5. f[m] \subseteq 0..(n - m) /\ Congruent(f[m], f[m - 1])
      BY <2>1, <2>2, <2>3, <2>4, CancelledIs
    <2>6. Congruent(f[m], a)
      BY <2>3, <2>5, CongruentThrough
    <2> QED
      BY <2>1, <2>5, <2>6
  <1>7. k \in T
    <2> HIDE DEF T, k
    <2>1. \A m \in 0..k : m \in T
      BY <1>2, <1>5, <1>6, Upwards
    <2> QED
      BY <1>2, <2>1
  <1>8. f[k] \subseteq 0..31 /\ Congruent(f[k], a)
    BY <1>2, <1>7
  <1> QED
    BY <1>1, <1>8

SquaresOf(f, n) == f = [k \in 0..n |-> IF k = 0 THEN {1} ELSE Remainder({2 * e : e \in f[k - 1]}, 62)]

LEMMA SquareIs ==
  ASSUME NEW a \in SUBSET (0..31)
  PROVE  /\ {2 * e : e \in a} \in SUBSET (0..62)
         /\ Remainder({2 * e : e \in a}, 62) \in SUBSET (0..31)
         /\ Congruent(Remainder({2 * e : e \in a}, 62), {2 * e : e \in a})
  <1> DEFINE s == {2 * e : e \in a}
  <1>1. s \in SUBSET (0..62)
    OBVIOUS
  <1>2. 62 \in Nat /\ 62 >= 31
    OBVIOUS
  <1> HIDE DEF s
  <1>3. Remainder(s, 62) \in SUBSET (0..31) /\ Congruent(Remainder(s, 62), s)
    BY <1>1, <1>2, RemainderIs
  <1> QED
    BY <1>1, <1>3 DEF s

LEMMA SquaresExist ==
  ASSUME NEW n \in Nat
  PROVE  \E f \in [0..n -> SUBSET (0..31)] : SquaresOf(f, n)
  <1> DEFINE S == SUBSET (0..31)
             one == {1}
             step == [p \in S \X (1..n) |-> Remainder({2 * e : e \in p[1]}, 62)]
  <1>1. \A x \in S, m \in 1..n : step[<<x, m>>] = Remainder({2 * e : e \in x}, 62)
    OBVIOUS
  <1>3. one \in S
    OBVIOUS
  <1> HIDE DEF step
  <1>4. StepsOf(step, S, n)
    BY <1>1, SquareIs DEF StepsOf
  <1> HIDE DEF S, one
  <1>5. PICK f : IteratesOf(f, S, one, step, n)
    BY <1>3, <1>4, Iterates
  <1>6. f \in [0..n -> S] /\ f[0] = one /\ \A m \in 1..n : f[m] = step[<<f[m - 1], m>>]
    BY <1>5 DEF IteratesOf
  <1>7. ASSUME NEW m \in 0..n PROVE f[m] = IF m = 0 THEN {1} ELSE Remainder({2 * e : e \in f[m - 1]}, 62)
    <2>1. CASE m = 0
      BY <1>6, <2>1 DEF one
    <2>2. CASE m # 0
      <3>1. m - 1 \in 0..n /\ m \in 1..n
        BY <2>2
      <3>2. f[m - 1] \in S
        BY <1>6, <3>1
      <3> QED
        BY <1>1, <1>6, <2>2, <3>1, <3>2
    <2> QED
      BY <2>1, <2>2
  <1>8. f = [m \in 0..n |-> IF m = 0 THEN {1} ELSE Remainder({2 * e : e \in f[m - 1]}, 62)]
    BY <1>6, <1>7
  <1> QED
    BY <1>6, <1>8 DEF SquaresOf, S

LEMMA PowerOfXIs ==
  ASSUME NEW n \in Nat
  PROVE  PowerOfX(n) \in SUBSET (0..31) /\ Congruent(PowerOfX(n), {Power(2, n)})
  <1> DEFINE f == CHOOSE g : g = [k \in 0..n |->
                                    IF k = 0 THEN {1} ELSE Remainder({2 * e : e \in g[k - 1]}, 62)]
  <1>1. PowerOfX(n) = f[n]
    BY DEF PowerOfX
  <1>2. \E g : g = [k \in 0..n |-> IF k = 0 THEN {1} ELSE Remainder({2 * e : e \in g[k - 1]}, 62)]
    BY SquaresExist DEF SquaresOf
  <1>3. f = [k \in 0..n |-> IF k = 0 THEN {1} ELSE Remainder({2 * e : e \in f[k - 1]}, 62)]
    BY <1>2
  <1> HIDE DEF f
  <1> DEFINE T == {k \in 0..n : f[k] \in SUBSET (0..31) /\ Congruent(f[k], {Power(2, k)})}
  <1>4. 0 \in T
    <2>1. f[0] = {1} /\ 0 \in 0..n /\ {1} \in SUBSET (0..31)
      BY <1>3
    <2>2. Power(2, 0) = 1
      BY PowerOfZero
    <2> QED
      BY <2>1, <2>2, SameIsCongruent
  <1>5. ASSUME NEW k \in 1..n, k - 1 \in T PROVE k \in T
    <2> DEFINE a == f[k - 1]
               p == Power(2, k - 1)
    <2>1. k \in 0..n /\ k # 0 /\ k - 1 \in Nat /\ (k - 1) + 1 = k /\ 2 \in Nat
      OBVIOUS
    <2>2. f[k] = Remainder({2 * e : e \in a}, 62)
      BY <1>3, <2>1
    <2>3. a \in SUBSET (0..31) /\ Congruent(a, {p})
      BY <1>5
    <2>4. p \in Nat /\ Power(2, k) = 2 * p
      BY <2>1, PowerAfter
    <2>9. Power(2, k) \in Nat
      BY <2>1, PowerAfter
    <2> HIDE DEF a, p
    <2>5. a \in Poly /\ {p} \in Poly
      BY <2>3, <2>4, PolySimple
    <2>6. Congruent({2 * e : e \in a}, {2 * e : e \in {p}})
      BY <2>3, <2>5, CongruentSquare
    <2>7. {2 * e : e \in {p}} = {Power(2, k)}
      BY <2>4
    <2>8. f[k] \in SUBSET (0..31) /\ Congruent(f[k], {2 * e : e \in a})
      BY <2>2, <2>3, SquareIs
    <2>10. Congruent(f[k], {Power(2, k)})
      BY <2>6, <2>7, <2>8, CongruentThrough
    <2> QED
      BY <2>1, <2>8, <2>10
  <1>6. n \in T
    <2> HIDE DEF T
    <2>1. \A k \in 0..n : k \in T
      BY <1>4, <1>5, Upwards
    <2> QED
      BY <2>1
  <1> QED
    BY <1>1, <1>6

-----------------------------------------------------------------------------
(* A register, and the polynomial it stands for.                           *)
Register32 == SUBSET (0..31)

LEMMA ReversedIs ==
  ASSUME NEW r \in Register32
  PROVE  /\ Reversed(r) \in Register32
         /\ \A x : x \in Reversed(r) <=> x \in 0..31 /\ 31 - x \in r
         /\ Reversed(Reversed(r)) = r
  <1>1. r \in SUBSET (0..31)
    BY DEF Register32
  <1>2. \A x : x \in Reversed(r) <=> x \in 0..31 /\ 31 - x \in r
    <2>1. ASSUME NEW x \in Reversed(r) PROVE x \in 0..31 /\ 31 - x \in r
      <3>1. PICK b \in r : x = 31 - b
        BY DEF Reversed
      <3>2. b \in 0..31 /\ 31 - (31 - b) = b
        BY <1>1
      <3> QED
        BY <3>1, <3>2
    <2>2. ASSUME NEW x \in 0..31, 31 - x \in r PROVE x \in Reversed(r)
      <3>1. 31 - (31 - x) = x
        OBVIOUS
      <3> QED
        BY <2>2, <3>1 DEF Reversed
    <2> QED
      BY <2>1, <2>2
  <1>3. Reversed(r) \in Register32
    BY <1>2 DEF Register32
  <1>4. \A x : x \in Reversed(Reversed(r)) <=> x \in 0..31 /\ 31 - x \in Reversed(r)
    <2>1. ASSUME NEW x \in Reversed(Reversed(r)) PROVE x \in 0..31 /\ 31 - x \in Reversed(r)
      <3>1. PICK b \in Reversed(r) : x = 31 - b
        BY DEF Reversed
      <3>2. b \in 0..31 /\ 31 - (31 - b) = b
        BY <1>2
      <3> QED
        BY <3>1, <3>2
    <2>2. ASSUME NEW x \in 0..31, 31 - x \in Reversed(r) PROVE x \in Reversed(Reversed(r))
      <3>1. 31 - (31 - x) = x
        OBVIOUS
      <3> QED
        BY <2>2, <3>1 DEF Reversed
    <2> QED
      BY <2>1, <2>2
  <1>5. \A x \in 0..31 : 31 - (31 - x) = x /\ 31 - x \in 0..31
    OBVIOUS
  <1>6. \A x : x \in Reversed(Reversed(r)) <=> x \in r
    BY <1>1, <1>2, <1>4, <1>5
  <1>7. Reversed(Reversed(r)) = r
    BY <1>6
  <1> QED
    BY <1>2, <1>3, <1>7

LEMMA RegisterDiff ==
  ASSUME NEW r \in Register32, NEW s \in Register32
  PROVE  SymDiff(r, s) \in Register32
  BY InDiff DEF Register32

LEMMA ReversedDiff ==
  ASSUME NEW r \in Register32, NEW s \in Register32
  PROVE  Reversed(SymDiff(r, s)) = SymDiff(Reversed(r), Reversed(s))
  <1>1. SymDiff(r, s) \in Register32
    BY RegisterDiff
  <1>2. \A x : x \in Reversed(SymDiff(r, s)) <=> x \in 0..31 /\ 31 - x \in SymDiff(r, s)
    BY <1>1, ReversedIs
  <1>3. \A x : x \in Reversed(r) <=> x \in 0..31 /\ 31 - x \in r
    BY ReversedIs
  <1>4. \A x : x \in Reversed(s) <=> x \in 0..31 /\ 31 - x \in s
    BY ReversedIs
  <1>5. \A x : x \in Reversed(SymDiff(r, s)) <=> x \in SymDiff(Reversed(r), Reversed(s))
    BY <1>2, <1>3, <1>4, InDiff
  <1> QED
    BY <1>5

LEMMA RegisterIsPoly ==
  ASSUME NEW r \in Register32
  PROVE  r \in Poly /\ r \in SUBSET Nat /\ r \in SUBSET (0..31)
  <1>1. r \in SUBSET (0..31) /\ r \in SUBSET Nat
    BY DEF Register32
  <1> QED
    BY <1>1, PolySimple

LEMMA TakeBitIs ==
  ASSUME NEW r \in Register32
  PROVE  TakeBit(r) \in Register32 /\ Congruent(Reversed(TakeBit(r)), Shift(Reversed(r), 1))
  <1> DEFINE h == HighBits(r, 1)
             low == LowBits(PolynomialP, 32)
             moved == Shift(Reversed(r), 1)
  <1>1. r \in SUBSET (0..31)
    BY DEF Register32
  <1>2. \A x : x \in h <=> x \in Nat /\ x + 1 \in r
    <2>1. ASSUME NEW x \in h PROVE x \in Nat /\ x + 1 \in r
      <3>1. PICK e \in {f \in r : f >= 1} : x = e - 1
        BY DEF HighBits
      <3>2. e \in 0..31 /\ e >= 1 /\ (e - 1) + 1 = e
        BY <1>1, <3>1
      <3> QED
        BY <3>1, <3>2
    <2>2. ASSUME NEW x \in Nat, x + 1 \in r PROVE x \in h
      <3>1. x + 1 >= 1 /\ (x + 1) - 1 = x
        OBVIOUS
      <3>2. x + 1 \in {f \in r : f >= 1}
        BY <2>2, <3>1
      <3> QED
        BY <3>1, <3>2 DEF HighBits
    <2> QED
      BY <2>1, <2>2
  <1>3. low \in Register32 /\ PolynomialP = SymDiff(low, {32})
    <2>0. \A x \in 0..32 : (x < 32 <=> x # 32) /\ (x # 32 => x \in 0..31)
      OBVIOUS
    <2>1. \A x : x \in low <=> x \in PolynomialP /\ x # 32
      <3>1. \A x : x \in low <=> x \in PolynomialP /\ x < 32
        BY DEF LowBits
      <3>2. \A x \in PolynomialP : x \in 0..32
        BY ReducerIs
      <3> QED
        BY <2>0, <3>1, <3>2
    <2>2. low \in SUBSET (0..31)
      <3>1. \A x \in PolynomialP : x \in 0..32
        BY ReducerIs
      <3>2. \A x \in low : x \in 0..31
        BY <2>0, <2>1, <3>1
      <3> QED
        BY <3>2
    <2> HIDE DEF low
    <2>3. \A x : x \in PolynomialP <=> x \in SymDiff(low, {32})
      BY <2>1, InDiff, ReducerIs
    <2> QED
      BY <2>2, <2>3 DEF Register32
  <1>4. Reversed(r) \in Register32 /\ \A x : x \in Reversed(r) <=> x \in 0..31 /\ 31 - x \in r
    BY ReversedIs
  <1>5. moved \in SUBSET Nat /\ \A x \in Nat : x \in moved <=> x - 1 \in Reversed(r)
    <2> DEFINE q == Reversed(r)
    <2>1. q \in SUBSET Nat
      BY <1>4, RegisterIsPoly
    <2> HIDE DEF q
    <2>2. 1 \in Nat
      OBVIOUS
    <2>3. Shift(q, 1) \in SUBSET Nat /\ \A x \in Nat : x \in Shift(q, 1) <=> x - 1 \in q
      BY <2>1, <2>2, InShift
    <2> QED
      BY <2>3 DEF q
  <1> HIDE DEF h, low, moved
  <1>6. h \in Register32
    BY <1>1, <1>2 DEF Register32
  <1>7. \A x : x \in Reversed(h) <=> x \in moved /\ x # 32
    <2>1. \A x : x \in Reversed(h) <=> x \in 0..31 /\ 31 - x \in h
      BY <1>6, ReversedIs
    <2>2. ASSUME NEW x \in 0..31 PROVE x \in Reversed(h) <=> x \in moved
      <3>1. /\ 31 - x \in Nat /\ x \in Nat /\ (31 - x) + 1 = 31 - (x - 1)
            /\ x = 0 => 31 - (x - 1) = 32
            /\ x # 0 => x - 1 \in 0..31
            /\ x = 0 => x - 1 \notin 0..31
        OBVIOUS
      <3>2. 32 \notin r
        BY <1>1
      <3>3. x \in Reversed(h) <=> 31 - (x - 1) \in r
        BY <1>2, <2>1, <3>1
      <3>4. x \in moved <=> x - 1 \in 0..31 /\ 31 - (x - 1) \in r
        BY <1>4, <1>5, <3>1
      <3> QED
        BY <3>1, <3>2, <3>3, <3>4
    <2>3. ASSUME NEW x \in moved, x # 32 PROVE x \in 0..31
      <3>1. x \in Nat /\ x - 1 \in 0..31
        BY <1>4, <1>5
      <3> QED
        BY <2>3, <3>1
    <2>4. 32 \notin 0..31
      OBVIOUS
    <2> QED
      BY <2>1, <2>2, <2>3, <2>4
  <1>8. 32 \in moved <=> 0 \in r
    <2>1. 32 - 1 \in 0..31 /\ 31 - (32 - 1) = 0 /\ 32 \in Nat
      OBVIOUS
    <2> QED
      BY <1>4, <1>5, <2>1
  <1>9. CASE 0 \in r
    <2>1. TakeBit(r) = SymDiff(h, Reversed(low))
      BY <1>9 DEF TakeBit, h, low
    <2>2. Reversed(low) \in Register32 /\ Reversed(Reversed(low)) = low
      BY <1>3, ReversedIs
    <2>3. Reversed(TakeBit(r)) = SymDiff(Reversed(h), low)
      BY <1>6, <2>1, <2>2, ReversedDiff
    <2>4. \A x : x \in Reversed(h) <=> x \in SymDiff(moved, {32})
      BY <1>7, <1>8, <1>9, InDiff
    <2>5. Reversed(h) = SymDiff(moved, {32})
      BY <2>4
    <2>6. SymDiff(SymDiff(SymDiff(moved, {32}), low), moved) = SymDiff(low, {32})
      <3>1. \A x : x \in SymDiff(SymDiff(SymDiff(moved, {32}), low), moved) <=> x \in SymDiff(low, {32})
        BY InDiff
      <3> QED
        BY <3>1
    <2>7. Congruent(Reversed(TakeBit(r)), moved)
      BY <1>3, <2>3, <2>5, <2>6, InIdeal DEF Congruent
    <2>8. TakeBit(r) \in Register32
      BY <1>6, <2>1, <2>2, RegisterDiff
    <2> QED
      BY <2>7, <2>8 DEF moved
  <1>10. CASE 0 \notin r
    <2>1. TakeBit(r) = h
      BY <1>10 DEF TakeBit, h
    <2>2. Reversed(h) = moved
      BY <1>7, <1>8, <1>10
    <2> QED
      BY <1>6, <2>1, <2>2, SameIsCongruent DEF moved
  <1> QED
    BY <1>9, <1>10

BitsTakenOf(f, r, byte) ==
  f = [n \in 0..8 |-> IF n = 0 THEN SymDiff(r, byte) ELSE TakeBit(f[n - 1])]

LEMMA BitsTakenExist ==
  ASSUME NEW r \in Register32, NEW byte \in Register32
  PROVE  \E f \in [0..8 -> Register32] : BitsTakenOf(f, r, byte)
  <1> DEFINE S == Register32
             first == SymDiff(r, byte)
             k == 8
             step == [p \in S \X (1..k) |-> TakeBit(p[1])]
  <1>1. \A x \in S, m \in 1..k : step[<<x, m>>] = TakeBit(x)
    OBVIOUS
  <1>3. first \in S /\ k \in Nat
    BY RegisterDiff
  <1> HIDE DEF step
  <1>4. StepsOf(step, S, k)
    BY <1>1, TakeBitIs DEF StepsOf
  <1> HIDE DEF S, first, k
  <1>5. PICK f : IteratesOf(f, S, first, step, k)
    BY <1>3, <1>4, Iterates
  <1>6. f \in [0..k -> S] /\ f[0] = first /\ \A m \in 1..k : f[m] = step[<<f[m - 1], m>>]
    BY <1>5 DEF IteratesOf
  <1>7. ASSUME NEW m \in 0..k PROVE f[m] = IF m = 0 THEN first ELSE TakeBit(f[m - 1])
    <2>1. CASE m = 0
      BY <1>6, <2>1
    <2>2. CASE m # 0
      <3>1. m - 1 \in 0..k /\ m \in 1..k
        BY <1>3, <2>2
      <3>2. f[m - 1] \in S
        BY <1>6, <3>1
      <3> QED
        BY <1>1, <1>6, <2>2, <3>1, <3>2
    <2> QED
      BY <2>1, <2>2
  <1>8. f = [m \in 0..k |-> IF m = 0 THEN first ELSE TakeBit(f[m - 1])]
    BY <1>6, <1>7
  <1> QED
    BY <1>6, <1>8 DEF BitsTakenOf, S, first, k

LEMMA TakeByteIs ==
  ASSUME NEW r \in Register32, NEW byte \in Octet
  PROVE  /\ TakeByte(r, byte) \in Register32
         /\ Congruent(Reversed(TakeByte(r, byte)), SymDiff(Shift(Reversed(r), 8), {39 - b : b \in byte}))
  <1> DEFINE f == CHOOSE g : g = [n \in 0..8 |-> IF n = 0 THEN SymDiff(r, byte) ELSE TakeBit(g[n - 1])]
             first == SymDiff(r, byte)
             base == Reversed(first)
  <1>1. TakeByte(r, byte) = f[8]
    BY DEF TakeByte
  <1>2. byte \in Register32
    BY DEF Octet, Register32
  <1>3. \E g : g = [n \in 0..8 |-> IF n = 0 THEN SymDiff(r, byte) ELSE TakeBit(g[n - 1])]
    BY <1>2, BitsTakenExist DEF BitsTakenOf
  <1>4. f = [n \in 0..8 |-> IF n = 0 THEN first ELSE TakeBit(f[n - 1])]
    BY <1>3
  <1>5. first \in Register32 /\ base \in Register32 /\ base = SymDiff(Reversed(r), Reversed(byte))
    BY <1>2, RegisterDiff, ReversedIs, ReversedDiff
  <1> HIDE DEF f, first, base
  <1> DEFINE T == {n \in 0..8 : f[n] \in Register32 /\ Congruent(Reversed(f[n]), Shift(base, n))}
  <1>6. 0 \in T
    <2>1. f[0] = first /\ 0 \in 0..8
      BY <1>4
    <2>2. Shift(base, 0) = base
      BY <1>5, RegisterIsPoly, ShiftSimple
    <2> QED
      BY <1>5, <2>1, <2>2, SameIsCongruent DEF base
  <1>7. ASSUME NEW n \in 1..8, n - 1 \in T PROVE n \in T
    <2>1. n \in 0..8 /\ n # 0 /\ n - 1 \in Nat /\ (n - 1) + 1 = n /\ 1 \in Nat
      OBVIOUS
    <2>2. f[n] = TakeBit(f[n - 1])
      BY <1>4, <2>1
    <2>3. f[n - 1] \in Register32 /\ Congruent(Reversed(f[n - 1]), Shift(base, n - 1))
      BY <1>7
    <2>4. f[n] \in Register32 /\ Congruent(Reversed(f[n]), Shift(Reversed(f[n - 1]), 1))
      BY <2>2, <2>3, TakeBitIs
    <2>5. Reversed(f[n - 1]) \in SUBSET Nat /\ base \in SUBSET Nat /\ Shift(base, n - 1) \in SUBSET Nat
      <3>1. Reversed(f[n - 1]) \in Register32
        BY <2>3, ReversedIs
      <3>2. Reversed(f[n - 1]) \in SUBSET Nat
        BY <3>1, RegisterIsPoly
      <3>3. base \in SUBSET Nat
        BY <1>5, RegisterIsPoly
      <3>4. Shift(base, n - 1) \in SUBSET Nat
        BY <2>1, <3>3, InShift
      <3> QED
        BY <3>2, <3>3, <3>4
    <2>6. Congruent(Shift(Reversed(f[n - 1]), 1), Shift(Shift(base, n - 1), 1))
      BY <2>1, <2>3, <2>5, CongruentShift
    <2>7. Shift(Shift(base, n - 1), 1) = Shift(base, n)
      BY <2>1, <2>5, ShiftSum
    <2>8. Congruent(Reversed(f[n]), Shift(base, n))
      BY <2>4, <2>6, <2>7, CongruentThrough
    <2> QED
      BY <2>1, <2>4, <2>8
  <1>8. 8 \in T
    <2> HIDE DEF T
    <2>1. \A n \in 0..8 : n \in T
      BY <1>6, <1>7, Upwards
    <2> QED
      BY <2>1
  <1>9. Shift(base, 8) = SymDiff(Shift(Reversed(r), 8), Shift(Reversed(byte), 8))
    BY <1>2, <1>5, ShiftDiff, ReversedIs, RegisterIsPoly
  <1>10. Shift(Reversed(byte), 8) = {39 - b : b \in byte}
    <2>1. \A b \in byte : (31 - b) + 8 = 39 - b
      BY <1>2 DEF Register32
    <2>2. \A x : x \in Shift(Reversed(byte), 8) <=> \E b \in byte : x = (31 - b) + 8
      BY DEF Shift, Reversed
    <2>3. \A x : x \in Shift(Reversed(byte), 8) <=> x \in {39 - b : b \in byte}
      BY <2>1, <2>2
    <2> QED
      BY <2>3
  <1> QED
    BY <1>1, <1>8, <1>9, <1>10

-----------------------------------------------------------------------------
(* The registers of a stream, one by one.                                  *)
RegistersOf(f, r, bytes) ==
  /\ f \in [0..Len(bytes) -> Register32]
  /\ f[0] = r
  /\ \A n \in 1..Len(bytes) : f[n] = TakeByte(f[n - 1], bytes[n])

LEMMA FollowingIs ==
  ASSUME NEW r \in Register32, NEW byte
  PROVE  Following(byte)[r] = TakeByte(r, byte)
  BY DEF Following, Register32

LEMMA RegistersExist ==
  ASSUME NEW r \in Register32, NEW bytes \in Seq(Octet)
  PROVE  \E f : f = [n \in 0..Len(bytes) |-> IF n = 0 THEN r ELSE Following(bytes[n])[f[n - 1]]]
  <1> DEFINE S == Register32
             k == Len(bytes)
             step == [p \in S \X (1..k) |-> Following(bytes[p[2]])[p[1]]]
  <1>1. \A x \in S, m \in 1..k : step[<<x, m>>] = Following(bytes[m])[x]
    OBVIOUS
  <1>2. \A m \in 1..k : bytes[m] \in Octet
    OBVIOUS
  <1>3. k \in Nat /\ r \in S
    OBVIOUS
  <1> HIDE DEF step
  <1>4. StepsOf(step, S, k)
    BY <1>1, <1>2, FollowingIs, TakeByteIs DEF StepsOf
  <1> HIDE DEF S
  <1>5. PICK f : IteratesOf(f, S, r, step, k)
    <2> HIDE DEF k
    <2> QED
      BY <1>3, <1>4, Iterates
  <1>6. f \in [0..k -> S] /\ f[0] = r /\ \A m \in 1..k : f[m] = step[<<f[m - 1], m>>]
    BY <1>5 DEF IteratesOf
  <1>7. \A m \in 1..k : f[m] = Following(bytes[m])[f[m - 1]]
    <2> HIDE DEF k
    <2>1. \A m \in 1..k : m - 1 \in 0..k
      BY <1>3
    <2> QED
      BY <1>1, <1>6, <2>1
  <1>8. ASSUME NEW m \in 0..k PROVE f[m] = IF m = 0 THEN r ELSE Following(bytes[m])[f[m - 1]]
    <2>1. m = 0 \/ m \in 1..k
      BY <1>3
    <2> QED
      BY <1>6, <1>7, <2>1
  <1>9. f = [m \in 0..k |-> IF m = 0 THEN r ELSE Following(bytes[m])[f[m - 1]]]
    BY <1>6, <1>8
  <1> QED
    BY <1>9

LEMMA TakenIsLast ==
  ASSUME NEW r \in Register32, NEW bytes \in Seq(Octet)
  PROVE  \E f : RegistersOf(f, r, bytes) /\ Taken(r, bytes) = f[Len(bytes)]
  <1> DEFINE P(g) == g = [n \in 0..Len(bytes) |-> IF n = 0 THEN r ELSE Following(bytes[n])[g[n - 1]]]
             f == CHOOSE g : P(g)
  <1>1. Taken(r, bytes) = f[Len(bytes)]
    BY DEF Taken
  <1>2. \E g : P(g)
    BY RegistersExist
  <1>3. P(f)
    BY <1>2
  <1>4. f[0] = r /\ \A n \in 1..Len(bytes) : f[n] = Following(bytes[n])[f[n - 1]]
    <2> HIDE DEF f
    <2>1. 0 \in 0..Len(bytes) /\ \A n \in 1..Len(bytes) : n \in 0..Len(bytes) /\ n # 0
      OBVIOUS
    <2>2. \A n \in 0..Len(bytes) : f[n] = IF n = 0 THEN r ELSE Following(bytes[n])[f[n - 1]]
      BY <1>3
    <2> QED
      BY <2>1, <2>2
  <1>5. DOMAIN f = 0..Len(bytes) /\ f = [n \in DOMAIN f |-> f[n]]
    <2> HIDE DEF f
    <2> QED
      BY <1>3
  <1> HIDE DEF f
  <1> DEFINE T == {n \in 0..Len(bytes) : f[n] \in Register32}
  <1>6. 0 \in T
    BY <1>4
  <1>7. ASSUME NEW n \in 1..Len(bytes), n - 1 \in T PROVE n \in T
    <2>1. f[n - 1] \in Register32 /\ bytes[n] \in Octet /\ n \in 0..Len(bytes)
      BY <1>7
    <2>2. f[n] = TakeByte(f[n - 1], bytes[n])
      BY <1>4, <2>1, FollowingIs
    <2> QED
      BY <2>1, <2>2, TakeByteIs
  <1>8. \A n \in 0..Len(bytes) : n \in T
    <2> HIDE DEF T
    <2>1. Len(bytes) \in Nat
      OBVIOUS
    <2> QED
      BY <1>6, <1>7, <2>1, Upwards
  <1>9. f \in [0..Len(bytes) -> Register32]
    BY <1>5, <1>8
  <1>10. ASSUME NEW n \in 1..Len(bytes) PROVE f[n] = TakeByte(f[n - 1], bytes[n])
    <2>1. n - 1 \in 0..Len(bytes)
      OBVIOUS
    <2>2. f[n - 1] \in Register32
      BY <1>8, <2>1
    <2> QED
      BY <1>4, <2>2, FollowingIs
  <1> QED
    BY <1>1, <1>4, <1>9, <1>10 DEF RegistersOf

LEMMA TakenType ==
  ASSUME NEW r \in Register32, NEW bytes \in Seq(Octet)
  PROVE  Taken(r, bytes) \in Register32
  <1>1. PICK f : RegistersOf(f, r, bytes) /\ Taken(r, bytes) = f[Len(bytes)]
    BY TakenIsLast
  <1>2. Len(bytes) \in 0..Len(bytes)
    OBVIOUS
  <1> QED
    BY <1>1, <1>2 DEF RegistersOf

LEMMA TakenNothing ==
  ASSUME NEW r \in Register32
  PROVE  Taken(r, <<>>) = r
  <1>1. <<>> \in Seq(Octet) /\ Len(<<>>) = 0
    OBVIOUS
  <1>2. PICK f : RegistersOf(f, r, <<>>) /\ Taken(r, <<>>) = f[Len(<<>>)]
    BY <1>1, TakenIsLast
  <1> QED
    BY <1>1, <1>2 DEF RegistersOf

(* A stream is taken in one part after the other.                          *)
LEMMA TakenJoins ==
  ASSUME NEW r \in Register32, NEW a \in Seq(Octet), NEW c \in Seq(Octet)
  PROVE  Taken(r, a \o c) = Taken(Taken(r, a), c)
  <1>1. /\ a \o c \in Seq(Octet) /\ Len(a \o c) = Len(a) + Len(c)
        /\ Len(a) \in Nat /\ Len(c) \in Nat
        /\ \A n \in 1..Len(a) : (a \o c)[n] = a[n]
        /\ \A n \in 1..Len(c) : (a \o c)[Len(a) + n] = c[n]
    BY ConcatProperties
  <1>2. PICK f : RegistersOf(f, r, a \o c) /\ Taken(r, a \o c) = f[Len(a \o c)]
    BY <1>1, TakenIsLast
  <1>3. PICK g : RegistersOf(g, r, a) /\ Taken(r, a) = g[Len(a)]
    BY TakenIsLast
  <1>4. Taken(r, a) \in Register32
    BY TakenType
  <1>5. PICK h : RegistersOf(h, Taken(r, a), c) /\ Taken(Taken(r, a), c) = h[Len(c)]
    BY <1>4, TakenIsLast
  <1> DEFINE la == Len(a)
             lc == Len(c)
             T == {n \in 0..la : f[n] = g[n]}
             R == {n \in 0..lc : f[la + n] = h[n]}
  <1>6. /\ f[0] = r /\ \A n \in 1..(la + lc) : f[n] = TakeByte(f[n - 1], (a \o c)[n])
        /\ g[0] = r /\ \A n \in 1..la : g[n] = TakeByte(g[n - 1], a[n])
        /\ h[0] = g[la] /\ \A n \in 1..lc : h[n] = TakeByte(h[n - 1], c[n])
    BY <1>1, <1>2, <1>3, <1>5 DEF RegistersOf
  <1> HIDE DEF la, lc
  <1>7. la \in Nat /\ lc \in Nat
    BY <1>1 DEF la, lc
  <1>8. 0 \in T
    BY <1>6, <1>7
  <1>9. ASSUME NEW n \in 1..la, n - 1 \in T PROVE n \in T
    <2>1. n \in 1..(la + lc) /\ n \in 0..la /\ (a \o c)[n] = a[n]
      BY <1>1, <1>7 DEF la, lc
    <2>2. f[n - 1] = g[n - 1]
      BY <1>9
    <2> QED
      BY <1>6, <2>1, <2>2
  <1>10. f[la] = g[la]
    <2> HIDE DEF T
    <2>1. \A n \in 0..la : n \in T
      BY <1>7, <1>8, <1>9, Upwards
    <2>2. la \in T
      BY <1>7, <2>1
    <2> QED
      BY <2>2 DEF T
  <1>11. 0 \in R
    BY <1>6, <1>7, <1>10
  <1>12. ASSUME NEW n \in 1..lc, n - 1 \in R PROVE n \in R
    <2>1. la + n \in 1..(la + lc) /\ n \in 0..lc /\ (a \o c)[la + n] = c[n] /\ (la + n) - 1 = la + (n - 1)
      BY <1>1, <1>7 DEF la, lc
    <2>2. f[la + (n - 1)] = h[n - 1]
      BY <1>12
    <2>3. f[la + n] = TakeByte(f[(la + n) - 1], (a \o c)[la + n])
      BY <1>6, <2>1
    <2>4. h[n] = TakeByte(h[n - 1], c[n])
      BY <1>6
    <2> QED
      BY <2>1, <2>2, <2>3, <2>4
  <1>13. f[la + lc] = h[lc]
    <2> HIDE DEF R
    <2>1. \A n \in 0..lc : n \in R
      BY <1>7, <1>11, <1>12, Upwards
    <2>2. lc \in R
      BY <1>7, <2>1
    <2> QED
      BY <2>2 DEF R
  <1> QED
    BY <1>1, <1>2, <1>5, <1>13 DEF la, lc

(* What a register held before a stream is moved by the stream's length,   *)
(* and what the stream gives is added to it.                               *)
LEMMA TakenMoves ==
  ASSUME NEW r \in Register32, NEW bytes \in Seq(Octet)
  PROVE  Congruent(Reversed(Taken(r, bytes)),
                   SymDiff(Shift(Reversed(r), 8 * Len(bytes)), Reversed(Taken({}, bytes))))
  <1>1. {} \in Register32
    BY DEF Register32
  <1>2. PICK f : RegistersOf(f, r, bytes) /\ Taken(r, bytes) = f[Len(bytes)]
    BY TakenIsLast
  <1>3. PICK g : RegistersOf(g, {}, bytes) /\ Taken({}, bytes) = g[Len(bytes)]
    BY <1>1, TakenIsLast
  <1> DEFINE k == Len(bytes)
             q == Reversed(r)
             A(n) == Reversed(f[n])
             B(n) == Reversed(g[n])
             T == {n \in 0..k : Congruent(A(n), SymDiff(Shift(q, 8 * n), B(n)))}
  <1>4. k \in Nat /\ q \in Register32 /\ q \in SUBSET Nat
    BY ReversedIs, RegisterIsPoly
  <1>5. /\ f[0] = r /\ g[0] = {}
        /\ \A n \in 0..k : f[n] \in Register32 /\ g[n] \in Register32
        /\ \A n \in 1..k : f[n] = TakeByte(f[n - 1], bytes[n]) /\ g[n] = TakeByte(g[n - 1], bytes[n])
        /\ \A n \in 1..k : bytes[n] \in Octet
    BY <1>2, <1>3 DEF RegistersOf
  <1>6. \A n \in 0..k : A(n) \in SUBSET Nat /\ B(n) \in SUBSET Nat
    BY <1>5, ReversedIs, RegisterIsPoly
  <1>7. \A n \in 1..k : /\ Congruent(A(n), SymDiff(Shift(A(n - 1), 8), {39 - b : b \in bytes[n]}))
                        /\ Congruent(B(n), SymDiff(Shift(B(n - 1), 8), {39 - b : b \in bytes[n]}))
    <2> SUFFICES ASSUME NEW n \in 1..k
                 PROVE  /\ Congruent(A(n), SymDiff(Shift(A(n - 1), 8), {39 - b : b \in bytes[n]}))
                        /\ Congruent(B(n), SymDiff(Shift(B(n - 1), 8), {39 - b : b \in bytes[n]}))
      OBVIOUS
    <2>1. n - 1 \in 0..k
      BY <1>4
    <2>2. f[n - 1] \in Register32 /\ g[n - 1] \in Register32 /\ bytes[n] \in Octet
      BY <1>5, <2>1
    <2>3. /\ Congruent(Reversed(TakeByte(f[n - 1], bytes[n])),
                       SymDiff(Shift(Reversed(f[n - 1]), 8), {39 - b : b \in bytes[n]}))
          /\ Congruent(Reversed(TakeByte(g[n - 1], bytes[n])),
                       SymDiff(Shift(Reversed(g[n - 1]), 8), {39 - b : b \in bytes[n]}))
      BY <2>2, TakeByteIs
    <2> QED
      BY <1>5, <2>3
  <1>8. 0 \in T
    <2>1. Reversed({}) = {}
      BY DEF Reversed
    <2>2. 8 * 0 = 0
      OBVIOUS
    <2>3. SymDiff(Shift(q, 8 * 0), B(0)) = q
      BY <1>4, <1>5, <2>1, <2>2, ShiftSimple, DiffNone
    <2>4. A(0) = q
      BY <1>5
    <2> HIDE DEF A, B, q
    <2> QED
      BY <1>4, <2>3, <2>4, SameIsCongruent
  <1> HIDE DEF A, B, q, k
  <1>9. ASSUME NEW n \in 1..k, n - 1 \in T PROVE n \in T
    <2> DEFINE z == {39 - b : b \in bytes[n]}
               m == n - 1
               s == Shift(q, 8 * m)
    <2>1. /\ m \in 0..k /\ n \in 0..k /\ 8 * m \in Nat /\ (8 * m) + 8 = 8 * n /\ 8 \in Nat
      BY <1>4
    <2>2. Congruent(A(m), SymDiff(s, B(m)))
      BY <1>9
    <2>3. A(m) \in SUBSET Nat /\ B(m) \in SUBSET Nat /\ s \in SUBSET Nat
      BY <1>4, <1>6, <2>1, InShift
    <2>4. Congruent(A(n), SymDiff(Shift(A(m), 8), z)) /\ Congruent(B(n), SymDiff(Shift(B(m), 8), z))
      BY <1>7
    <2>5. Shift(s, 8) = Shift(q, 8 * n)
      BY <1>4, <2>1, ShiftSum
    <2> HIDE DEF z, m, s
    <2>6. SymDiff(s, B(m)) \in SUBSET Nat
      BY <2>3, DiffInside
    <2>7. Congruent(Shift(A(m), 8), Shift(SymDiff(s, B(m)), 8))
      BY <2>1, <2>2, <2>3, <2>6, CongruentShift
    <2>8. Shift(SymDiff(s, B(m)), 8) = SymDiff(Shift(s, 8), Shift(B(m), 8))
      BY <2>1, <2>3, ShiftDiff
    <2>9. Congruent(SymDiff(Shift(A(m), 8), z), SymDiff(SymDiff(Shift(s, 8), Shift(B(m), 8)), z))
      BY <2>7, <2>8, SameIsCongruent, CongruentDiff
    <2>10. SymDiff(SymDiff(Shift(s, 8), Shift(B(m), 8)), z) = SymDiff(Shift(s, 8), SymDiff(Shift(B(m), 8), z))
      BY DiffAssoc
    <2>11. Congruent(SymDiff(Shift(B(m), 8), z), B(n))
      BY <2>4, CongruentBack
    <2>12. Congruent(SymDiff(Shift(s, 8), SymDiff(Shift(B(m), 8), z)), SymDiff(Shift(s, 8), B(n)))
      BY <2>11, SameIsCongruent, CongruentDiff
    <2>13. Congruent(A(n), SymDiff(SymDiff(Shift(s, 8), Shift(B(m), 8)), z))
      BY <2>4, <2>9, CongruentThrough
    <2>14. Congruent(A(n), SymDiff(Shift(s, 8), B(n)))
      BY <2>10, <2>12, <2>13, CongruentThrough
    <2> QED
      BY <2>1, <2>5, <2>14
  <1>10. k \in T
    <2> HIDE DEF T
    <2>1. \A n \in 0..k : n \in T
      BY <1>4, <1>8, <1>9, Upwards
    <2> QED
      BY <1>4, <2>1
  <1>11. Congruent(A(k), SymDiff(Shift(q, 8 * k), B(k)))
    BY <1>10
  <1> QED
    BY <1>2, <1>3, <1>11 DEF A, B, q, k

-----------------------------------------------------------------------------
RestsOf(f, message) ==
  f = [n \in 0..Len(message) |-> IF n = 0 THEN 0..31 ELSE Extended(message[n])[f[n - 1]]]

LEMMA ExtendedIs ==
  ASSUME NEW r \in Register32, NEW byte
  PROVE  Extended(byte)[r] = Remainder(SymDiff(Shift(r, 8), {39 - b : b \in byte}), 39)
  BY DEF Extended, Register32

LEMMA RestIs ==
  ASSUME NEW r \in Register32, NEW byte \in Octet
  PROVE  LET a == SymDiff(Shift(r, 8), {39 - b : b \in byte})
         IN  Remainder(a, 39) \in Register32 /\ Congruent(Remainder(a, 39), a)
  <1> DEFINE a == SymDiff(Shift(r, 8), {39 - b : b \in byte})
  <1>1. \A x \in Shift(r, 8) : x \in 0..39
    BY DEF Shift, Register32
  <1>2. \A x \in {39 - b : b \in byte} : x \in 0..39
    BY DEF Octet
  <1>3. a \in SUBSET (0..39)
    BY <1>1, <1>2, InDiff
  <1>4. 39 \in Nat /\ 39 >= 31
    OBVIOUS
  <1> HIDE DEF a
  <1>5. Remainder(a, 39) \in Register32 /\ Congruent(Remainder(a, 39), a)
    BY <1>3, <1>4, RemainderIs DEF Register32
  <1> QED
    BY <1>5 DEF a

LEMMA RestsExist ==
  ASSUME NEW message \in Seq(Octet)
  PROVE  \E f \in [0..Len(message) -> Register32] : RestsOf(f, message)
  <1> DEFINE S == Register32
             k == Len(message)
             first == 0..31
             step == [p \in S \X (1..k) |-> Extended(message[p[2]])[p[1]]]
  <1>1. \A x \in S, m \in 1..k : step[<<x, m>>] = Extended(message[m])[x]
    OBVIOUS
  <1>2. \A m \in 1..k : message[m] \in Octet
    OBVIOUS
  <1>3. k \in Nat /\ first \in S
    BY DEF Register32
  <1> HIDE DEF step
  <1>4. StepsOf(step, S, k)
    BY <1>1, <1>2, ExtendedIs, RestIs DEF StepsOf
  <1> HIDE DEF S, k, first
  <1>5. PICK f : IteratesOf(f, S, first, step, k)
    BY <1>3, <1>4, Iterates
  <1>6. f \in [0..k -> S] /\ f[0] = first /\ \A m \in 1..k : f[m] = step[<<f[m - 1], m>>]
    BY <1>5 DEF IteratesOf
  <1>7. ASSUME NEW m \in 0..k
        PROVE f[m] = IF m = 0 THEN first
                     ELSE Extended(message[m])[f[m - 1]]
    <2>1. CASE m = 0
      BY <1>6, <2>1
    <2>2. CASE m # 0
      <3>1. m - 1 \in 0..k /\ m \in 1..k
        BY <1>3, <2>2
      <3>2. f[m - 1] \in S
        BY <1>6, <3>1
      <3> QED
        BY <1>1, <1>6, <2>2, <3>1, <3>2
    <2> QED
      BY <2>1, <2>2
  <1>8. f = [m \in 0..k |-> IF m = 0 THEN first ELSE Extended(message[m])[f[m - 1]]]
    BY <1>6, <1>7
  <1> QED
    BY <1>6, <1>8 DEF RestsOf, S, k, first

(* The register that has taken in a message is the remainder, reversed.    *)
LEMMA CrcOfTaken ==
  ASSUME NEW message \in Seq(Octet)
  PROVE  CrcOf(message) = Inverted(Taken(0..31, message))
  <1> DEFINE P(g) == g = [n \in 0..Len(message) |-> IF n = 0 THEN 0..31 ELSE Extended(message[n])[g[n - 1]]]
             rest == CHOOSE g : P(g)
             k == Len(message)
  <1>1. CrcOf(message) = Inverted(Reversed(rest[k]))
    BY DEF CrcOf
  <1>2. \E g : P(g)
    BY RestsExist DEF RestsOf
  <1>3. P(rest)
    BY <1>2
  <1> HIDE DEF rest
  <1>4. 0..31 \in Register32
    BY DEF Register32
  <1>5. PICK f : RegistersOf(f, 0..31, message) /\ Taken(0..31, message) = f[k]
    BY <1>4, TakenIsLast
  <1>6. /\ f[0] = 0..31 /\ k \in Nat
        /\ \A n \in 0..k : f[n] \in Register32
        /\ \A n \in 1..k : f[n] = TakeByte(f[n - 1], message[n]) /\ message[n] \in Octet
    BY <1>5 DEF RegistersOf
  <1>7. rest[0] = 0..31
    BY <1>3
  <1>8. ASSUME NEW n \in 1..k
        PROVE rest[n] = Extended(message[n])[rest[n - 1]]
    <2>1. n \in 0..Len(message) /\ n # 0
      OBVIOUS
    <2>2. rest[n] = IF n = 0 THEN 0..31 ELSE Extended(message[n])[rest[n - 1]]
      BY <1>3, <2>1
    <2> QED
      BY <2>1, <2>2
  <1> HIDE DEF k, P
  <1> DEFINE T == {n \in 0..k : rest[n] = Reversed(f[n])}
  <1>9. 0 \in T
    <2>1. Reversed(0..31) = 0..31
      <3>1. \A x : x \in Reversed(0..31) <=> x \in 0..31 /\ 31 - x \in 0..31
        BY <1>4, ReversedIs
      <3>2. \A x \in 0..31 : 31 - x \in 0..31
        OBVIOUS
      <3> QED
        BY <3>1, <3>2
    <2>2. 0 \in 0..k
      BY <1>6
    <2> QED
      BY <1>6, <1>7, <2>1, <2>2
  <1>10. ASSUME NEW n \in 1..k, n - 1 \in T PROVE n \in T
    <2> DEFINE a == SymDiff(Shift(rest[n - 1], 8), {39 - b : b \in message[n]})
    <2>1. n - 1 \in 0..k /\ n \in 0..k /\ rest[n - 1] = Reversed(f[n - 1])
      BY <1>6, <1>10
    <2>2. f[n - 1] \in Register32 /\ message[n] \in Octet /\ f[n] = TakeByte(f[n - 1], message[n])
      BY <1>6, <2>1
    <2>3. rest[n - 1] \in Register32
      BY <2>1, <2>2, ReversedIs
    <2>4. rest[n] = Remainder(a, 39)
      BY <1>8, <2>3, ExtendedIs
    <2>5. Remainder(a, 39) \in Register32 /\ Congruent(Remainder(a, 39), a)
      BY <2>2, <2>3, RestIs
    <2>6. Congruent(Reversed(f[n]), a) /\ f[n] \in Register32
      BY <2>1, <2>2, TakeByteIs
    <2> HIDE DEF a
    <2>7. Congruent(rest[n], Reversed(f[n]))
      BY <2>4, <2>5, <2>6, CongruentBack, CongruentThrough
    <2>8. rest[n] \in SUBSET (0..31) /\ Reversed(f[n]) \in SUBSET (0..31)
      <3>1. Reversed(f[n]) \in Register32 /\ rest[n] \in Register32
        BY <2>4, <2>5, <2>6, ReversedIs
      <3> QED
        BY <3>1, RegisterIsPoly
    <2>9. rest[n] = Reversed(f[n])
      BY <2>7, <2>8, SmallIsEqual
    <2> QED
      BY <2>1, <2>9
  <1>11. k \in T
    <2> HIDE DEF T
    <2>1. \A n \in 0..k : n \in T
      BY <1>6, <1>9, <1>10, Upwards
    <2> QED
      BY <1>6, <2>1
  <1>12. f[k] \in Register32 /\ rest[k] = Reversed(f[k])
    BY <1>6, <1>11
  <1>13. Reversed(rest[k]) = f[k]
    BY <1>12, ReversedIs
  <1> QED
    BY <1>1, <1>5, <1>13

-----------------------------------------------------------------------------
LEMMA ClmulIs ==
  ASSUME NEW a \in SUBSET (0..31), NEW b \in SUBSET (0..32)
  PROVE  Clmul(a, b) = Mul(a, b) /\ Mul(a, b) \in SUBSET (0..63)
  <1>1. Mul(a, b) \in SUBSET (0..(31 + 32))
    <2>1. 31 \in Nat /\ 32 \in Nat
      OBVIOUS
    <2> QED
      BY <2>1, MulDegree
  <1>2. Mul(a, b) \in SUBSET (0..63)
    BY <1>1
  <1>3. \A e \in 0..63 : e \in Clmul(a, b) <=> e \in Mul(a, b)
    BY DEF Clmul, Mul, Odd
  <1>4. \A e \in Clmul(a, b) : e \in 0..63
    BY DEF Clmul
  <1>5. \A e : e \in Clmul(a, b) <=> e \in Mul(a, b)
    BY <1>2, <1>3, <1>4
  <1> QED
    BY <1>2, <1>5

LEMMA MuIs ==
  /\ Mu \in SUBSET (0..32) /\ Mu \in Poly
  /\ \E low \in SUBSET (0..31) : Mul(Mu, PolynomialP) = SymDiff({64}, low)
  <1>1. Mu \in SUBSET (0..32) /\ 32 \in Mu /\ Mu \in Poly
    BY ReductionAssumption, PolySimple
  <1> DEFINE low == Clmul(Mu, PolynomialP)
  <1>2. low \in SUBSET (0..31)
    BY ReductionAssumption
  <1>3. Mul(Mu, PolynomialP) \in SUBSET (0..(32 + 32)) /\ 32 + 32 \in Mul(Mu, PolynomialP)
    <2>1. 32 \in Nat
      OBVIOUS
    <2> QED
      BY <1>1, <2>1, ReducerIs, MulDegree, MulTop
  <1>4. Mul(Mu, PolynomialP) \in SUBSET (0..64) /\ 64 \in Mul(Mu, PolynomialP)
    BY <1>3
  <1>5. \A e \in 0..63 : e \in low <=> e \in Mul(Mu, PolynomialP)
    BY DEF Clmul, Mul, Odd
  <1> HIDE DEF low
  <1>6. \A e \in 0..64 : e = 64 \/ e \in 0..63
    OBVIOUS
  <1>7. 64 \notin 0..31 /\ \A e \in 0..31 : e \in 0..63 /\ e # 64
    OBVIOUS
  <1>8. \A e : e \in Mul(Mu, PolynomialP) <=> e = 64 \/ e \in low
    <2> DEFINE m == Mul(Mu, PolynomialP)
    <2>1. m \subseteq 0..64 /\ 64 \in m /\ (\A e \in 0..63 : e \in low <=> e \in m)
      BY <1>4, <1>5
    <2> HIDE DEF m
    <2>2. SUFFICES ASSUME NEW e PROVE e \in m <=> e = 64 \/ e \in low
      BY DEF m
    <2>3. CASE e = 64
      BY <2>1, <2>3
    <2>4. CASE e \in 0..63
      <3>1. e # 64
        BY <2>4
      <3> QED
        BY <2>1, <2>4, <3>1
    <2>5. CASE e # 64 /\ e \notin 0..63
      <3>1. e \notin m
        BY <1>6, <2>1, <2>5
      <3>2. e \notin low
        BY <1>2, <1>7, <2>5
      <3> QED
        BY <2>5, <3>1, <3>2
    <2> QED
      BY <2>3, <2>4, <2>5
  <1>9. \A e : e \in SymDiff({64}, low) <=> e = 64 \/ e \in low
    BY <1>2, <1>7, InDiff
  <1>10. Mul(Mu, PolynomialP) = SymDiff({64}, low)
    BY <1>8, <1>9
  <1> QED
    BY <1>1, <1>2, <1>10

LEMMA WordHalves ==
  ASSUME NEW a \in SUBSET Nat
  PROVE  /\ LowBits(a, 32) \in Register32
         /\ HighBits(a, 32) \in SUBSET Nat
         /\ \A e \in Nat : e \in HighBits(a, 32) <=> e + 32 \in a
         /\ a = SymDiff(LowBits(a, 32), Shift(HighBits(a, 32), 32))
         /\ a \subseteq 0..63 => HighBits(a, 32) \in Register32
  <1> DEFINE h == HighBits(a, 32)
             low == LowBits(a, 32)
  <1>1. \A x \in h : \E e \in a : e >= 32 /\ x = e - 32
    BY DEF HighBits
  <1>2. h \in SUBSET Nat
    BY <1>1
  <1>3. \A e \in Nat : e \in h <=> e + 32 \in a
    <2> SUFFICES ASSUME NEW e \in Nat PROVE e \in h <=> e + 32 \in a
      OBVIOUS
    <2>1. ASSUME e \in h PROVE e + 32 \in a
      <3>1. PICK x \in a : x >= 32 /\ e = x - 32
        BY <1>1, <2>1
      <3>2. e + 32 = x
        BY <3>1
      <3> QED
        BY <3>1, <3>2
    <2>2. ASSUME e + 32 \in a PROVE e \in h
      <3>1. e + 32 >= 32 /\ (e + 32) - 32 = e
        OBVIOUS
      <3>2. e + 32 \in {f \in a : f >= 32}
        BY <2>2, <3>1
      <3> QED
        BY <3>1, <3>2 DEF HighBits
    <2> QED
      BY <2>1, <2>2
  <1>4. low \in Register32 /\ \A e : e \in low <=> e \in a /\ e < 32
    <2>1. \A e : e \in low <=> e \in a /\ e < 32
      BY DEF LowBits
    <2>2. \A e \in low : e \in 0..31
      <3>1. \A e \in Nat : e < 32 => e \in 0..31
        OBVIOUS
      <3>2. \A e \in low : e \in Nat /\ e < 32
        BY <2>1
      <3> QED
        BY <3>1, <3>2
    <2> QED
      BY <2>1, <2>2 DEF Register32
  <1> HIDE DEF h, low
  <1>5. Shift(h, 32) \in SUBSET Nat /\ \A e \in Nat : e \in Shift(h, 32) <=> e - 32 \in h
    BY <1>2, InShift
  <1>6. \A e \in Nat : e \in Shift(h, 32) <=> e \in a /\ ~(e < 32)
    <2> SUFFICES ASSUME NEW e \in Nat PROVE e \in Shift(h, 32) <=> e \in a /\ ~(e < 32)
      OBVIOUS
    <2>1. CASE e < 32
      <3>1. e - 32 \notin Nat
        BY <2>1
      <3> QED
        BY <1>2, <1>5, <2>1, <3>1
    <2>2. CASE ~(e < 32)
      <3>1. e - 32 \in Nat /\ (e - 32) + 32 = e
        BY <2>2
      <3>2. e - 32 \in h <=> e \in a
        BY <1>3, <3>1
      <3> QED
        BY <1>5, <2>2, <3>2
    <2> QED
      BY <2>1, <2>2
  <1>7. \A e : e \in a <=> e \in SymDiff(low, Shift(h, 32))
    <2> SUFFICES ASSUME NEW e PROVE e \in a <=> e \in SymDiff(low, Shift(h, 32))
      OBVIOUS
    <2>1. e \in SymDiff(low, Shift(h, 32)) <=> ~(e \in low <=> e \in Shift(h, 32))
      BY InDiff
    <2>2. e \in Shift(h, 32) => e \in Nat
      BY <1>5
    <2>3. e \in a => e \in Nat
      OBVIOUS
    <2>4. e \in low <=> e \in a /\ e < 32
      BY <1>4
    <2>5. e \in Nat => (e \in Shift(h, 32) <=> e \in a /\ ~(e < 32))
      BY <1>6
    <2> QED
      BY <2>1, <2>2, <2>3, <2>4, <2>5
  <1>8. a = SymDiff(low, Shift(h, 32))
    BY <1>7
  <1>9. ASSUME a \subseteq 0..63 PROVE h \in Register32
    <2>1. \A e \in Nat : e + 32 \in 0..63 => e \in 0..31
      OBVIOUS
    <2> QED
      BY <1>2, <1>3, <1>9, <2>1 DEF Register32
  <1> QED
    BY <1>2, <1>3, <1>4, <1>8, <1>9 DEF h, low

(* The quotient of the upper half by P: its product with P has that half.  *)
LEMMA BarrettQuotient ==
  ASSUME NEW h \in Register32
  PROVE  LET quotient == HighBits(Mul(h, Mu), 32)
             qp       == Mul(quotient, PolynomialP)
         IN  /\ Mul(h, Mu) \in SUBSET (0..63)
             /\ quotient \in Register32 /\ qp \in SUBSET (0..63)
             /\ HighBits(qp, 32) = h
  <1> DEFINE p == PolynomialP
             prod == Mul(h, Mu)
             quotient == HighBits(prod, 32)
             low == LowBits(prod, 32)
             qp == Mul(quotient, p)
  <1>1. p \in SUBSET (0..32) /\ p \in Poly /\ Mu \in SUBSET (0..32) /\ Mu \in Poly
    BY ReducerIs, MuIs
  <1>2. PICK rest \in SUBSET (0..31) : Mul(Mu, p) = SymDiff({64}, rest)
    BY MuIs
  <1>3. h \in SUBSET (0..31) /\ h \in SUBSET Nat /\ h \in Poly
    BY RegisterIsPoly
  <1>4. prod \in SUBSET (0..63) /\ prod \in SUBSET Nat /\ prod \in Poly
    BY <1>1, <1>3, ClmulIs, MulIsSet, MulPoly
  <1>5. /\ low \in Register32 /\ quotient \in Register32
        /\ prod = SymDiff(low, Shift(quotient, 32))
    BY <1>4, WordHalves
  <1>6. Mul(prod, p) = Mul(h, Mul(Mu, p))
    BY <1>1, <1>3, MulAssoc
  <1> HIDE DEF prod, quotient, low, p
  <1>7. /\ low \in SUBSET (0..31) /\ low \in Poly
        /\ quotient \in SUBSET (0..31) /\ quotient \in Poly
        /\ Shift(quotient, 32) \in Poly
    BY <1>5, RegisterIsPoly, ShiftPoly
  <1>8. qp \in SUBSET (0..63) /\ Mul(low, p) \in SUBSET (0..63) /\ qp \in SUBSET Nat
    BY <1>1, <1>7, ClmulIs, MulIsSet
  <1>9. Mul(prod, p) = SymDiff(Mul(low, p), Shift(qp, 32))
    <2>1. Mul(SymDiff(low, Shift(quotient, 32)), p) = SymDiff(Mul(low, p), Mul(Shift(quotient, 32), p))
      BY <1>1, <1>7, MulLeft
    <2>2. Mul(Shift(quotient, 32), p) = Shift(qp, 32)
      BY <1>1, <1>7, MulShift
    <2> QED
      BY <1>5, <2>1, <2>2
  <1>10. Mul(h, SymDiff({64}, rest)) = SymDiff(Shift(h, 64), Mul(h, rest))
    <2>1. {64} \in Poly /\ rest \in Poly
      BY PolySimple
    <2>2. Mul(h, SymDiff({64}, rest)) = SymDiff(Mul(h, {64}), Mul(h, rest))
      BY <1>3, <2>1, MulRight
    <2>3. Mul(h, {64}) = Shift(h, 64)
      BY <1>3, MulByPower
    <2> QED
      BY <2>2, <2>3
  <1>11. Mul(h, rest) \in SUBSET (0..63)
    <2>1. rest \in SUBSET (0..32)
      OBVIOUS
    <2> QED
      BY <1>3, <2>1, ClmulIs
  <1> HIDE DEF qp
  <1>12. ASSUME NEW x \in Nat PROVE x + 32 \in qp <=> x \in h
    <2> DEFINE e == x + 64
    <2>1. e \in Nat /\ e \notin 0..63 /\ e - 32 = x + 32 /\ e - 64 = x
      OBVIOUS
    <2> HIDE DEF e
    <2>2. e \in Mul(prod, p) <=> e \in Shift(qp, 32)
      <3>1. e \notin Mul(low, p)
        BY <1>8, <2>1
      <3>2. e \in SymDiff(Mul(low, p), Shift(qp, 32)) <=> e \in Shift(qp, 32)
        BY <3>1, InDiff
      <3> QED
        BY <1>9, <3>2
    <2>3. e \in Mul(prod, p) <=> e \in Shift(h, 64)
      <3>1. e \notin Mul(h, rest)
        BY <1>11, <2>1
      <3>2. e \in SymDiff(Shift(h, 64), Mul(h, rest)) <=> e \in Shift(h, 64)
        BY <3>1, InDiff
      <3> QED
        BY <1>2, <1>6, <1>10, <3>2
    <2>4. e \in Shift(qp, 32) <=> x + 32 \in qp
      <3>1. e \in Shift(qp, 32) <=> e - 32 \in qp
        <4>1. qp \in SUBSET Nat /\ 32 \in Nat
          BY <1>8
        <4> QED
          BY <2>1, <4>1, InShift
      <3> QED
        BY <2>1, <3>1
    <2>5. e \in Shift(h, 64) <=> x \in h
      <3>1. e \in Shift(h, 64) <=> e - 64 \in h
        <4>1. h \in SUBSET Nat /\ 64 \in Nat
          BY <1>3
        <4> QED
          BY <2>1, <4>1, InShift
      <3> QED
        BY <2>1, <3>1
    <2> QED
      BY <2>2, <2>3, <2>4, <2>5
  <1>13. HighBits(qp, 32) = h
    <2>1. HighBits(qp, 32) \in SUBSET Nat /\ \A x \in Nat : x \in HighBits(qp, 32) <=> x + 32 \in qp
      BY <1>8, WordHalves
    <2>2. \A x : x \in HighBits(qp, 32) <=> x \in h
      BY <1>3, <1>12, <2>1
    <2> QED
      BY <2>2
  <1> QED
    BY <1>4, <1>5, <1>8, <1>13 DEF prod, quotient, qp, p

LEMMA BarrettIs ==
  ASSUME NEW a \in SUBSET (0..63)
  PROVE  BarrettReduced(a) \in Register32 /\ Congruent(BarrettReduced(a), a)
  <1> DEFINE h == HighBits(a, 32)
             quotient == HighBits(Mul(h, Mu), 32)
             qp == Mul(quotient, PolynomialP)
             la == LowBits(a, 32)
             lq == LowBits(qp, 32)
  <1>1. a \in SUBSET Nat
    OBVIOUS
  <1>2. la \in Register32 /\ h \in Register32 /\ a = SymDiff(la, Shift(h, 32))
    BY <1>1, WordHalves
  <1>3. quotient \in Register32 /\ qp \in SUBSET (0..63) /\ HighBits(qp, 32) = h
    BY <1>2, BarrettQuotient
  <1>4. Clmul(h, Mu) = Mul(h, Mu)
    BY <1>2, MuIs, ClmulIs, RegisterIsPoly
  <1>5. Clmul(quotient, PolynomialP) = qp
    BY <1>3, ReducerIs, ClmulIs, RegisterIsPoly
  <1>6. BarrettReduced(a) = SymDiff(la, lq)
    BY <1>4, <1>5 DEF BarrettReduced
  <1>7. qp \in Ideal
    BY <1>3, RegisterIsPoly DEF Ideal
  <1>8. qp \in SUBSET Nat
    BY <1>3
  <1>9. lq \in Register32 /\ qp = SymDiff(lq, Shift(h, 32))
    <2> HIDE DEF qp, h
    <2> QED
      BY <1>3, <1>8, WordHalves
  <1> HIDE DEF h, quotient, qp, la, lq
  <1>10. SymDiff(SymDiff(la, lq), a) = qp
    <2>1. \A e : e \in SymDiff(SymDiff(la, lq), SymDiff(la, Shift(h, 32))) <=> e \in SymDiff(lq, Shift(h, 32))
      BY InDiff
    <2> QED
      BY <1>2, <1>9, <2>1
  <1>11. SymDiff(la, lq) \in Register32
    BY <1>2, <1>9, RegisterDiff
  <1> QED
    BY <1>6, <1>7, <1>10, <1>11 DEF Congruent

LEMMA StreamIs ==
  /\ Stream \in Nat \ {0}
  /\ Power(2, StreamLog + 3) = 8 * Stream
  /\ Power(2, StreamLog + 4) = 8 * Stream + 8 * Stream
  <1>1. StreamLog \in Nat /\ 2 \in Nat \ {0}
    BY KeysAssumption
  <1>2. Stream \in Nat \ {0}
    BY <1>1, PowerOfPositive DEF Stream
  <1>3. /\ StreamLog + 1 \in Nat /\ StreamLog + 2 \in Nat /\ StreamLog + 3 \in Nat
        /\ (StreamLog + 1) + 1 = StreamLog + 2 /\ (StreamLog + 2) + 1 = StreamLog + 3
        /\ (StreamLog + 3) + 1 = StreamLog + 4
    BY <1>1
  <1>4. /\ Power(2, StreamLog + 1) = 2 * Stream
        /\ Power(2, StreamLog + 2) = 2 * Power(2, StreamLog + 1)
        /\ Power(2, StreamLog + 3) = 2 * Power(2, StreamLog + 2)
        /\ Power(2, StreamLog + 4) = 2 * Power(2, StreamLog + 3)
    BY <1>1, <1>3, PowerAfter DEF Stream
  <1> QED
    BY <1>2, <1>4

LEMMA CombinedIs ==
  ASSUME NEW r0 \in Register32, NEW r1 \in Register32, NEW r2 \in Register32
  PROVE  /\ Combined(r0, r1, r2) \in Register32
         /\ Congruent(Reversed(Combined(r0, r1, r2)),
                      SymDiff(SymDiff(Shift(Reversed(r0), 8 * Stream + 8 * Stream),
                                      Shift(Reversed(r1), 8 * Stream)),
                              Reversed(r2)))
  <1> DEFINE s == 8 * Stream
             q0 == Reversed(r0)
             q1 == Reversed(r1)
             q2 == Reversed(r2)
             product == SymDiff(Clmul(q0, K1), Clmul(q1, K2))
             b == BarrettReduced(product)
  <1>1. StreamLog + 3 \in Nat /\ StreamLog + 4 \in Nat
    BY KeysAssumption
  <1>2. /\ Power(2, StreamLog + 3) = s /\ Power(2, StreamLog + 4) = s + s
        /\ s \in Nat /\ s + s \in Nat
    BY StreamIs
  <1>3. /\ K1 \in SUBSET (0..31) /\ Congruent(K1, {s + s})
        /\ K2 \in SUBSET (0..31) /\ Congruent(K2, {s})
    BY <1>1, <1>2, PowerOfXIs DEF K1, K2
  <1>4. q0 \in Register32 /\ q1 \in Register32 /\ q2 \in Register32
    BY ReversedIs
  <1>5. Combined(r0, r1, r2) = SymDiff(Reversed(b), r2)
    BY DEF Combined
  <1> HIDE DEF s, q0, q1
  <1>6. /\ q0 \in SUBSET (0..31) /\ q1 \in SUBSET (0..31) /\ q0 \in Poly /\ q1 \in Poly
        /\ K1 \in SUBSET (0..32) /\ K2 \in SUBSET (0..32) /\ K1 \in Poly /\ K2 \in Poly
        /\ {s + s} \in Poly /\ {s} \in Poly
    <2>1. \A x \in SUBSET (0..31) : x \in SUBSET (0..32) /\ x \in Register32
      BY DEF Register32
    <2> QED
      BY <1>2, <1>3, <1>4, <2>1, RegisterIsPoly, PolySimple
  <1>7. /\ Clmul(q0, K1) = Mul(q0, K1) /\ Mul(q0, K1) \in SUBSET (0..63)
        /\ Clmul(q1, K2) = Mul(q1, K2) /\ Mul(q1, K2) \in SUBSET (0..63)
    BY <1>6, ClmulIs
  <1>8. product \in SUBSET (0..63) /\ product = SymDiff(Mul(q0, K1), Mul(q1, K2))
    BY <1>7, InDiff
  <1>9. Congruent(Mul(q0, K1), Mul(q0, {s + s})) /\ Congruent(Mul(q1, K2), Mul(q1, {s}))
    BY <1>3, <1>6, CongruentMul
  <1>10. Mul(q0, {s + s}) = Shift(q0, s + s) /\ Mul(q1, {s}) = Shift(q1, s)
    BY <1>2, <1>6, MulByPower
  <1>11. Congruent(product, SymDiff(Shift(q0, s + s), Shift(q1, s)))
    BY <1>8, <1>9, <1>10, CongruentDiff
  <1> HIDE DEF product
  <1>12. b \in Register32 /\ Congruent(b, product)
    BY <1>8, BarrettIs
  <1> HIDE DEF b
  <1>13. Congruent(b, SymDiff(Shift(q0, s + s), Shift(q1, s)))
    BY <1>11, <1>12, CongruentThrough
  <1>14. Reversed(SymDiff(Reversed(b), r2)) = SymDiff(b, q2)
    BY <1>12, ReversedIs, ReversedDiff
  <1>15. SymDiff(Reversed(b), r2) \in Register32
    BY <1>12, ReversedIs, RegisterDiff
  <1> HIDE DEF q2
  <1>16. Congruent(SymDiff(b, q2), SymDiff(SymDiff(Shift(q0, s + s), Shift(q1, s)), q2))
    BY <1>13, SameIsCongruent, CongruentDiff
  <1> QED
    BY <1>5, <1>14, <1>15, <1>16 DEF s, q0, q1, q2

(* Three streams at once give what they give one after the other.          *)
LEMMA CombinedTakes ==
  ASSUME NEW r \in Register32, NEW a \in Seq(Octet), NEW b \in Seq(Octet), NEW c \in Seq(Octet),
         Len(b) = Stream, Len(c) = Stream
  PROVE  Combined(Taken(r, a), Taken({}, b), Taken({}, c)) = Taken(r, (a \o b) \o c)
  <1> DEFINE t0 == Taken(r, a)
             t1 == Taken(t0, b)
             t2 == Taken(t1, c)
             r1 == Taken({}, b)
             r2 == Taken({}, c)
             s == 8 * Stream
             all == Combined(t0, r1, r2)
  <1>1. {} \in Register32
    BY DEF Register32
  <1>2. t0 \in Register32 /\ r1 \in Register32 /\ r2 \in Register32
    BY <1>1, TakenType
  <1>3. t1 \in Register32
    BY <1>2, TakenType
  <1>4. t2 \in Register32
    BY <1>3, TakenType
  <1>5. Taken(r, (a \o b) \o c) = t2
    <2>1. a \o b \in Seq(Octet)
      BY ConcatProperties
    <2>2. Taken(r, (a \o b) \o c) = Taken(Taken(r, a \o b), c)
      BY <2>1, TakenJoins
    <2>3. Taken(r, a \o b) = Taken(Taken(r, a), b)
      BY TakenJoins
    <2> QED
      BY <2>2, <2>3
  <1>6. s \in Nat /\ s + s \in Nat
    BY StreamIs
  <1>7. Congruent(Reversed(t1), SymDiff(Shift(Reversed(t0), s), Reversed(r1)))
    BY <1>2, TakenMoves
  <1>8. Congruent(Reversed(t2), SymDiff(Shift(Reversed(t1), s), Reversed(r2)))
    BY <1>3, TakenMoves
  <1>9. /\ all \in Register32
        /\ Congruent(Reversed(all), SymDiff(SymDiff(Shift(Reversed(t0), s + s), Shift(Reversed(r1), s)), Reversed(r2)))
    BY <1>2, CombinedIs
  <1> HIDE DEF t0, t1, t2, r1, r2, s, all
  <1> DEFINE q0 == Reversed(t0)
             q1 == Reversed(t1)
             q2 == Reversed(t2)
             p1 == Reversed(r1)
             p2 == Reversed(r2)
             qa == Reversed(all)
  <1>10. q0 \in Register32 /\ q1 \in Register32 /\ q2 \in Register32 /\ p1 \in Register32 /\ qa \in Register32
    BY <1>2, <1>3, <1>4, <1>9, ReversedIs
  <1>11. Reversed(q2) = t2 /\ Reversed(qa) = all
    BY <1>4, <1>9, ReversedIs
  <1> HIDE DEF q0, q1, q2, p1, p2, qa
  <1>12. q0 \in SUBSET Nat /\ q1 \in SUBSET Nat /\ p1 \in SUBSET Nat /\ q2 \in SUBSET (0..31) /\ qa \in SUBSET (0..31)
    BY <1>10, RegisterIsPoly
  <1>13. Shift(q0, s) \in SUBSET Nat /\ SymDiff(Shift(q0, s), p1) \in SUBSET Nat
    <2>1. Shift(q0, s) \in SUBSET Nat
      BY <1>6, <1>12, InShift
    <2> QED
      BY <1>12, <2>1, DiffInside
  <1>14. Congruent(Shift(q1, s), Shift(SymDiff(Shift(q0, s), p1), s))
    BY <1>6, <1>7, <1>12, <1>13, CongruentShift DEF q0, q1, p1
  <1>15. Shift(SymDiff(Shift(q0, s), p1), s) = SymDiff(Shift(q0, s + s), Shift(p1, s))
    <2> DEFINE z == Shift(q0, s)
    <2>1. z \in SUBSET Nat
      BY <1>13
    <2>2. Shift(z, s) = Shift(q0, s + s)
      BY <1>6, <1>12, ShiftSum
    <2> HIDE DEF z
    <2>3. Shift(SymDiff(z, p1), s) = SymDiff(Shift(z, s), Shift(p1, s))
      BY <1>6, <1>12, <2>1, ShiftDiff
    <2> QED
      BY <2>2, <2>3 DEF z
  <1>16. Congruent(SymDiff(Shift(q1, s), p2), SymDiff(SymDiff(Shift(q0, s + s), Shift(p1, s)), p2))
    BY <1>14, <1>15, SameIsCongruent, CongruentDiff
  <1>17. Congruent(q2, SymDiff(Shift(q1, s), p2))
    BY <1>8 DEF q1, q2, p2
  <1>18. Congruent(qa, SymDiff(SymDiff(Shift(q0, s + s), Shift(p1, s)), p2))
    BY <1>9 DEF q0, p1, p2, qa
  <1>19. Congruent(q2, SymDiff(SymDiff(Shift(q0, s + s), Shift(p1, s)), p2))
    BY <1>16, <1>17, CongruentThrough
  <1>20. Congruent(SymDiff(SymDiff(Shift(q0, s + s), Shift(p1, s)), p2), qa)
    BY <1>18, CongruentBack
  <1>21. Congruent(q2, qa)
    BY <1>19, <1>20, CongruentThrough
  <1>22. q2 = qa
    BY <1>12, <1>21, SmallIsEqual
  <1> QED
    BY <1>5, <1>11, <1>22 DEF t0, r1, r2, all

-----------------------------------------------------------------------------
LEMMA InvertedTwice ==
  ASSUME NEW r \in Register32
  PROVE  Inverted(Inverted(r)) = r
  BY DEF Inverted, Register32

LEMMA CrcOfNone == CrcOf(<<>>) = {}
  <1>1. <<>> \in Seq(Octet) /\ 0..31 \in Register32
    BY DEF Register32
  <1>2. CrcOf(<<>>) = Inverted(0..31)
    BY <1>1, CrcOfTaken, TakenNothing
  <1> QED
    BY <1>2 DEF Inverted

(* A checksum is continued from where the pieces before have brought it.   *)
LEMMA FirstRegister ==
  ASSUME NEW c, CrcCall(c), c.op \in Crcs
  PROVE  /\ (IF c.op = "crc32c" THEN {} ELSE c.prev) = CrcOf(c.before)
         /\ Inverted(IF c.op = "crc32c" THEN {} ELSE c.prev) = Taken(0..31, c.before)
  <1>1. c.before \in Seq(Octet) /\ 0..31 \in Register32
    BY DEF CrcCall, Register32
  <1>2. (IF c.op = "crc32c" THEN {} ELSE c.prev) = CrcOf(c.before)
    BY CrcOfNone DEF CrcCall
  <1>3. CrcOf(c.before) = Inverted(Taken(0..31, c.before))
    BY <1>1, CrcOfTaken
  <1>4. Taken(0..31, c.before) \in Register32
    BY <1>1, TakenType
  <1>5. Inverted(Inverted(Taken(0..31, c.before))) = Taken(0..31, c.before)
    BY <1>4, InvertedTwice
  <1> QED
    BY <1>2, <1>3, <1>5

LEMMA OctetParts ==
  ASSUME NEW s \in Seq(Octet), NEW m \in Nat, NEW n \in Nat, m + n <= Len(s)
  PROVE  /\ SubSeq(s, m + 1, m + n) \in Seq(Octet) /\ Len(SubSeq(s, m + 1, m + n)) = n
         /\ SubSeq(s, 1, m) \in Seq(Octet)
         /\ SubSeq(s, 1, m + n) = SubSeq(s, 1, m) \o SubSeq(s, m + 1, m + n)
  <1> DEFINE a == SubSeq(s, 1, m)
             b == SubSeq(s, m + 1, m + n)
             c == SubSeq(s, 1, m + n)
  <1>1. Len(s) \in Nat /\ \A i \in 1..Len(s) : s[i] \in Octet
    OBVIOUS
  <1>2. a \in Seq(Octet) /\ Len(a) = m /\ \A i \in 1..m : a[i] = s[i]
    <2>1. 1 \in 1..(Len(s) + 1) /\ m \in 0..Len(s) /\ \A i \in 1..m : i \in 1..Len(s)
      BY <1>1
    <2>2. Len(a) = m /\ \A i \in 1..m : a[i] = s[i]
      OBVIOUS
    <2>3. a \in Seq(Octet)
      BY <1>1, <2>1
    <2> QED
      BY <2>2, <2>3
  <1>3. b \in Seq(Octet) /\ Len(b) = n /\ \A i \in 1..n : b[i] = s[m + i]
    <2>1. \A i \in 1..n : m + i \in 1..Len(s) /\ (m + 1) + (i - 1) = m + i
      BY <1>1
    <2>2. Len(b) = n /\ \A i \in 1..n : b[i] = s[m + i]
      BY <2>1
    <2>3. b \in Seq(Octet)
      BY <1>1, <2>1
    <2> QED
      BY <2>2, <2>3
  <1>4. c \in Seq(Octet) /\ Len(c) = m + n /\ \A i \in 1..(m + n) : c[i] = s[i]
    <2>1. \A i \in 1..(m + n) : i \in 1..Len(s)
      BY <1>1
    <2>2. Len(c) = m + n /\ \A i \in 1..(m + n) : c[i] = s[i]
      OBVIOUS
    <2>3. c \in Seq(Octet)
      BY <1>1, <2>1
    <2> QED
      BY <2>2, <2>3
  <1> HIDE DEF a, b, c
  <1>5. c = a \o b
    <2>1. /\ a \o b \in Seq(Octet) /\ Len(a \o b) = m + n
          /\ \A i \in 1..(m + n) : (a \o b)[i] = IF i <= m THEN a[i] ELSE b[i - m]
      <3>1. a \o b \in Seq(Octet) /\ Len(a \o b) = Len(a) + Len(b)
        BY <1>2, <1>3, ConcatProperties
      <3>2. \A i \in 1..(Len(a) + Len(b)) : (a \o b)[i] = IF i <= Len(a) THEN a[i] ELSE b[i - Len(a)]
        BY <1>2, <1>3, ConcatProperties
      <3> QED
        BY <1>2, <1>3, <3>1, <3>2
    <2>2. ASSUME NEW i \in 1..(m + n) PROVE (a \o b)[i] = c[i]
      <3>1. CASE i <= m
        <4>1. i \in 1..m
          BY <3>1
        <4> QED
          BY <1>2, <1>4, <2>1, <3>1, <4>1
      <3>2. CASE ~(i <= m)
        <4>1. i - m \in 1..n /\ m + (i - m) = i
          BY <3>2
        <4> QED
          BY <1>3, <1>4, <2>1, <3>2, <4>1
      <3> QED
        BY <3>1, <3>2
    <2> QED
      BY <1>4, <2>1, <2>2
  <1> QED
    BY <1>2, <1>3, <1>5 DEF a, b, c

LEMMA OctetsAssoc ==
  ASSUME NEW w \in Seq(Octet), NEW d \in Seq(Octet), NEW e \in Seq(Octet)
  PROVE  w \o d \in Seq(Octet) /\ w \o (d \o e) = (w \o d) \o e
  BY ConcatProperties, ConcatAssociative

LEMMA PrefixCancels ==
  ASSUME NEW w \in Seq(Octet), NEW d \in Seq(Octet), NEW e \in Seq(Octet), w \o d = w \o e
  PROVE  d = e
  <1>1. Len(w) + Len(d) = Len(w) + Len(e)
    BY ConcatProperties
  <1>2. Len(d) = Len(e) /\ Len(d) \in Nat
    BY <1>1
  <1>3. ASSUME NEW i \in 1..Len(d) PROVE d[i] = e[i]
    BY <1>2, ConcatProperties
  <1> QED
    BY <1>2, <1>3

LEMMA WholeOctets ==
  ASSUME NEW s \in Seq(Octet)
  PROVE  SubSeq(s, 1, Len(s)) = s /\ SubSeq(s, 1, 0) = <<>> /\ s \o <<>> = s
  OBVIOUS

(* The register, after some more bytes.                                    *)
LEMMA RegisterTakes ==
  ASSUME CrcCall(call), InvRegister, Pending(Crcs), NEW n \in Nat, at + n <= Len(Data)
  PROVE  /\ at \in Nat /\ Data \in Seq(Octet) /\ call.before \o SubSeq(Data, 1, at) \in Seq(Octet)
         /\ Register \in Register32
         /\ Taken(Register, SubSeq(Data, at + 1, at + n)) = Taken(0..31, call.before \o SubSeq(Data, 1, at + n))
  <1>1. Data \in Seq(Octet) /\ call.before \in Seq(Octet) /\ 0..31 \in Register32
    BY DEF CrcCall, Pending, Data, Register32
  <1>2. at \in Nat /\ at \in 0..Len(Data) /\ Register = Taken(0..31, call.before \o SubSeq(Data, 1, at))
    BY <1>1 DEF InvRegister
  <1> DEFINE a == SubSeq(Data, 1, at)
             b == SubSeq(Data, at + 1, at + n)
             c == SubSeq(Data, 1, at + n)
  <1>3. a \in Seq(Octet) /\ b \in Seq(Octet) /\ c = a \o b
    BY <1>1, <1>2, OctetParts
  <1> HIDE DEF a, b, c
  <1>4. call.before \o a \in Seq(Octet) /\ call.before \o c = (call.before \o a) \o b
    BY <1>1, <1>3, OctetsAssoc
  <1>5. Taken(0..31, (call.before \o a) \o b) = Taken(Taken(0..31, call.before \o a), b)
    BY <1>1, <1>3, <1>4, TakenJoins
  <1>6. Register = Taken(0..31, call.before \o a)
    BY <1>2 DEF a
  <1>7. Register \in Register32
    BY <1>1, <1>4, <1>6, TakenType
  <1> QED
    BY <1>1, <1>2, <1>4, <1>5, <1>6, <1>7 DEF a, b, c

LEMMA CrcGoes ==
  ASSUME CrcCall(call), InvRegister, Pending(Crcs), NEW n \in Nat, at + n <= Len(Data),
         Go(at + n, << Taken(Register, SubSeq(Data, at + 1, at + n)) >>)
  PROVE  InvCrc' /\ CrcCall(call')
  <1>1. call' = call /\ result' = "pending" /\ at' = at + n /\ Data' = Data
    BY DEF Go, Pending, Data
  <1>2. at \in Nat /\ Data \in Seq(Octet)
    BY RegisterTakes
  <1>3. output' = << Taken(0..31, call.before \o SubSeq(Data, 1, at + n)) >>
    BY RegisterTakes DEF Go
  <1>4. output' # <<>> /\ Register' = output'[1]
    BY <1>3 DEF Register
  <1>5. Register' = Taken(0..31, call.before \o SubSeq(Data, 1, at + n))
    BY <1>3, <1>4
  <1>6. at' \in 0..Len(Data')
    BY <1>1, <1>2
  <1>7. InvRegister'
    BY <1>1, <1>4, <1>5, <1>6 DEF InvRegister
  <1>8. CrcIsOfMessage'
    BY <1>1 DEF CrcIsOfMessage, Returned
  <1> QED
    BY <1>1, <1>7, <1>8 DEF InvCrc

LEMMA CrcReturns ==
  ASSUME CrcCall(call), InvRegister, Pending(Crcs), Data = <<>> \/ Level # "none",
         NEW written, Return(TRUE, << written >>), written = CrcOf(call.before \o Data)
  PROVE  InvCrc' /\ CrcCall(call')
  <1>1. call' = call /\ result' = "true" /\ output' = << written >>
    BY DEF Return
  <1>2. Data' = Data /\ Level' = Level
    BY <1>1 DEF Data, Level
  <1>3. InvRegister'
    BY <1>1 DEF InvRegister, Pending
  <1>4. CrcIsOfMessage'
    BY <1>1, <1>2 DEF CrcIsOfMessage
  <1> QED
    BY <1>1, <1>3, <1>4 DEF InvCrc

LEMMA PclmulKeeps ==
  ASSUME InvCrc, CrcCall(call), PclmulStep
  PROVE  InvCrc' /\ CrcCall(call')
  <1> DEFINE s == Stream
             n == 3 * s
             a == Bytes(0, s)
             b == Bytes(s, s)
             c == Bytes(2 * s, s)
  <1>1. Pending(Crcs) /\ InvRegister /\ Data \in Seq(Octet) /\ at \in 0..Len(Data)
    BY DEF PclmulStep, InvCrc, InvRegister, CrcCall, Data, Pending
  <1>2. s \in Nat /\ n \in Nat /\ at \in Nat /\ Len(Data) \in Nat
    BY <1>1, StreamIs
  <1>3. at + n <= Len(Data)
    <2>1. Len(Data) - at >= n
      BY DEF PclmulStep, ByStreams, Rest
    <2> QED
      BY <1>2, <2>1
  <1>4. Go(at + n, << Combined(Taken(Register, a), Taken({}, b), Taken({}, c)) >>)
    BY DEF PclmulStep
  <1> HIDE DEF s
  <1>5. /\ a \in Seq(Octet) /\ Len(a) = s /\ b \in Seq(Octet) /\ Len(b) = s
        /\ c \in Seq(Octet) /\ Len(c) = s
        /\ (a \o b) \o c = SubSeq(Data, at + 1, at + n)
    <2>1. /\ (at + 0) + 1 = at + 1 /\ (at + 0) + s = at + s
          /\ at + s \in Nat /\ at + 2 * s \in Nat /\ (at + s) + s = at + 2 * s /\ (at + 2 * s) + s = at + n
          /\ at + s <= Len(Data) /\ (at + s) + s <= Len(Data) /\ (at + 2 * s) + s <= Len(Data)
      BY <1>2, <1>3
    <2>2. a = SubSeq(Data, at + 1, at + s)
      BY <2>1 DEF Bytes
    <2>3. b = SubSeq(Data, (at + s) + 1, (at + s) + s)
      BY DEF Bytes
    <2>4. c = SubSeq(Data, (at + 2 * s) + 1, (at + 2 * s) + s)
      BY DEF Bytes
    <2> DEFINE w == SubSeq(Data, 1, at)
               d == SubSeq(Data, at + 1, at + n)
    <2>5. a \in Seq(Octet) /\ Len(a) = s /\ SubSeq(Data, 1, at + s) = w \o a /\ w \in Seq(Octet)
      <3> HIDE DEF a
      <3> QED
        BY <1>1, <1>2, <2>1, <2>2, OctetParts
    <2>6. b \in Seq(Octet) /\ Len(b) = s /\ SubSeq(Data, 1, at + 2 * s) = SubSeq(Data, 1, at + s) \o b
      BY <1>1, <1>2, <2>1, <2>3, OctetParts
    <2>7. c \in Seq(Octet) /\ Len(c) = s /\ SubSeq(Data, 1, at + n) = SubSeq(Data, 1, at + 2 * s) \o c
      <3> DEFINE z == at + 2 * s
      <3>1. z \in Nat /\ z + s <= Len(Data) /\ z + s = at + n /\ c = SubSeq(Data, z + 1, z + s)
        BY <2>1, <2>4
      <3> HIDE DEF z, c
      <3>2. c \in Seq(Octet) /\ Len(c) = s /\ SubSeq(Data, 1, z + s) = SubSeq(Data, 1, z) \o c
        BY <1>1, <1>2, <3>1, OctetParts
      <3> QED
        BY <3>1, <3>2 DEF z
    <2>8. d \in Seq(Octet) /\ SubSeq(Data, 1, at + n) = w \o d
      BY <1>1, <1>2, <1>3, OctetParts
    <2> HIDE DEF a, b, c, w, d
    <2>9. w \o d = w \o ((a \o b) \o c) /\ (a \o b) \o c \in Seq(Octet)
      <3>1. w \o d = ((w \o a) \o b) \o c
        BY <2>5, <2>6, <2>7, <2>8
      <3>2. w \o a \in Seq(Octet) /\ a \o b \in Seq(Octet) /\ (a \o b) \o c \in Seq(Octet)
        BY <2>5, <2>6, <2>7, OctetsAssoc
      <3>3. (w \o a) \o b = w \o (a \o b)
        BY <2>5, <2>6, OctetsAssoc
      <3>4. (w \o (a \o b)) \o c = w \o ((a \o b) \o c)
        <4> DEFINE z == a \o b
        <4>1. w \in Seq(Octet) /\ z \in Seq(Octet) /\ c \in Seq(Octet)
          BY <2>5, <2>7, <3>2
        <4> HIDE DEF z
        <4>2. (w \o z) \o c = w \o (z \o c)
          BY ONLY <4>1, OctetsAssoc
        <4> QED
          BY <4>2 DEF z
      <3> QED
        BY <3>1, <3>2, <3>3, <3>4
    <2>10. d = (a \o b) \o c
      BY <2>5, <2>8, <2>9, PrefixCancels
    <2> QED
      BY <2>5, <2>6, <2>7, <2>10 DEF d
  <1> HIDE DEF a, b, c
  <1>6. Register \in Register32
    BY <1>1, <1>2, <1>3, RegisterTakes
  <1>7. Combined(Taken(Register, a), Taken({}, b), Taken({}, c)) = Taken(Register, (a \o b) \o c)
    BY <1>5, <1>6, CombinedTakes DEF s
  <1>8. Go(at + n, << Taken(Register, SubSeq(Data, at + 1, at + n)) >>)
    BY <1>4, <1>5, <1>7
  <1> HIDE DEF n
  <1> QED
    BY <1>1, <1>2, <1>3, <1>8, CrcGoes

LEMMA Sse42Keeps ==
  ASSUME InvCrc, CrcCall(call), Sse42Step
  PROVE  InvCrc' /\ CrcCall(call')
  <1> DEFINE n == IF Rest >= 32 THEN 32 ELSE IF Rest >= 8 THEN 8 ELSE 1
  <1>1. Pending(Crcs) /\ InvRegister /\ Data \in Seq(Octet) /\ at \in 0..Len(Data)
    BY DEF Sse42Step, InvCrc, InvRegister, CrcCall, Data, Pending
  <1>2. Len(Data) \in Nat /\ at \in Nat /\ Rest = Len(Data) - at /\ Rest > 0
    BY <1>1 DEF Sse42Step, Rest
  <1>3. n \in Nat /\ at + n <= Len(Data)
    BY <1>2
  <1>4. Go(at + n, << Taken(Register, Bytes(0, n)) >>)
    BY DEF Sse42Step
  <1> HIDE DEF n
  <1>5. Bytes(0, n) = SubSeq(Data, at + 1, at + n)
    <2>1. (at + 0) + 1 = at + 1 /\ (at + 0) + n = at + n
      BY <1>2, <1>3
    <2> QED
      BY <2>1 DEF Bytes
  <1>6. Go(at + n, << Taken(Register, SubSeq(Data, at + 1, at + n)) >>)
    BY <1>4, <1>5
  <1> QED
    BY <1>1, <1>3, <1>6, CrcGoes

LEMMA CrcEndKeeps ==
  ASSUME InvCrc, CrcCall(call), CrcEnd
  PROVE  InvCrc' /\ CrcCall(call')
  <1>1. Pending(Crcs) /\ InvRegister /\ Data \in Seq(Octet) /\ at \in 0..Len(Data) /\ call.before \in Seq(Octet)
    BY DEF CrcEnd, InvCrc, InvRegister, CrcCall, Data, Pending
  <1>2. at = Len(Data) /\ Level # "none" /\ Return(TRUE, << Inverted(Register) >>)
    <2>1. Len(Data) - at = 0 /\ Len(Data) \in Nat /\ at \in Nat
      BY <1>1 DEF CrcEnd, Rest
    <2>2. at = Len(Data)
      BY <2>1
    <2> QED
      BY <2>2 DEF CrcEnd
  <1>3. Register = Taken(0..31, call.before \o Data)
    BY <1>1, <1>2, WholeOctets DEF InvRegister
  <1>4. call.before \o Data \in Seq(Octet)
    BY <1>1
  <1>5. Inverted(Register) = CrcOf(call.before \o Data)
    BY <1>3, <1>4, CrcOfTaken
  <1> QED
    BY <1>1, <1>2, <1>5, CrcReturns

LEMMA CrcOfNothingKeeps ==
  ASSUME InvCrc, CrcCall(call), CrcOfNothing
  PROVE  InvCrc' /\ CrcCall(call')
  <1> DEFINE w == IF call.op = "crc32c" THEN {} ELSE call.prev
  <1>1. Pending(Crcs) /\ InvRegister /\ call.op \in Crcs /\ Data = <<>> /\ call.before \in Seq(Octet)
    BY DEF CrcOfNothing, InvCrc, CrcCall, Pending
  <1>2. Return(TRUE, << w >>)
    BY DEF CrcOfNothing
  <1>3. w = CrcOf(call.before)
    BY <1>1, FirstRegister
  <1>4. call.before \o Data = call.before
    BY <1>1
  <1> HIDE DEF w
  <1> QED
    BY <1>1, <1>2, <1>3, <1>4, CrcReturns

LEMMA CrcUnsupportedKeeps ==
  ASSUME CrcCall(call), CrcUnsupported
  PROVE  InvCrc' /\ CrcCall(call')
  <1>1. call' = call /\ result' = "false" /\ Data # <<>> /\ Level = "none"
    BY DEF CrcUnsupported, Return
  <1>2. Data' = Data /\ Level' = Level
    BY <1>1 DEF Data, Level
  <1> QED
    BY <1>1, <1>2 DEF InvCrc, InvRegister, CrcIsOfMessage, Pending

LEMMA CrcNextPieceKeeps ==
  ASSUME InvCrc, CrcCall(call), CrcNextPiece
  PROVE  InvCrc' /\ CrcCall(call')
  <1>1. /\ call.op \in Crcs /\ result = "true" /\ call.pieces # <<>>
        /\ {"op", "prev", "data", "before", "pieces"} \subseteq DOMAIN call
        /\ Data \in Seq(Octet) /\ call.before \in Seq(Octet) /\ call.pieces \in Seq(Seq(Octet))
    BY DEF CrcNextPiece, CrcCall, Returned, Data
  <1>2. output = << CrcOf(call.before \o Data) >>
    BY <1>1 DEF InvCrc, CrcIsOfMessage, Returned, CrcNextPiece
  <1>3. /\ call' = [call EXCEPT !.op = "crc32c_update", !.prev = output[1],
                                !.data = Head(call.pieces), !.pieces = Tail(call.pieces),
                                !.before = call.before \o Data]
        /\ at' = 0 /\ output' = <<>> /\ result' = "pending"
    BY DEF CrcNextPiece, CallNext
  <1>4. /\ call'.op = "crc32c_update" /\ call'.prev = CrcOf(call.before \o Data)
        /\ call'.data = Head(call.pieces) /\ call'.pieces = Tail(call.pieces)
        /\ call'.before = call.before \o Data /\ DOMAIN call' = DOMAIN call
    BY <1>1, <1>2, <1>3
  <1>5. /\ Head(call.pieces) \in Seq(Octet) /\ Tail(call.pieces) \in Seq(Seq(Octet))
        /\ call.before \o Data \in Seq(Octet)
    BY <1>1
  <1>6. CrcCall(call')
    BY <1>1, <1>4, <1>5 DEF CrcCall
  <1>7. call'.op \in Crcs
    BY <1>4 DEF Crcs
  <1>8. Register' = Taken(0..31, call'.before)
    <2>1. Register' = Inverted(IF call'.op = "crc32c" THEN {} ELSE call'.prev)
      BY <1>3 DEF Register
    <2> QED
      BY <1>6, <1>7, <2>1, FirstRegister
  <1>9. Data' \in Seq(Octet) /\ call'.before \in Seq(Octet)
    BY <1>4, <1>5 DEF Data
  <1>10. call'.before \o SubSeq(Data', 1, at') = call'.before /\ at' \in 0..Len(Data')
    BY <1>3, <1>9
  <1>11. InvRegister'
    BY <1>3, <1>8, <1>10 DEF InvRegister
  <1>12. CrcIsOfMessage'
    BY <1>3 DEF CrcIsOfMessage, Returned
  <1> QED
    BY <1>6, <1>11, <1>12 DEF InvCrc

LEMMA CrcKeeps ==
  ASSUME InvCrc, CrcCall(call), CrcNext
  PROVE  InvCrc' /\ CrcCall(call')
  BY CrcOfNothingKeeps, CrcUnsupportedKeeps, PclmulKeeps, Sse42Keeps, CrcEndKeeps, CrcNextPieceKeeps
     DEF CrcNext

LEMMA CrcBegins ==
  ASSUME CrcCall(call), at = 0, output = <<>>, result = "pending"
  PROVE  InvCrc
  <1>1. CrcIsOfMessage
    BY DEF CrcIsOfMessage, Returned
  <1>2. ASSUME call.op \in Crcs
        PROVE  at \in 0..Len(Data) /\ Register = Taken(0..31, call.before \o SubSeq(Data, 1, at))
    <2>1. Data \in Seq(Octet) /\ call.before \in Seq(Octet)
      BY <1>2 DEF CrcCall, Data
    <2>2. Register = Inverted(IF call.op = "crc32c" THEN {} ELSE call.prev)
      BY DEF Register
    <2>3. Register = Taken(0..31, call.before)
      BY <1>2, <2>2, FirstRegister
    <2>4. call.before \o SubSeq(Data, 1, at) = call.before
      BY <2>1, WholeOctets
    <2>5. at \in 0..Len(Data)
      <3>1. Len(Data) \in Nat /\ at = 0
        BY <2>1
      <3> QED
        BY <3>1
    <2> QED
      BY <2>3, <2>4, <2>5
  <1> QED
    BY <1>1, <1>2 DEF InvCrc, InvRegister, Pending


-----------------------------------------------------------------------------
LEMMA InitConversions == ConversionInit => InvConversions
  <1> SUFFICES ASSUME ConversionInit PROVE InvConversions
    OBVIOUS
  <1>1. call \in Calls /\ at = 0 /\ output = <<>> /\ result = "pending"
    BY DEF ConversionInit
  <1>2. InvCall
    BY <1>1, CallsAssumption DEF InvCall
  <1>3. InvCompare
    <2> SUFFICES ASSUME call.op \in Comparisons, ~LengthsDiffer
                 PROVE  at \in 0..Len(Left) /\ \A p \in 1..at : Agree(p)
      BY DEF InvCompare, Pending
    <2>1. Len(Left) \in Nat
      BY <1>2, Parts DEF InvCall
    <2> QED
      BY <1>1, <2>1
  <1>4. InvLength
    <2> SUFFICES ASSUME call.op \in Lengths PROVE InvLength
      BY DEF InvLength
    <2>1. Vector \in Nat \ {0} /\ call.start \in Nat /\ call.terminators \in SUBSET Nat
      BY <1>2, VectorType, StringCall DEF InvCall
    <2>2. at \in Nat /\ at % Vector = 0
      BY <1>1, <2>1
    <2>3. call.start - (call.start % Vector) \in Nat /\ call.start - (call.start % Vector) <= call.start
      BY <2>1, RoundedDown
    <2>4. Pointer \in Nat /\ Pointer <= call.start
      BY <1>1, <2>3 DEF Pointer
    <2> QED
      BY <2>1, <2>2, <2>4 DEF InvLength
  <1>5. InvInPlace
    <2> SUFFICES ASSUME call.op \in InPlace PROVE at \in 0..Len(call.left) /\ output = [p \in 1..at |-> Stored(p)]
      BY DEF InvInPlace, Pending
    <2>1. Len(call.left) \in Nat
      BY <1>2 DEF InvCall, ScanCall
    <2> QED
      BY <1>1, <2>1
  <1>6. InvAnswered /\ ScanAnswers
    BY <1>1 DEF InvAnswered, ScanAnswers, Returned
  <1>7. InvSleep
    <2> SUFFICES ASSUME call.op \in Sleeps PROVE InvSleep
      BY DEF InvSleep
    <2>1. Requested \in Nat
      BY <1>2, SleepCall
    <2> QED
      BY <1>1, <2>1 DEF InvSleep
  <1>8. InvFormatted /\ TimeIsExact /\ TimeReadsBack
    BY <1>1 DEF InvFormatted, TimeIsExact, TimeReadsBack, Returned
  <1>13. GlobIsLanguage
    BY <1>1 DEF GlobIsLanguage, Returned
  <1>14. InvCrc
    BY <1>1, <1>2, CrcBegins DEF InvCall
  <1>9. InvParse
    <2> SUFFICES ASSUME call.op \in Parses PROVE InvParse
      BY DEF InvParse, Pending
    <2>1. Prefix \in {0, 1} /\ Prefix \in 0..Len(call.text) /\ Len(call.text) \in Nat
      BY <1>2, TextOf
    <2>2. Value = 0
      BY <1>1 DEF Value
    <2>3. DigitsPassed = <<>>
      <3>1. DigitsPassed = SubSeq(call.text, Prefix + 1, Prefix + 0)
        BY <1>1 DEF DigitsPassed
      <3>2. Prefix + 1 \in Int /\ Prefix + 0 \in Int /\ Prefix + 0 < Prefix + 1
        BY <2>1
      <3> QED
        BY <3>1, <3>2, SubSeqEmpty
    <2>4. ValueOf(DigitsPassed, 10) = 0
      <3>1. 10 \in Nat
        OBVIOUS
      <3> QED
        BY <2>3, <3>1, ValueOfNone
    <2>5. at \in 0..(Len(call.text) - Prefix) /\ (Prefix + 1)..(Prefix + at) = {}
      BY <1>1, <2>1
    <2>6. Value \in 0..UnsignedMax
      BY <2>2, NumberTypes
    <2> QED
      BY <2>2, <2>4, <2>5, <2>6 DEF InvParse, UnsignedIntegers
  <1>10. InvNumbers
    BY <1>1, <1>9 DEF InvNumbers, InvWritten, ParsedIsValue, FormattedReads, IntegersReadBack, TextReads,
                      Returned
  <1>11. InvDump
    <2> SUFFICES ASSUME call.op \in Dumps PROVE InvDump
      BY DEF InvDump
    <2>1. /\ Options.bytes_per_line \in Nat /\ call.text \in Seq(Nat) /\ Len(call.text) \in Nat
          /\ call.capacity \in Nat
      BY <1>2, OptionTypes DEF InvCall
    <2>2. PiecesLength(output) = 0 /\ output \in Seq(Pieces)
      BY <1>1, LengthOfNone
    <2>3. SubSeq(call.text, 1, at) = <<>>
      BY <1>1, <2>1, SubSeqEmpty
    <2>4. Shown("byte") = <<>> /\ Shown("ascii") = <<>>
      BY <1>1, ShownOfNone DEF Shown
    <2>5. ASSUME Options.bytes_per_line > 0
          PROVE  at % Options.bytes_per_line = 0 /\ 0 <= Lines(at) * LineLength
      <3> DEFINE w == Options.bytes_per_line
                 m == Lines(at)
                 c == LineLength
      <3>1. w \in Nat \ {0}
        BY <2>1, <2>5
      <3>2. 0 % w = 0 /\ (0 + (w - 1)) \div w \in Nat
        <4> HIDE DEF w
        <4>1. 0 + (w - 1) \in Nat
          BY <3>1
        <4>2. 0 = 0 * w
          BY <3>1
        <4> QED
          BY <3>1, <4>1, <4>2
      <3>3. m \in Nat
        BY <1>1, <3>2 DEF Lines
      <3>4. <<>> \in Seq(Nat) /\ Len(<<>>) <= Options.bytes_per_line /\ 0 \in Nat
        BY <2>1
      <3>5. c \in Nat
        BY <1>2, <3>4, LineIs DEF InvCall
      <3> HIDE DEF m, c
      <3>6. 0 <= m * c
        BY <3>3, <3>5
      <3> QED
        BY <1>1, <3>2, <3>6 DEF m, c
    <2>6. DumpFits
      BY <1>1, <2>1, <2>2 DEF DumpFits
    <2>7. PiecesLength(output) <= call.capacity /\ at \in 0..Len(call.text)
      BY <1>1, <2>1, <2>2
    <2>8. /\ Shown("byte") = SubSeq(call.text, 1, at)
          /\ Shown("ascii") = SubSeq(call.text, 1, at)
      BY <2>3, <2>4, Zenon
    <2>9. ASSUME Options.bytes_per_line > 0
          PROVE  /\ at % Options.bytes_per_line = 0
                 /\ PiecesLength(output) <= Lines(at) * LineLength
      BY <2>2, <2>5, <2>9, Zenon
    <2> QED
      BY <2>2, <2>6, <2>7, <2>8, <2>9, Zenon DEF InvDump
  <1>12. InvCodec
    <2>1. ASSUME call.op \in Encodes PROVE InvEncode /\ Len(output) <= call.capacity
      <3>1. call.capacity \in Nat /\ Text \in Seq(Octets)
        BY <1>2, <2>1 DEF InvCall, CodecCall, Text
      <3>2. Len(Text) \in Nat
        BY <3>1
      <3>3. Groups(Len(Text)) \in Nat
        BY <3>2, WholeGroups
      <3> DEFINE zero == 0
      <3>4. zero \in 0..Groups(Len(Text)) /\ at = zero * Scheme.bytes /\ EncodesTo(output, Text, zero)
        BY <1>1, <3>3, SchemeIs, EncodesNothing
      <3> HIDE DEF zero
      <3>5. \E g \in 0..Groups(Len(Text)) : at = g * Scheme.bytes /\ EncodesTo(output, Text, g)
        BY <3>4
      <3>6. Len(output) = 0
        BY <1>1
      <3> QED
        BY <1>1, <3>1, <3>5, <3>6 DEF InvEncode
    <2>2. ASSUME call.op \in Decodes
          PROVE  /\ InvDecode /\ Len(output) <= call.capacity
                 /\ Len(output) <= (Len(Text) \div Scheme.digits) * Scheme.bytes
      <3>1. call.capacity \in Nat /\ Text \in Seq(Nat) /\ "origin" \notin DOMAIN call
        BY <1>1, <1>2, <2>2, CallsAssumption DEF InvCall, CodecCall, Text
      <3>2. Len(Text) \in Nat /\ Len(output) = 0 /\ output \in Seq(Nat)
        BY <1>1, <3>1
      <3>3. 0 <= (Len(Text) \div Scheme.digits) * Scheme.bytes
        <4> DEFINE x  == Len(Text)
                   dd == Scheme.digits
                   bb == Scheme.bytes
        <4>1. x \in Nat /\ dd \in Nat \ {0} /\ bb \in Nat \ {0}
          BY <3>2, SchemeIs
        <4> HIDE DEF x, dd, bb
        <4>2. x \div dd \in Nat
          BY <4>1
        <4>3. 0 <= (x \div dd) * bb
          BY <4>1, <4>2
        <4> QED
          BY <4>3 DEF x, dd, bb
      <3> DEFINE zero == 0
      <3>4. /\ zero \in 0..Len(Text) /\ at = zero * Scheme.digits /\ at <= Len(Text)
            /\ ~(zero > 0) /\ Len(output) = zero * Scheme.bytes
        BY <1>1, <3>2, SchemeIs
      <3> HIDE DEF zero
      <3>5. \E g \in 0..Len(Text) :
              /\ at = g * Scheme.digits /\ at <= Len(Text)
              /\ g > 0 => DecodeAccepted
              /\ Len(output) = IF g > 0 /\ at = Len(Text)
                               THEN (g - 1) * Scheme.bytes + LastBytes ELSE g * Scheme.bytes
              /\ "origin" \in DOMAIN call => output = SubSeq(call.origin, 1, Len(output))
        BY <3>1, <3>4
      <3>6. Len(output) <= call.capacity
        BY <3>1, <3>2
      <3> QED
        BY <1>1, <3>1, <3>2, <3>3, <3>5, <3>6 DEF InvDecode
    <2>3. InvEncode /\ InvDecode
      BY <2>1, <2>2 DEF InvEncode, InvDecode
    <2>4. CodecRoundTrip
      BY <1>1, <2>1, <2>2 DEF CodecRoundTrip, DecodesEncoded, Returned
    <2> QED
      BY <2>3, <2>4 DEF InvCodec
  <1> QED
    BY <1>2, <1>3, <1>4, <1>5, <1>6, <1>7, <1>8, <1>10, <1>11, <1>12, <1>13, <1>14
       DEF InvConversions, InvScan, InvTime

(* What is not a call of this module's functions has nothing to keep.      *)
LEMMA NoScan ==
  ASSUME call'.op \notin Scans
  PROVE  InvScan' /\ ScanCall(call')
  BY DEF InvScan, InvCompare, InvLength, InvInPlace, InvAnswered, ScanAnswers, ScanCall,
         Pending, Returned, Scans, Comparisons, Lengths, InPlace

LEMMA NoGlob ==
  ASSUME call'.op \notin Globs
  PROVE  GlobIsLanguage' /\ GlobCall(call')
  BY DEF GlobIsLanguage, GlobCall, Returned

LEMMA NoCrc ==
  ASSUME call'.op \notin Crcs
  PROVE  InvCrc' /\ CrcCall(call')
  BY DEF InvCrc, InvRegister, CrcIsOfMessage, CrcCall, Pending, Returned

LEMMA CodecsKeep ==
  ASSUME InvConversions, CodecNext
  PROVE  InvConversions'
  <1>1. InvCall /\ InvCodec /\ "op" \in DOMAIN call
    BY DEF InvConversions, InvCall
  <1>2. "op" \in DOMAIN call' /\ call'.op \in Encodes \cup Decodes
    BY <1>1, CodecsApart
  <1>3. InvCodec' /\ CodecCall(call')
    BY <1>1, InvCodecKeeps
  <1>4. /\ call'.op \notin Scans \cup Times \cup Globs \cup Crcs
        /\ call'.op \notin Parses \cup NumberFormats \cup Dumps
    BY <1>2 DEF Globs, Crcs, Encodes, Decodes, Dumps, Parses, NumberFormats, Scans, Comparisons, Lengths, InPlace,
                Times, OfTime, OfCount, Pairwise, Formats, Sleeps, Readings
  <1> QED
    BY <1>2, <1>3, <1>4, NoScan, NoTime, NoNumber, NoDump, NoGlob, NoCrc DEF InvConversions, InvCall

LEMMA OthersKeep ==
  ASSUME InvConversions, GlobMatch \/ CrcNext
  PROVE  InvConversions'
  <1>1. "op" \in DOMAIN call /\ GlobCall(call) /\ CrcCall(call) /\ InvCrc
    BY DEF InvConversions, InvCall
  <1>2. "op" \in DOMAIN call' /\ call'.op \notin Scans \cup Times \cup Encodes \cup Decodes
          /\ call'.op \notin Parses \cup NumberFormats \cup Dumps
    BY <1>1, GlobsApart, CrcsApart
       DEF Encodes, Decodes, Dumps, Globs, Crcs, Parses, NumberFormats,
           Scans, Comparisons, Lengths, InPlace,
           Times, OfTime, OfCount, Pairwise, Formats, Sleeps, Readings
  <1>3. GlobIsLanguage' /\ GlobCall(call')
    <2>1. CrcNext => call'.op \notin Globs
      BY <1>1, CrcsApart DEF Globs, Crcs
    <2> QED
      BY <1>1, <2>1, GlobMatchKeeps, NoGlob
  <1>4. InvCrc' /\ CrcCall(call')
    <2>1. GlobMatch => call'.op \notin Crcs
      BY <1>1, GlobsApart DEF Globs, Crcs
    <2> QED
      BY <1>1, <2>1, CrcKeeps, NoCrc
  <1> QED
    BY <1>2, <1>3, <1>4, NoCodec, NoScan, NoTime, NoNumber, NoDump DEF InvConversions, InvCall

LEMMA DumpsKeep ==
  ASSUME InvConversions, DumpNext
  PROVE  InvConversions'
  <1>1. InvCall /\ InvDump /\ "op" \in DOMAIN call
    BY DEF InvConversions, InvCall
  <1>2. call'.op \in Dumps /\ "op" \in DOMAIN call' /\ call' = call
    BY <1>1, DumpsApart DEF DumpNext, DumpRefused, DumpLine, DumpEnd, Go, Return
  <1>3. InvDump' /\ DumpCall(call')
    BY <1>1, <1>2, DumpRefusedKeeps, DumpLineKeeps, DumpEndKeeps DEF DumpNext, InvCall
  <1>4. /\ call'.op \notin Scans \cup Times /\ call'.op \notin Parses \cup NumberFormats
        /\ call'.op \notin Encodes \cup Decodes \cup Globs \cup Crcs
    BY <1>2 DEF Dumps, Parses, NumberFormats, Scans, Comparisons, Lengths, InPlace, Encodes, Decodes, Globs, Crcs,
                Times, OfTime, OfCount, Pairwise, Formats, Sleeps, Readings
  <1> QED
    BY <1>2, <1>3, <1>4, NoCodec, NoScan, NoTime, NoNumber, NoGlob, NoCrc DEF InvConversions, InvCall

LEMMA NumbersKeep ==
  ASSUME InvConversions, NumberNext
  PROVE  InvConversions'
  <1>1. InvCall /\ InvNumbers /\ "op" \in DOMAIN call
    BY DEF InvConversions, InvCall
  <1>2. call'.op \in NumberFormats \cup Parses /\ "op" \in DOMAIN call'
    BY <1>1, NumbersApart
  <1>3. InvScan' /\ ScanCall(call') /\ InvTime' /\ TimeCall(call')
    <2>1. call'.op \notin Scans \cup Times
      BY <1>2 DEF NumberFormats, Parses, Scans, Comparisons, Lengths, InPlace,
                  Times, OfTime, OfCount, Pairwise, Formats, Sleeps, Readings
    <2> QED
      BY <2>1, NoScan, NoTime
  <1>4. InvNumbers' /\ NumberCall(call')
    <2>1. ASSUME FormatUnsigned \/ FormatSigned
          PROVE  InvNumbers' /\ call' = call
      BY <1>1, <2>1, FormatKeeps DEF FormatUnsigned, FormatSigned, Write, Return
    <2>2. ASSUME FormatHex \/ FormatHexPadded \/ FormatDouble \/ FormatHuman
                   \/ FormatDuration \/ FormatEscape
          PROVE  InvNumbers' /\ call' = call
      BY <1>1, <2>2, TextFormatKeeps
    <2>3. ASSUME ParseNothing \/ ParseDigit \/ ParseUnsignedEnd \/ ParseSignedEnd
          PROVE  InvNumbers' /\ call' = call
      BY <1>1, <2>3, ParseNothingKeeps, ParseDigitKeeps, ParseUnsignedEndKeeps, ParseSignedEndKeeps
         DEF ParseNothing, ParseDigit, ParseUnsignedEnd, ParseSignedEnd, Failed, Go, Return
    <2>4. call' = call => NumberCall(call')
      BY <1>1 DEF InvCall
    <2> QED
      BY <1>1, <2>1, <2>2, <2>3, <2>4, ParseFormattedKeeps DEF NumberNext
  <1>5. /\ InvDump' /\ DumpCall(call') /\ InvCodec' /\ CodecCall(call')
        /\ GlobIsLanguage' /\ GlobCall(call') /\ InvCrc' /\ CrcCall(call')
    <2>1. /\ call'.op \notin Dumps /\ call'.op \notin Encodes \cup Decodes
          /\ call'.op \notin Globs \cup Crcs
      BY <1>2 DEF NumberFormats, Parses, Dumps, Encodes, Decodes, Globs, Crcs
    <2> QED
      BY <2>1, NoDump, NoCodec, NoGlob, NoCrc
  <1> QED
    BY <1>2, <1>3, <1>4, <1>5 DEF InvConversions, InvCall

LEMMA TimesKeep ==
  ASSUME InvConversions, TimeNext
  PROVE  InvConversions'
  <1>1. InvCall /\ InvTime /\ "op" \in DOMAIN call
    BY DEF InvConversions, InvCall
  <1>2. "op" \in DOMAIN call' /\ call'.op \in Times
    BY <1>1, TimesApart
  <1>3. InvScan' /\ ScanCall(call')
    <2>1. call'.op \notin Scans
      BY <1>2 DEF Times, OfTime, OfCount, Pairwise, Formats, Sleeps, Readings,
                  Scans, Comparisons, Lengths, InPlace
    <2> QED
      BY <2>1, NoScan
  <1>4. InvTime' /\ TimeCall(call')
    <2>1. ASSUME Normalize \/ Add \/ Subtract \/ Compare
          PROVE  InvTime' /\ call' = call
      BY <1>1, <2>1, NormalizeKeeps, SumKeeps, CompareKeeps
         DEF Normalize, Add, Subtract, Compare, Return
    <2>2. ASSUME ToNanoseconds \/ ToMilliseconds \/ FromNanoseconds \/ FromMilliseconds
          PROVE  InvTime' /\ call' = call
      BY <1>1, <2>2, ToUnitsKeep, FromUnitsKeep
         DEF ToNanoseconds, ToMilliseconds, ToUnits, FromNanoseconds, FromMilliseconds, Return
    <2>3. ASSUME StartSleep \/ SleepWhole \/ SleepFailed
          PROVE  InvTime' /\ call' = call
      BY <1>1, <2>3, StartSleepKeeps, SleepWholeKeeps, SleepFailedKeeps
         DEF StartSleep, SleepWhole, SleepFailed, Go, Return
    <2>4. ASSUME FormatIso \/ FormatUtc \/ FormatLocal
          PROVE  InvTime' /\ call' = call
      BY <1>1, <2>4, FormattedKeeps DEF FormatIso, FormatUtc, FormatLocal, Formatted, Return
    <2>5. ASSUME ParseIso \/ ParseUtc
          PROVE  InvTime' /\ call' = call
      BY <1>1, <2>5, ParsedKeeps DEF ParseIso, ParseUtc, Parsed, Return
    <2>6. call' = call => TimeCall(call')
      BY <1>1 DEF InvCall
    <2> QED
      BY <1>1, <2>1, <2>2, <2>3, <2>4, <2>5, <2>6, SleepInterruptedKeeps, HandedOnKeeps DEF TimeNext
  <1>5. /\ InvNumbers' /\ NumberCall(call') /\ InvDump' /\ DumpCall(call') /\ InvCodec' /\ CodecCall(call')
        /\ GlobIsLanguage' /\ GlobCall(call') /\ InvCrc' /\ CrcCall(call')
    <2>1. /\ call'.op \notin Parses \cup NumberFormats /\ call'.op \notin Dumps
          /\ call'.op \notin Encodes \cup Decodes \cup Globs \cup Crcs
      BY <1>2 DEF Times, OfTime, OfCount, Pairwise, Formats, Sleeps, Readings, Parses,
                  NumberFormats, Dumps, Encodes, Decodes, Globs, Crcs
    <2> QED
      BY <2>1, NoNumber, NoDump, NoCodec, NoGlob, NoCrc
  <1> QED
    BY <1>2, <1>3, <1>4, <1>5 DEF InvConversions, InvCall

LEMMA ScansKeep ==
  ASSUME InvConversions, ScanNext
  PROVE  InvConversions'
  <1>1. call' = call /\ InvCall'
    BY ScansApart DEF InvConversions, InvCall
  <1>2. InvScan'
    BY RefuseKeeps, CompareStepKeeps, CompareEndKeeps, LengthKeeps, InPlaceKeeps, InPlaceEndKeeps
       DEF InvConversions, InvCall, ScanNext
  <1>3. InvTime'
    <2>1. call'.op \notin Times
      BY <1>1, ScansApart DEF Scans, Comparisons, Lengths, InPlace,
                              Times, OfTime, OfCount, Pairwise, Formats, Sleeps, Readings
    <2> QED
      BY <2>1, NoTime
  <1>4. InvNumbers' /\ InvDump' /\ InvCodec' /\ GlobIsLanguage' /\ InvCrc'
    <2>1. /\ call'.op \notin Parses \cup NumberFormats /\ call'.op \notin Dumps
          /\ call'.op \notin Encodes \cup Decodes \cup Globs \cup Crcs
      BY <1>1, ScansApart DEF Scans, Comparisons, Lengths, InPlace, Parses, NumberFormats, Dumps,
                              Encodes, Decodes, Globs, Crcs
    <2> QED
      BY <2>1, NoNumber, NoDump, NoCodec, NoGlob, NoCrc
  <1> QED
    BY <1>1, <1>2, <1>3, <1>4 DEF InvConversions

LEMMA StutterKeeps ==
  ASSUME InvConversions, UNCHANGED callVars
  PROVE  InvConversions'
  <1>1. call' = call /\ at' = at /\ output' = output /\ result' = result
    BY DEF callVars
  <1>2. /\ FullLeft' = FullLeft /\ FullRight' = FullRight /\ Left' = Left /\ Right' = Right
        /\ LengthsDiffer' = LengthsDiffer /\ Vector' = Vector /\ Pointer' = Pointer
        /\ \A p : Agree(p)' = Agree(p) /\ Stored(p)' = Stored(p)
    BY <1>1, SameScan DEF Pointer
  <1>3. InvScan'
    BY <1>1, <1>2 DEF InvConversions, InvScan, InvCompare, InvLength, InvInPlace, InvAnswered,
                      ScanAnswers, Pending, Returned
  <1>4. InvTime'
    BY <1>1 DEF InvConversions, InvTime, InvSleep, InvFormatted, TimeIsExact, TimeReadsBack,
                Requested, Returned, Exactly
  <1>5. InvNumbers'
    <2>1. /\ Prefix' = Prefix /\ LeadingDigits' = LeadingDigits /\ Value' = Value
          /\ DigitsPassed' = DigitsPassed
      BY <1>1 DEF Prefix, LeadingDigits, Value, DigitsPassed
    <2>2. InvWritten' /\ InvParse'
      BY <1>1, <2>1 DEF InvConversions, InvNumbers, InvWritten, InvParse, Pending, Returned, Arg
    <2>3. ParsedIsValue'
      BY <1>1, <2>1 DEF InvConversions, InvNumbers, ParsedIsValue, Returned
    <2>4. IntegersReadBack'
      BY <1>1 DEF InvConversions, InvNumbers, FormattedReads, IntegersReadBack, Returned
    <2>5. TextReads'
      <3>1. Arg' = Arg
        BY <1>1 DEF Arg
      <3> QED
        BY <1>1, <3>1 DEF InvConversions, InvNumbers, FormattedReads, TextReads
    <2> QED
      BY <2>2, <2>3, <2>4, <2>5 DEF InvNumbers, FormattedReads
  <1>6. InvDump'
    <2>1. /\ Options' = Options /\ Shown("byte")' = Shown("byte")
          /\ Shown("ascii")' = Shown("ascii") /\ Lines(at)' = Lines(at)
          /\ LineLength' = LineLength
          /\ RequiredCapacity(Len(call.text))' = RequiredCapacity(Len(call.text))
      BY <1>1 DEF Options, Shown, Lines, LineLength, RequiredCapacity
    <2>2. DumpFits' <=> DumpFits
      BY <1>1, <2>1 DEF DumpFits
    <2> QED
      BY <1>1, <2>1, <2>2 DEF InvConversions, InvDump
  <1>7. InvCodec'
    <2>1. /\ Text' = Text /\ Scheme' = Scheme /\ LastBytes' = LastBytes /\ (DecodeAccepted' <=> DecodeAccepted)
          /\ ("origin" \in DOMAIN call' /\ EncodesTo(Text, call.origin, Groups(Len(call.origin)))'
               <=> "origin" \in DOMAIN call /\ EncodesTo(Text, call.origin, Groups(Len(call.origin))))
      BY <1>1, SameText
    <2>2. InvEncode'
      <3> DEFINE Done(n) == EncodesTo(output, Text, n)
      <3>1. Groups(Len(Text))' = Groups(Len(Text))
        BY <2>1 DEF Groups
      <3>2. \A n : Done(n)' <=> Done(n)
        BY <1>1, <2>1 DEF EncodesTo, EncodedGroup
      <3>3. /\ call.op \in Encodes =>
                 /\ Len(output) <= call.capacity
                 /\ result = "pending" => \E g \in 0..Groups(Len(Text)) : at = g * Scheme.bytes /\ Done(g)
                 /\ result = "true" => Done(Groups(Len(Text)))
        BY DEF InvConversions, InvCodec, InvEncode
      <3>4. InvEncode' <=> (call'.op \in Encodes =>
                 /\ Len(output') <= call'.capacity
                 /\ result' = "pending" =>
                      \E g \in 0..Groups(Len(Text))' : at' = g * Scheme.bytes' /\ Done(g)'
                 /\ result' = "true" => EncodesTo(output, Text, Groups(Len(Text)))')
        BY DEF InvEncode
      <3>5. EncodesTo(output, Text, Groups(Len(Text)))' <=> Done(Groups(Len(Text)))
        BY <1>1, <2>1, <3>1 DEF EncodesTo, EncodedGroup
      <3> HIDE DEF Done
      <3> QED
        BY <1>1, <2>1, <3>1, <3>2, <3>3, <3>4, <3>5
    <2>3. InvDecode'
      BY <1>1, <2>1 DEF InvConversions, InvCodec, InvDecode
    <2>4. CodecRoundTrip'
      BY <1>1, <2>1 DEF InvConversions, InvCodec, CodecRoundTrip, DecodesEncoded, Returned
    <2> QED
      BY <2>2, <2>3, <2>4 DEF InvCodec
  <1>8. GlobIsLanguage'
    BY <1>1, SameGlob DEF InvConversions, GlobIsLanguage, Returned
  <1>9. InvCrc'
    <2>1. Data' = Data /\ Level' = Level /\ Register' = Register
      BY <1>1 DEF Data, Level, Register
    <2> QED
      BY <1>1, <2>1 DEF InvConversions, InvCrc, InvRegister, CrcIsOfMessage, Pending, Returned
  <1> QED
    BY <1>1, <1>3, <1>4, <1>5, <1>6, <1>7, <1>8, <1>9 DEF InvConversions, InvCall

(* The inductive invariant of the calls that keep no state.                *)
THEOREM ConversionsInductive == ConversionSpec => []InvConversions
  <1>1. InvConversions /\ [ConversionNext]_callVars => InvConversions'
    BY CodecsKeep, OthersKeep, DumpsKeep, NumbersKeep, TimesKeep, ScansKeep, StutterKeeps DEF ConversionNext
  <1> QED
    BY <1>1, InitConversions, PTL DEF ConversionSpec

(* Comparisons answer as byte by byte, for every two regions and vectors   *)
(* of any width, and every byte is exchanged or lowered once.              *)
THEOREM Answers == ConversionSpec => []ScanAnswers
  <1>1. InvConversions => ScanAnswers
    BY DEF InvConversions, InvScan
  <1> QED
    BY <1>1, ConversionsInductive, PTL

(* The length of a string is found without a load from a page that holds   *)
(* no byte of the string, wherever the string begins and ends.             *)
THEOREM StaysInPages == ConversionSpec => []LengthStaysInPages
  <1>1. InvConversions => LengthStaysInPages
    BY InPages DEF InvConversions, InvCall, InvScan
  <1> QED
    BY <1>1, ConversionsInductive, PTL

(* Times are calculated with as the numbers they stand for, whatever is    *)
(* carried, borrowed or wraps around on the way.                           *)
THEOREM TimesAreExact == ConversionSpec => []TimeIsExact
  <1>1. InvConversions => TimeIsExact
    BY DEF InvConversions, InvTime
  <1> QED
    BY <1>1, ConversionsInductive, PTL

(* A sleep that succeeds lasts as long as requested, however often and     *)
(* whenever it is interrupted.                                             *)
THEOREM SleepsWhole == ConversionSpec => []SleptAsRequested
  <1>1. InvConversions => SleptAsRequested
    <2> SUFFICES ASSUME InvConversions, call.op \in Sleeps PROVE SleptAsRequested
      BY DEF SleptAsRequested
    <2>1. /\ Requested \in Nat /\ at \in 0..Requested
          /\ result = "true" => at = Requested
      BY SleepCall DEF InvConversions, InvTime, InvSleep
    <2>2. at <= Requested
      BY <2>1
    <2> QED
      BY <2>1, <2>2 DEF SleptAsRequested, Requested
  <1> QED
    BY <1>1, ConversionsInductive, PTL

(* A time that was formatted is read back to its second, or refused for    *)
(* one of the reasons named.                                               *)
THEOREM TimesReadBack == ConversionSpec => []TimeReadsBack
  <1>1. InvConversions => TimeReadsBack
    BY DEF InvConversions, InvTime
  <1> QED
    BY <1>1, ConversionsInductive, PTL

(* A number is parsed to its value, of however many digits, or refused     *)
(* because it does not fit: no product or sum on the way wraps around.     *)
THEOREM ParsesExactly == ConversionSpec => []ParsedIsValue
  <1>1. InvConversions => ParsedIsValue
    BY DEF InvConversions, InvNumbers
  <1> QED
    BY <1>1, ConversionsInductive, PTL

(* Every integer that was formatted, the smallest and the largest          *)
(* included, is parsed to itself, to the last of its characters.           *)
THEOREM IntegersAreReadBack == ConversionSpec => []IntegersReadBack
  <1>1. InvConversions => IntegersReadBack
    BY DEF InvConversions, InvNumbers, FormattedReads
  <1> QED
    BY <1>1, ConversionsInductive, PTL

(* Every text that was formatted says what it stands for: hexadecimal      *)
(* digits the value, as far as they were requested, and an escape its code *)
(* point; a fraction, a size and a duration are within half of the last    *)
(* digit shown, in the unit shown, and the rounding of doubles, and the    *)
(* nearest number of so many digits where nothing is rounded.  This holds  *)
(* for all numbers, any number of digits and doubles of any precision,     *)
(* whether the product and the sum are rounded together or apart.          *)
THEOREM FormatsAreRead == ConversionSpec => []FormattedReads
  <1>1. InvConversions => FormattedReads
    BY DEF InvConversions, InvNumbers
  <1> QED
    BY <1>1, ConversionsInductive, PTL

(* What was encoded is decoded to the same bytes, with no room to spare,   *)
(* for texts of every length, or refused for the one length that base32    *)
(* cannot decode; neither way writes past its capacity.                    *)
THEOREM CodecsRoundTrip == ConversionSpec => []CodecRoundTrip
  <1>1. InvConversions => CodecRoundTrip
    BY DEF InvConversions, InvCodec
  <1> QED
    BY <1>1, ConversionsInductive, PTL

(* A text matches a pattern if and only if it is made of pieces that the   *)
(* tokens of the pattern stand for: no star gives up too early, none       *)
(* crosses a slash that it may not, and no class is read past its end; for *)
(* every pattern, text and choice of options.                              *)
THEOREM GlobsAreMatched == ConversionSpec => []GlobIsLanguage
  <1>1. InvConversions => GlobIsLanguage
    BY DEF InvConversions
  <1> QED
    BY <1>1, ConversionsInductive, PTL

(* A checksum is the remainder of the whole message, for messages of every *)
(* length, however they are cut into pieces and whichever instructions     *)
(* take them in, streams of any length combined three at a time included.  *)
THEOREM ChecksumsAreOfMessages == ConversionSpec => []CrcIsOfMessage
  <1>1. InvConversions => CrcIsOfMessage
    BY DEF InvConversions, InvCrc
  <1> QED
    BY <1>1, ConversionsInductive, PTL

(* A dump never passes its capacity, succeeds whenever it was given the    *)
(* capacity announced, and then shows every byte once, in order, whatever  *)
(* the length, the width of a line and the columns asked for.              *)
THEOREM DumpsFit == ConversionSpec => []DumpFits
  <1>1. InvConversions => DumpFits
    BY DEF InvConversions, InvDump, DumpFits
  <1> QED
    BY <1>1, ConversionsInductive, PTL
=============================================================================
