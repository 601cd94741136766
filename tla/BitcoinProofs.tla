---------------------------- MODULE BitcoinProofs ----------------------------
(***************************************************************************)
(* Proofs about HdKeys, Codecs and Psbt, as MCBitcoin runs them, for any   *)
(* order of the group, answers of the oracle and paths, any bytes of any   *)
(* length, any entropy, any message and any amounts.                       *)
(*                                                                         *)
(* The library's induction theorems take an operator as a parameter.  The  *)
(* ones here take a set instead, of the numbers or sequences with some     *)
(* property, and so can be cited.                                          *)
(***************************************************************************)
EXTENDS MCBitcoin, FiniteSetTheorems, SequenceTheorems, WellFoundedInduction, TLAPS

(***************************************************************************)
(* Induction and recursion.                                                *)
(***************************************************************************)

\* A set of natural numbers has a least one.
LEMMA Least ==
  ASSUME NEW S, S \subseteq Nat, S # {}
  PROVE  \E n \in S : \A m \in S : n <= m
<1>1. PICK n \in S : \A m \in S : ~(<<m, n>> \in OpToRel(<, Nat))
  BY NatLessThanWellFounded, WFMin
<1>2. \A m \in S : ~(m < n)
  BY <1>1 DEF OpToRel
<1>. QED
  BY <1>2

\* Induction, over a set instead of a predicate.
LEMMA NatInSet ==
  ASSUME NEW T, 0 \in T, \A n \in Nat : n \in T => n + 1 \in T
  PROVE  \A n \in Nat : n \in T
<1>. DEFINE S == {n \in Nat : n \notin T}
<1>. SUFFICES ASSUME S # {} PROVE FALSE
  OBVIOUS
<1>1. S \subseteq Nat
  OBVIOUS
<1>2. PICK n \in S : \A m \in S : n <= m
  <2>. HIDE DEF S
  <2>. QED
    BY <1>1, Least
<1>3. n - 1 \in Nat /\ (n - 1) + 1 = n /\ n - 1 \notin S
  BY <1>2
<1>. QED
  BY <1>2, <1>3

\* Induction over sequences, which grow at their end.
LEMMA SeqInSet ==
  ASSUME NEW S, NEW T, <<>> \in T, \A s \in Seq(S), d \in S : s \in T => Append(s, d) \in T
  PROVE  \A s \in Seq(S) : s \in T
<1>. DEFINE L == {n \in Nat : \A s \in Seq(S) : Len(s) = n => s \in T}
<1>1. 0 \in L
  BY EmptySeq
<1>2. ASSUME NEW n \in Nat, n \in L PROVE n + 1 \in L
  <2>. SUFFICES ASSUME NEW s \in Seq(S), Len(s) = n + 1 PROVE s \in T
    OBVIOUS
  <2>1. PICK t \in Seq(S), d \in S : s = Append(t, d)
    <3>1. s # <<>>
      BY <1>2
    <3>. QED
      BY <3>1, SequenceEmptyOrAppend
  <2>2. Len(t) = n
    BY <1>2, <2>1, AppendProperties
  <2>. QED
    BY <1>2, <2>1, <2>2
<1>3. \A n \in Nat : n \in L
  <2>. HIDE DEF L
  <2>. QED
    BY <1>1, <1>2, NatInSet
<1>. QED
  BY <1>3

\* A function of 0, 1, ... may be defined from its last value.
Recursive(f, A, a, N, step) ==
  f \in [0..N -> A] /\ f[0] = a /\ \A n \in 1..N : f[n] = step[<<f[n - 1], n>>]

\* Some function is defined by it.
LEMMA Recursion ==
  ASSUME NEW A, NEW a \in A, NEW N \in Nat, NEW step \in [A \X (1..N) -> A]
  PROVE  \E f : Recursive(f, A, a, N, step)
<1>. DEFINE Ok(f, m) == /\ f \in [0..m -> A] /\ f[0] = a
                        /\ \A n \in 1..m : f[n] = step[<<f[n - 1], n>>]
            T == {m \in Nat : m <= N => \E f : Ok(f, m)}
<1>1. 0 \in T
  <2>1. Ok([i \in 0..0 |-> a], 0)
    OBVIOUS
  <2>. QED
    BY <2>1
<1>2. ASSUME NEW m \in Nat, m \in T PROVE m + 1 \in T
  <2>. SUFFICES ASSUME m + 1 <= N PROVE \E f : Ok(f, m + 1)
    OBVIOUS
  <2>1. PICK f : Ok(f, m)
    BY <1>2
  <2>. DEFINE x == step[<<f[m], m + 1>>]
              g == [i \in 0..(m + 1) |-> IF i = m + 1 THEN x ELSE f[i]]
  <2>2. x \in A
    <3>1. m \in 0..m /\ m + 1 \in 1..N
      OBVIOUS
    <3>. QED
      BY <2>1, <3>1
  <2>. HIDE DEF x
  <2>3. g \in [0..(m + 1) -> A] /\ g[0] = a
    BY <2>1, <2>2
  <2>4. ASSUME NEW n \in 1..(m + 1) PROVE g[n] = step[<<g[n - 1], n>>]
    <3>1. CASE n = m + 1
      <4>1. g[n] = x /\ g[n - 1] = f[m]
        BY <3>1
      <4>. QED
        BY <3>1, <4>1 DEF x
    <3>2. CASE n # m + 1
      <4>1. g[n] = f[n] /\ g[n - 1] = f[n - 1] /\ n \in 1..m
        BY <3>2
      <4>. QED
        BY <2>1, <4>1
    <3>. QED
      BY <3>1, <3>2
  <2>. QED
    BY <2>3, <2>4
<1>3. N \in T
  <2>. HIDE DEF T
  <2>. QED
    BY <1>1, <1>2, NatInSet
<1>. QED
  BY <1>3 DEF Recursive

\* What Readings computes.
LEMMA ReadingsAre ==
  ASSUME NEW s \in Seq(Int), NEW r \in Int
  PROVE  /\ Readings(s, r) \in [0..Len(s) -> Int] /\ Readings(s, r)[0] = 0
         /\ \A n \in 1..Len(s) : Readings(s, r)[n] = r * Readings(s, r)[n - 1] + s[n]
<1>. DEFINE N == Len(s)
            step == [p \in Int \X (1..N) |-> r * p[1] + s[p[2]]]
            F(v) == [n \in 0..N |-> IF n = 0 THEN 0 ELSE r * v[n - 1] + s[n]]
<1>1. N \in Nat /\ \A n \in 1..N : s[n] \in Int
  OBVIOUS
<1>2. \A n \in 1..N : \A x \in Int : step[<<x, n>>] = r * x + s[n] /\ r * x + s[n] \in Int
  BY <1>1
<1>3. PICK f \in [0..N -> Int] : f[0] = 0 /\ \A n \in 1..N : f[n] = step[<<f[n - 1], n>>]
  <2>. DEFINE A == Int  a == 0
  <2>1. step \in [A \X (1..N) -> A]
    BY <1>1
  <2>2. a \in A /\ N \in Nat
    BY <1>1
  <2>3. \E f : Recursive(f, A, a, N, step)
    <3>. HIDE DEF step, N, A, a
    <3>. QED
      BY <2>1, <2>2, Recursion
  <2>. QED
    BY <2>3 DEF Recursive
<1>. HIDE DEF step, N
<1>4. ASSUME NEW n \in 1..N
      PROVE  n \in 0..N /\ n # 0 /\ n - 1 \in 0..N /\ f[n] = r * f[n - 1] + s[n]
  <2>1. n \in 0..N /\ n # 0 /\ n - 1 \in 0..N
    BY <1>1
  <2>2. f[n - 1] \in Int
    BY <1>3, <2>1
  <2>. QED
    BY <1>2, <1>3, <2>1, <2>2
<1>5. f = F(f)
  BY <1>1, <1>3, <1>4
<1>6. Readings(s, r) = CHOOSE v : v = F(v)
  BY DEF Readings, N
<1>. DEFINE v == Readings(s, r)
<1>7. v = F(v)
  <2>. HIDE DEF F
  <2>. QED
    BY <1>5, <1>6
<1>. HIDE DEF v
<1>8. v \in [0..N -> Int]
  <2>. DEFINE T == {n \in Nat : n <= N => v[n] = f[n]}
  <2>1. 0 \in T
    BY <1>1, <1>3, <1>7
  <2>2. ASSUME NEW n \in Nat, n \in T PROVE n + 1 \in T
    <3>. SUFFICES ASSUME n + 1 <= N PROVE v[n + 1] = f[n + 1]
      OBVIOUS
    <3>1. n + 1 \in 1..N /\ (n + 1) - 1 = n /\ v[n] = f[n] /\ n + 1 \in 0..N /\ n + 1 # 0
      BY <1>1, <2>2
    <3>2. v[n + 1] = r * v[(n + 1) - 1] + s[n + 1]
      BY <1>7, <3>1
    <3>. QED
      BY <1>4, <3>1, <3>2
  <2>3. \A n \in Nat : n \in T
    <3>. HIDE DEF T
    <3>. QED
      BY <2>1, <2>2, NatInSet
  <2>4. \A n \in 0..N : v[n] \in Int
    BY <1>3, <2>3
  <2>5. DOMAIN v = 0..N /\ v = [n \in 0..N |-> v[n]]
    BY <1>7
  <2>. QED
    BY <2>4, <2>5
<1>9. v[0] = 0
  <2>1. 0 \in 0..N
    BY <1>1
  <2>. QED
    BY <1>7, <2>1
<1>10. \A n \in 1..N : v[n] = r * v[n - 1] + s[n]
  BY <1>4, <1>7
<1>. QED
  BY <1>8, <1>9, <1>10 DEF v, N

\* The first digits alone decide what is read of them.
LEMMA SameReadings ==
  ASSUME NEW s \in Seq(Int), NEW t \in Seq(Int), NEW r \in Int, NEW N \in Nat,
         N <= Len(s), N <= Len(t), \A i \in 1..N : s[i] = t[i]
  PROVE  Readings(s, r)[N] = Readings(t, r)[N]
<1>. DEFINE v == Readings(s, r)  w == Readings(t, r)  T == {n \in Nat : n <= N => v[n] = w[n]}
<1>1. v[0] = 0 /\ \A n \in 1..Len(s) : v[n] = r * v[n - 1] + s[n]
  BY ReadingsAre
<1>2. w[0] = 0 /\ \A n \in 1..Len(t) : w[n] = r * w[n - 1] + t[n]
  BY ReadingsAre
<1>. HIDE DEF v, w
<1>3. ASSUME NEW n \in Nat, n \in T PROVE n + 1 \in T
  <2>. SUFFICES ASSUME n + 1 <= N PROVE v[n + 1] = w[n + 1]
    OBVIOUS
  <2>1. n + 1 \in 1..Len(s) /\ n + 1 \in 1..Len(t) /\ n + 1 \in 1..N /\ (n + 1) - 1 = n
    OBVIOUS
  <2>2. v[n + 1] = r * v[n] + s[n + 1] /\ w[n + 1] = r * w[n] + t[n + 1]
    BY <1>1, <1>2, <2>1
  <2>. QED
    BY <1>3, <2>1, <2>2
<1>4. N \in T
  <2>1. 0 \in T
    BY <1>1, <1>2
  <2>. HIDE DEF T
  <2>. QED
    BY <1>3, <2>1, NatInSet
<1>. QED
  BY <1>4 DEF v, w

\* No digits make zero, one more digit multiplies by the radix.
LEMMA ValueEmpty == ASSUME NEW r \in Int PROVE Value(<<>>, r) = 0
<1>1. <<>> \in Seq(Int) /\ Len(<<>>) = 0
  OBVIOUS
<1>. QED
  BY <1>1, ReadingsAre DEF Value

\* What is read is a number.
LEMMA ValueInt == ASSUME NEW s \in Seq(Int), NEW r \in Int PROVE Value(s, r) \in Int
<1>1. Len(s) \in 0..Len(s)
  OBVIOUS
<1>. QED
  BY <1>1, ReadingsAre DEF Value

\* One digit more multiplies by the radix.
LEMMA ValueAppend ==
  ASSUME NEW s \in Seq(Int), NEW d \in Int, NEW r \in Int
  PROVE  Value(Append(s, d), r) = r * Value(s, r) + d
<1>. DEFINE t == Append(s, d)  n == Len(s)
<1>1. /\ t \in Seq(Int) /\ n \in Nat /\ Len(t) = n + 1
      /\ \A i \in 1..n : t[i] = s[i]
      /\ t[n + 1] = d
  BY AppendProperties
<1>. HIDE DEF t, n
<1>2. Readings(t, r)[n + 1] = r * Readings(t, r)[n] + d
  <2>1. n + 1 \in 1..Len(t) /\ (n + 1) - 1 = n
    BY <1>1
  <2>2. Readings(t, r)[n + 1] = r * Readings(t, r)[(n + 1) - 1] + t[n + 1]
    BY <1>1, <2>1, ReadingsAre
  <2>. QED
    BY <1>1, <2>1, <2>2
<1>3. Readings(t, r)[n] = Readings(s, r)[n]
  <2>1. n <= Len(s) /\ n <= Len(t)
    BY <1>1 DEF n
  <2>. QED
    BY <1>1, <2>1, SameReadings
<1>. QED
  BY <1>1, <1>2, <1>3 DEF Value, t, n

(***************************************************************************)
(* Digits: a number grows by one digit at its end, and n digits hold the   *)
(* numbers below the n-th power of the radix.                              *)
(***************************************************************************)

\* Appending to the second part appends to both.
LEMMA ConcatAppend ==
  ASSUME NEW y \in Seq(Int), NEW x \in Seq(Int), NEW d \in Int
  PROVE  y \o Append(x, d) = Append(y \o x, d)
<1>1. /\ y \o Append(x, d) \in Seq(Int) /\ Append(y \o x, d) \in Seq(Int)
      /\ Len(y \o Append(x, d)) = Len(Append(y \o x, d))
  OBVIOUS
<1>2. \A i \in 1..Len(y \o Append(x, d)) : (y \o Append(x, d))[i] = Append(y \o x, d)[i]
  OBVIOUS
<1>. QED
  BY <1>1, <1>2, SeqEqual

\* What has been read goes on the same whatever digits it was read from.
LEMMA ContinueSame ==
  ASSUME NEW u \in Seq(Int), NEW w \in Seq(Int), NEW t \in Seq(Int), NEW r \in Int,
         Value(u, r) = Value(w, r)
  PROVE  Value(u \o t, r) = Value(w \o t, r)
<1>. DEFINE T == {x \in Seq(Int) : Value(u \o x, r) = Value(w \o x, r)}
<1>1. <<>> \in T
  BY EmptySeq, ConcatEmptySeq
<1>2. ASSUME NEW x \in Seq(Int), NEW d \in Int, x \in T PROVE Append(x, d) \in T
  <2>1. ASSUME NEW y \in Seq(Int) PROVE y \o Append(x, d) = Append(y \o x, d)
    BY ConcatAppend
  <2>2. u \o x \in Seq(Int) /\ w \o x \in Seq(Int) /\ Append(x, d) \in Seq(Int)
    OBVIOUS
  <2>3. Value(u \o x, r) = Value(w \o x, r)
    BY <1>2
  <2>4. Value(Append(u \o x, d), r) = r * Value(u \o x, r) + d
    BY <2>2, ValueAppend
  <2>5. Value(Append(w \o x, d), r) = r * Value(w \o x, r) + d
    BY <2>2, ValueAppend
  <2>. QED
    BY <2>1, <2>2, <2>3, <2>4, <2>5
<1>3. t \in T
  <2>. HIDE DEF T
  <2>. QED
    BY <1>1, <1>2, SeqInSet
<1>. QED
  BY <1>3

\* Natural digits make a natural number.
LEMMA ValueNat == ASSUME NEW s \in Seq(Nat), NEW r \in Nat PROVE Value(s, r) \in Nat
<1>. DEFINE T == {x \in Seq(Nat) : Value(x, r) \in Nat}
<1>1. <<>> \in T
  BY EmptySeq, ValueEmpty
<1>2. ASSUME NEW x \in Seq(Nat), NEW d \in Nat, x \in T PROVE Append(x, d) \in T
  <2>1. x \in Seq(Int) /\ Append(x, d) \in Seq(Nat)
    BY AppendProperties
  <2>2. Value(Append(x, d), r) = r * Value(x, r) + d
    BY <2>1, ValueAppend
  <2>3. \A v \in Nat : r * v + d \in Nat
    OBVIOUS
  <2>4. Value(x, r) \in Nat
    BY <1>2
  <2>. QED
    BY <2>1, <2>2, <2>3, <2>4
<1>3. s \in T
  <2>. HIDE DEF T
  <2>. QED
    BY <1>1, <1>2, SeqInSet
<1>. QED
  BY <1>3

\* A number is zero when all its digits are.
LEMMA ValueZero ==
  ASSUME NEW s \in Seq(Nat), NEW r \in Nat \ {0}
  PROVE  Value(s, r) = 0 <=> \A i \in DOMAIN s : s[i] = 0
<1>. DEFINE Zeros(x) == \A i \in 1..Len(x) : x[i] = 0
            T == {x \in Seq(Nat) : Value(x, r) = 0 <=> Zeros(x)}
<1>1. <<>> \in T
  BY EmptySeq, ValueEmpty
<1>2. ASSUME NEW x \in Seq(Nat), NEW d \in Nat, x \in T PROVE Append(x, d) \in T
  <2>. DEFINE y == Append(x, d)  n == Len(x)  V == Value(x, r)
  <2>1. /\ x \in Seq(Int) /\ y \in Seq(Nat) /\ n \in Nat /\ Len(y) = n + 1
        /\ \A i \in 1..n : y[i] = x[i]
        /\ y[n + 1] = d
    BY AppendProperties
  <2>2. Value(y, r) = r * V + d
    BY <2>1, ValueAppend
  <2>3. V \in Nat
    BY ValueNat
  <2>4. r * V + d = 0 <=> V = 0 /\ d = 0
    <3>. HIDE DEF V
    <3>1. V # 0 => r * V >= V
      BY <2>3
    <3>. QED
      BY <2>3, <3>1
  <2>5. Zeros(y) <=> Zeros(x) /\ d = 0
    <3>. HIDE DEF y
    <3>1. \A i \in 1..(n + 1) : i \in 1..n \/ i = n + 1
      BY <2>1
    <3>2. \A i \in 1..n : i \in 1..(n + 1)
      BY <2>1
    <3>3. n + 1 \in 1..(n + 1)
      BY <2>1
    <3>. QED
      BY <2>1, <3>1, <3>2, <3>3
  <2>6. V = 0 <=> Zeros(x)
    BY <1>2
  <2>. QED
    BY <2>1, <2>2, <2>4, <2>5, <2>6
<1>3. s \in T
  <2>. HIDE DEF T
  <2>. QED
    BY <1>1, <1>2, SeqInSet
<1>. QED
  BY <1>3

\* A digit is its own value.
LEMMA ValueOne ==
  ASSUME NEW d \in Int, NEW r \in Int
  PROVE  Value(Append(<<>>, d), r) = d
<1>. DEFINE e == <<>>
<1>1. e \in Seq(Int)
  OBVIOUS
<1>2. Value(e, r) = 0
  BY ValueEmpty
<1>. HIDE DEF e
<1>3. Value(Append(e, d), r) = r * Value(e, r) + d
  BY <1>1, ValueAppend
<1>. QED
  BY <1>2, <1>3 DEF e

\* Powers.
LEMMA PowerZero == ASSUME NEW r \in Int PROVE Power(r, 0) = 1
<1>. DEFINE s == [i \in 1..(0 + 1) |-> IF i = 1 THEN 1 ELSE 0]
<1>1. s = Append(<<>>, 1)
  OBVIOUS
<1>2. Value(Append(<<>>, 1), r) = 1
  BY ValueOne
<1>. QED
  BY <1>1, <1>2 DEF Power

\* One zero more multiplies by the radix.
LEMMA PowerNext ==
  ASSUME NEW r \in Int, NEW n \in Nat
  PROVE  Power(r, n) \in Int /\ Power(r, n + 1) = r * Power(r, n)
<1>. DEFINE OneZeros(m) == [i \in 1..(m + 1) |-> IF i = 1 THEN 1 ELSE 0]
<1>1. OneZeros(n) \in Seq(Int) /\ OneZeros(n + 1) = Append(OneZeros(n), 0)
  <2>1. OneZeros(n) \in Seq(Int) /\ Len(OneZeros(n)) = n + 1
    OBVIOUS
  <2>2. OneZeros(n + 1) = Append(OneZeros(n), 0)
    OBVIOUS
  <2>. QED
    BY <2>1, <2>2
<1>2. Power(r, n) = Value(OneZeros(n), r) /\ Power(r, n + 1) = Value(OneZeros(n + 1), r)
  BY DEF Power
<1>3. Value(Append(OneZeros(n), 0), r) = r * Value(OneZeros(n), r) + 0
  <2>. HIDE DEF OneZeros
  <2>. QED
    BY <1>1, ValueAppend
<1>4. Value(OneZeros(n), r) \in Int
  <2>. HIDE DEF OneZeros
  <2>. QED
    BY <1>1, ValueInt
<1>. HIDE DEF OneZeros
<1>5. \A v \in Int : r * v + 0 = r * v
  OBVIOUS
<1>6. Power(r, n) \in Int
  BY <1>2, <1>4
<1>7. Power(r, n + 1) = r * Value(OneZeros(n), r)
  BY <1>1, <1>2, <1>3, <1>4, <1>5
<1>. QED
  BY <1>2, <1>6, <1>7

\* Powers of a positive radix only grow.
LEMMA PowerPositive == ASSUME NEW r \in Nat \ {0} PROVE \A n \in Nat : Power(r, n) \in Nat \ {0}
<1>. DEFINE T == {n \in Nat : Power(r, n) \in Nat \ {0}}
<1>1. 0 \in T
  BY PowerZero
<1>2. ASSUME NEW n \in Nat, n \in T PROVE n + 1 \in T
  <2>1. Power(r, n) \in Nat \ {0} /\ Power(r, n + 1) = r * Power(r, n)
    BY <1>2, PowerNext
  <2>2. \A p \in Nat \ {0} : r * p \in Nat \ {0}
    OBVIOUS
  <2>. QED
    BY <2>1, <2>2
<1>3. \A n \in Nat : n \in T
  <2>. HIDE DEF T
  <2>. QED
    BY <1>1, <1>2, NatInSet
<1>. QED
  BY <1>3

\* Powers grow.
LEMMA PowerGrows ==
  ASSUME NEW r \in Nat \ {0}, NEW m \in Nat, NEW n \in Nat, m <= n
  PROVE  Power(r, m) <= Power(r, n)
<1>. DEFINE T == {k \in Nat : Power(r, m) <= Power(r, m + k)}
<1>1. 0 \in T
  BY PowerPositive
<1>2. ASSUME NEW k \in Nat, k \in T PROVE k + 1 \in T
  <2>1. m + k \in Nat /\ (m + k) + 1 = m + (k + 1)
    OBVIOUS
  <2>2. Power(r, m + k) \in Nat /\ Power(r, m) \in Nat
        /\ Power(r, (m + k) + 1) = r * Power(r, m + k)
    BY <2>1, PowerPositive, PowerNext
  <2>3. \A p \in Nat : p <= r * p /\ r * p \in Nat
    OBVIOUS
  <2>4. Power(r, m + k) <= Power(r, (m + k) + 1)
    BY <2>2, <2>3
  <2>5. Power(r, m) <= Power(r, m + k)
    BY <1>2
  <2>6. Power(r, (m + k) + 1) \in Nat
    BY <2>2, <2>3
  <2>7. Power(r, m) <= Power(r, (m + k) + 1)
    BY <2>2, <2>4, <2>5, <2>6
  <2>. QED
    BY <2>1, <2>7
<1>3. \A k \in Nat : k \in T
  <2>. HIDE DEF T
  <2>. QED
    BY <1>1, <1>2, NatInSet
<1>4. n - m \in Nat /\ m + (n - m) = n
  OBVIOUS
<1>. QED
  BY <1>3, <1>4

\* A product of powers.
LEMMA PowerAdds ==
  ASSUME NEW r \in Int, NEW m \in Nat
  PROVE  \A n \in Nat : Power(r, m + n) = Power(r, m) * Power(r, n)
<1>. DEFINE T == {n \in Nat : Power(r, m + n) = Power(r, m) * Power(r, n)}
<1>0. Power(r, m) \in Int
  BY PowerNext
<1>1. 0 \in T
  <2>1. Power(r, 0) = 1 /\ m + 0 = m
    BY PowerZero
  <2>2. Power(r, m) * 1 = Power(r, m)
    BY <1>0
  <2>. QED
    BY <2>1, <2>2
<1>2. ASSUME NEW n \in Nat, n \in T PROVE n + 1 \in T
  <2>1. m + n \in Nat /\ (m + n) + 1 = m + (n + 1)
    OBVIOUS
  <2>2. Power(r, (m + n) + 1) = r * Power(r, m + n) /\ Power(r, n + 1) = r * Power(r, n)
        /\ Power(r, n) \in Int
    BY <2>1, PowerNext
  <2>3. \A p, q \in Int : r * (p * q) = p * (r * q)
    OBVIOUS
  <2>4. Power(r, m + n) = Power(r, m) * Power(r, n)
    BY <1>2
  <2>. QED
    BY <1>0, <2>1, <2>2, <2>3, <2>4
<1>3. \A n \in Nat : n \in T
  <2>. HIDE DEF T
  <2>. QED
    BY <1>1, <1>2, NatInSet
<1>. QED
  BY <1>3

\* A number is below the power its digits reach, and not below that of its digits after
\* the first one, unless this is zero.
LEMMA ValueBelow ==
  ASSUME NEW r \in Nat \ {0}, NEW s \in Seq(0..(r - 1))
  PROVE  Value(s, r) < Power(r, Len(s))
<1>. DEFINE S == 0..(r - 1)  T == {x \in Seq(S) : Value(x, r) + 1 <= Power(r, Len(x))}
<1>1. <<>> \in T
  BY EmptySeq, ValueEmpty, PowerZero
<1>2. ASSUME NEW x \in Seq(S), NEW d \in S, x \in T PROVE Append(x, d) \in T
  <2>1. /\ x \in Seq(Int) /\ d \in Int /\ Append(x, d) \in Seq(S)
        /\ Len(Append(x, d)) = Len(x) + 1 /\ Len(x) \in Nat
    BY AppendProperties
  <2>. HIDE DEF S
  <2>2. Value(Append(x, d), r) = r * Value(x, r) + d
    BY <2>1, ValueAppend
  <2>7. Value(x, r) \in Int
    BY <2>1, ValueInt
  <2>3. Power(r, Len(x)) \in Int /\ Power(r, Len(x) + 1) = r * Power(r, Len(x))
    BY <2>1, PowerNext
  <2>4. Value(x, r) + 1 <= Power(r, Len(x))
    BY <1>2
  <2>5. \A v, p \in Int : v + 1 <= p => r * v + d + 1 <= r * p
    <3>. SUFFICES ASSUME NEW v \in Int, NEW p \in Int, v + 1 <= p PROVE r * v + d + 1 <= r * p
      OBVIOUS
    <3>1. r * (v + 1) <= r * p
      OBVIOUS
    <3>2. r * (v + 1) = r * v + r /\ r * v \in Int /\ r * p \in Int
      OBVIOUS
    <3>3. d + 1 <= r /\ d \in Int
      BY DEF S
    <3>. QED
      BY <3>1, <3>2, <3>3
  <2>6. r * Value(x, r) + d + 1 <= r * Power(r, Len(x))
    BY <2>3, <2>4, <2>5, <2>7
  <2>. QED
    BY <2>1, <2>2, <2>3, <2>6
<1>3. s \in T
  <2>. HIDE DEF T
  <2>. QED
    BY <1>1, <1>2, SeqInSet
<1>4. Value(s, r) \in Int /\ Power(r, Len(s)) \in Int
  <2>1. s \in Seq(Int) /\ Len(s) \in Nat
    OBVIOUS
  <2>. QED
    BY <2>1, ValueInt, PowerNext
<1>. QED
  BY <1>3, <1>4

\* A number with a first digit other than zero needs all its digits.
LEMMA ValueNotBelow ==
  ASSUME NEW r \in Nat \ {0}, NEW f \in Nat \ {0}, NEW t \in Seq(Nat)
  PROVE  Value(<<f>> \o t, r) >= Power(r, Len(t))
<1>. DEFINE T == {x \in Seq(Nat) : Value(<<f>> \o x, r) >= Power(r, Len(x))}
<1>0. <<f>> \in Seq(Nat)
  OBVIOUS
<1>1. <<>> \in T
  <2>1. <<f>> = Append(<<>>, f) /\ <<f>> \o <<>> = <<f>>
    OBVIOUS
  <2>3. Value(<<f>>, r) = f
    BY <2>1, ValueOne
  <2>4. Power(r, Len(<<>>)) = 1
    BY PowerZero, EmptySeq
  <2>. QED
    BY <2>1, <2>3, <2>4
<1>2. ASSUME NEW x \in Seq(Nat), NEW d \in Nat, x \in T PROVE Append(x, d) \in T
  <2>. DEFINE y == <<f>> \o x
  <2>1. /\ y \in Seq(Nat) /\ y \in Seq(Int) /\ Append(x, d) \in Seq(Nat)
        /\ <<f>> \o Append(x, d) = Append(y, d)
    BY <1>0, ConcatProperties, AppendProperties, AppendIsConcat, ConcatAssociative
  <2>2. Len(Append(x, d)) = Len(x) + 1 /\ Len(x) \in Nat
    BY AppendProperties
  <2>. HIDE DEF y
  <2>3. Value(Append(y, d), r) = r * Value(y, r) + d
    BY <2>1, ValueAppend
  <2>8. Value(y, r) \in Nat
    BY <2>1, ValueNat
  <2>4. Power(r, Len(x) + 1) = r * Power(r, Len(x))
    BY <2>2, PowerNext
  <2>9. Power(r, Len(x)) \in Nat
    BY <2>2, PowerPositive
  <2>5. \A v, p \in Nat : v >= p => r * v + d >= r * p
    <3>. SUFFICES ASSUME NEW v \in Nat, NEW p \in Nat, v >= p PROVE r * v + d >= r * p
      OBVIOUS
    <3>1. r * v >= r * p /\ r * v \in Int /\ r * p \in Int
      OBVIOUS
    <3>. QED
      BY <3>1
  <2>6. Value(y, r) >= Power(r, Len(x))
    BY <1>2 DEF y
  <2>7. r * Value(y, r) + d >= r * Power(r, Len(x))
    BY <2>5, <2>6, <2>8, <2>9
  <2>. QED
    BY <2>1, <2>2, <2>3, <2>4, <2>7
<1>3. t \in T
  <2>. HIDE DEF T
  <2>. QED
    BY <1>1, <1>2, SeqInSet
<1>. QED
  BY <1>3

(***************************************************************************)
(* Base 58 (Codecs): one pass of the loop is a long division.              *)
(***************************************************************************)

\* What is read and what is carried in a pass.
Byte == 0..255
Carry == 0..57

\* Bytes are numbers.
LEMMA BytesAre ==
  ASSUME NEW s \in Seq(Byte)
  PROVE  /\ Len(s) \in Nat /\ DOMAIN s = 1..Len(s) /\ \A n \in 1..Len(s) : s[n] \in Byte
         /\ s \in Seq(Nat) /\ s \in Seq(Int)
<1>1. Len(s) \in Nat /\ s \in [1..Len(s) -> Byte]
  BY LenProperties
<1>2. \A n \in 1..Len(s) : s[n] \in Byte
  BY <1>1
<1>3. s \in [1..Len(s) -> Nat] /\ s \in [1..Len(s) -> Int]
  <2>1. \A x \in Byte : x \in Nat /\ x \in Int
    BY DEF Byte
  <2>. QED
    BY <1>1, <2>1
<1>4. s \in Seq(Nat) /\ s \in Seq(Int)
  BY <1>1, <1>3
<1>. QED
  BY <1>1, <1>2, <1>4

\* What is left of a pass over one byte, and the carry.
OneByte(x, b) ==
  LET y == x * 256 + b
  IN  y \div 58 \in Byte /\ y % 58 \in Carry /\ y = 58 * (y \div 58) + (y % 58)

\* A carry and a byte, divided by 58, leave a byte and a carry.
LEMMA OneByteDivided ==
  ASSUME NEW x \in Carry, NEW b \in Byte
  PROVE  OneByte(x, b)
<1>. DEFINE y == x * 256 + b
<1>1. y \in Int /\ y >= 0 /\ y <= 14847
  BY DEF Byte, Carry
<1>. HIDE DEF y
<1>2. y \div 58 \in Int /\ y % 58 \in Carry /\ y = 58 * (y \div 58) + (y % 58)
  BY <1>1 DEF Carry
<1>3. y \div 58 >= 0 /\ y \div 58 <= 255
  BY <1>1
<1>. QED
  BY <1>2, <1>3 DEF OneByte, y, Byte, Carry

\* What Carries computes.
LEMMA CarriesAre ==
  ASSUME NEW bytes \in Seq(Byte)
  PROVE  /\ \A n \in 0..Len(bytes) : Carries(bytes)[n] \in Carry
         /\ Carries(bytes)[0] = 0
         /\ \A n \in 1..Len(bytes) :
              Carries(bytes)[n] = (Carries(bytes)[n - 1] * 256 + bytes[n]) % 58
<1>. DEFINE N == Len(bytes)  A == Carry  a == 0
            step == [p \in A \X (1..N) |-> (p[1] * 256 + bytes[p[2]]) % 58]
            F(v) == [n \in 0..N |-> IF n = 0 THEN 0 ELSE (v[n - 1] * 256 + bytes[n]) % 58]
<1>1. N \in Nat /\ \A n \in 1..N : bytes[n] \in Byte
  BY BytesAre
<1>. HIDE DEF N
<1>2. \A n \in 1..N : \A x \in A : step[<<x, n>>] = (x * 256 + bytes[n]) % 58
                                   /\ (x * 256 + bytes[n]) % 58 \in A
  <2>. TAKE n \in 1..N
  <2>. TAKE x \in A
  <2>. DEFINE b == bytes[n]
  <2>1. b \in Byte
    BY <1>1
  <2>2. step[<<x, n>>] = (x * 256 + b) % 58
    OBVIOUS
  <2>. HIDE DEF b
  <2>3. (x * 256 + b) % 58 \in Carry
    BY <2>1, OneByteDivided DEF OneByte
  <2>. QED
    BY <2>2, <2>3 DEF b
<1>3. PICK f \in [0..N -> A] : f[0] = a /\ \A n \in 1..N : f[n] = step[<<f[n - 1], n>>]
  <2>1. step \in [A \X (1..N) -> A]
    <3>1. ASSUME NEW p \in A \X (1..N) PROVE (p[1] * 256 + bytes[p[2]]) % 58 \in A
      <4>1. p[1] \in Carry /\ bytes[p[2]] \in Byte
        BY <1>1
      <4>2. OneByte(p[1], bytes[p[2]])
        BY <4>1, OneByteDivided
      <4>. QED
        BY <4>2 DEF OneByte
    <3>. QED
      BY <3>1
  <2>2. a \in A /\ N \in Nat
    BY <1>1 DEF Carry
  <2>3. \E f : Recursive(f, A, a, N, step)
    <3>. HIDE DEF step, N, A, a
    <3>. QED
      BY <2>1, <2>2, Recursion
  <2>. HIDE DEF step, A
  <2>. QED
    BY <2>3 DEF Recursive
<1>. HIDE DEF step
<1>4. ASSUME NEW n \in 1..N
      PROVE  n \in 0..N /\ n # 0 /\ n - 1 \in 0..N /\ f[n] = (f[n - 1] * 256 + bytes[n]) % 58
  <2>1. n \in 0..N /\ n # 0 /\ n - 1 \in 0..N
    BY <1>1
  <2>2. f[n - 1] \in A
    BY <1>3, <2>1
  <2>3. f[n] = step[<<f[n - 1], n>>]
    BY <1>3
  <2>4. step[<<f[n - 1], n>>] = (f[n - 1] * 256 + bytes[n]) % 58
    BY <1>2, <2>2
  <2>. QED
    BY <2>1, <2>3, <2>4
<1>5. f = F(f)
  BY <1>1, <1>3, <1>4
<1>6. Carries(bytes) = CHOOSE v : v = F(v)
  BY DEF Carries, N
<1>. DEFINE v == Carries(bytes)
<1>7. v = F(v)
  <2>. HIDE DEF F
  <2>. QED
    BY <1>5, <1>6
<1>. HIDE DEF v
<1>8. \A n \in 0..N : v[n] \in A
  <2>. DEFINE T == {n \in Nat : n <= N => v[n] = f[n]}
  <2>1. 0 \in T
    BY <1>1, <1>3, <1>7
  <2>2. ASSUME NEW n \in Nat, n \in T PROVE n + 1 \in T
    <3>. SUFFICES ASSUME n + 1 <= N PROVE v[n + 1] = f[n + 1]
      OBVIOUS
    <3>1. n + 1 \in 1..N /\ (n + 1) - 1 = n /\ v[n] = f[n] /\ n + 1 \in 0..N /\ n + 1 # 0
      BY <1>1, <2>2
    <3>2. v[n + 1] = (v[(n + 1) - 1] * 256 + bytes[n + 1]) % 58
      BY <1>7, <3>1
    <3>. QED
      BY <1>4, <3>1, <3>2
  <2>3. \A n \in Nat : n \in T
    <3>. HIDE DEF T
    <3>. QED
      BY <2>1, <2>2, NatInSet
  <2>. HIDE DEF A
  <2>. QED
    BY <1>3, <2>3
<1>9. v[0] = 0
  <2>1. 0 \in 0..N
    BY <1>1
  <2>. QED
    BY <1>7, <2>1
<1>10. \A n \in 1..N : v[n] = (v[n - 1] * 256 + bytes[n]) % 58
  BY <1>4, <1>7
<1>. QED
  BY <1>8, <1>9, <1>10 DEF v, N

\* One pass divides by 58: what it leaves are bytes, its last carry is the remainder.
LEMMA LongDivision ==
  ASSUME NEW bytes \in Seq(Byte)
  PROVE  /\ Quotient(bytes) \in Seq(Byte)
         /\ Carries(bytes)[Len(bytes)] \in Carry
         /\ Value(bytes, 256) = 58 * Value(Quotient(bytes), 256) + Carries(bytes)[Len(bytes)]
<1>. DEFINE N == Len(bytes)  c == Carries(bytes)  q == Quotient(bytes)
            v == Readings(bytes, 256)  w == Readings(q, 256)
            T == {n \in Nat : n <= N => v[n] = 58 * w[n] + c[n]}
<1>1. N \in Nat /\ \A n \in 1..N : bytes[n] \in Byte
  BY BytesAre
<1>2. /\ \A n \in 0..N : c[n] \in Carry
      /\ c[0] = 0 /\ \A n \in 1..N : c[n] = (c[n - 1] * 256 + bytes[n]) % 58
  BY CarriesAre
<1>. HIDE DEF c
<1>3. /\ q \in Seq(Byte) /\ Len(q) = N
      /\ \A n \in 1..N : q[n] = (c[n - 1] * 256 + bytes[n]) \div 58
  <2>1. q = [i \in 1..N |-> ((c[i - 1] * 256 + bytes[i]) \div 58) % 256]
    BY DEF Quotient, c
  <2>2. ASSUME NEW n \in 1..N
        PROVE  (c[n - 1] * 256 + bytes[n]) \div 58 \in Byte
    <3>1. n - 1 \in 0..N /\ bytes[n] \in Byte
      BY <1>1
    <3>2. c[n - 1] \in Carry
      BY <1>2, <3>1
    <3>3. OneByte(c[n - 1], bytes[n])
      BY <3>1, <3>2, OneByteDivided
    <3>. QED
      BY <3>3 DEF OneByte
  <2>3. \A x \in Byte : x % 256 = x
    BY DEF Byte
  <2>. HIDE DEF q, N
  <2>4. \A n \in 1..N : q[n] = (c[n - 1] * 256 + bytes[n]) \div 58
    <3>. TAKE n \in 1..N
    <3>1. q[n] = ((c[n - 1] * 256 + bytes[n]) \div 58) % 256
      BY <2>1
    <3>2. (c[n - 1] * 256 + bytes[n]) \div 58 \in Byte
      BY <2>2
    <3>. QED
      BY <2>3, <3>1, <3>2
  <2>5. \A n \in 1..N : q[n] \in Byte
    <3>. TAKE n \in 1..N
    <3>1. q[n] = (c[n - 1] * 256 + bytes[n]) \div 58
      BY <2>4
    <3>2. (c[n - 1] * 256 + bytes[n]) \div 58 \in Byte
      BY <2>2
    <3>. QED
      BY <3>1, <3>2
  <2>6. q = [i \in 1..N |-> q[i]]
    BY <2>1
  <2>7. q \in Seq(Byte) /\ Len(q) = N
    BY <1>1, <2>5, <2>6
  <2>. QED
    BY <2>4, <2>7
<1>. HIDE DEF q
<1>4. bytes \in Seq(Int) /\ q \in Seq(Int)
  BY <1>3, BytesAre
<1>5. v \in [0..N -> Int] /\ v[0] = 0 /\ \A n \in 1..N : v[n] = 256 * v[n - 1] + bytes[n]
  BY <1>4, ReadingsAre
<1>6. w \in [0..N -> Int] /\ w[0] = 0 /\ \A n \in 1..N : w[n] = 256 * w[n - 1] + q[n]
  BY <1>3, <1>4, ReadingsAre
<1>. HIDE DEF v, w, N
<1>7. 0 \in T
  BY <1>2, <1>5, <1>6
<1>8. ASSUME NEW n \in Nat, n \in T PROVE n + 1 \in T
  <2>. SUFFICES ASSUME n + 1 <= N PROVE v[n + 1] = 58 * w[n + 1] + c[n + 1]
    OBVIOUS
  <2>1. n + 1 \in 1..N /\ (n + 1) - 1 = n /\ n \in 0..N
    BY <1>1
  <2>2. v[n + 1] = 256 * v[n] + bytes[n + 1] /\ w[n + 1] = 256 * w[n] + q[n + 1]
    BY <1>5, <1>6, <2>1
  <2>3. /\ c[n + 1] = (c[n] * 256 + bytes[n + 1]) % 58
        /\ q[n + 1] = (c[n] * 256 + bytes[n + 1]) \div 58
    BY <1>2, <1>3, <2>1
  <2>4. v[n] = 58 * w[n] + c[n]
    BY <1>8, <2>1
  <2>5. c[n] \in Carry /\ bytes[n + 1] \in Byte /\ w[n] \in Int /\ v[n] \in Int
    BY <1>1, <1>2, <1>5, <1>6, <2>1
  <2>6. PICK x \in Carry, b \in Byte : x = c[n] /\ b = bytes[n + 1]
    BY <2>5
  <2>7. OneByte(x, b)
    BY OneByteDivided
  <2>. DEFINE y == x * 256 + b  d == y \div 58  m == y % 58
  <2>8. d \in Byte /\ m \in Carry /\ y = 58 * d + m /\ c[n + 1] = m /\ q[n + 1] = d
    BY <2>3, <2>6, <2>7 DEF OneByte
  <2>. HIDE DEF d, m
  <2>10. x \in Int /\ b \in Int /\ d \in Int /\ m \in Int
    BY <2>8 DEF Byte, Carry
  <2>9. 256 * v[n] + b = 58 * (256 * w[n] + d) + m
    <3>. DEFINE vn == v[n]  wn == w[n]
    <3>1. vn = 58 * wn + x /\ vn \in Int /\ wn \in Int /\ x * 256 + b = 58 * d + m
      BY <2>4, <2>5, <2>6, <2>8
    <3>. HIDE DEF vn, wn
    <3>2. 256 * vn + b = 58 * (256 * wn + d) + m
      BY <2>10, <3>1
    <3>. QED
      BY <3>2 DEF vn, wn
  <2>. QED
    BY <2>2, <2>6, <2>8, <2>9
<1>9. N \in T
  <2>1. \A n \in Nat : n \in T
    <3>. HIDE DEF T
    <3>. QED
      BY <1>7, <1>8, NatInSet
  <2>. QED
    BY <1>1, <2>1
<1>10. v[N] = 58 * w[N] + c[N] /\ c[N] \in Carry
  BY <1>1, <1>2, <1>9
<1>. QED
  BY <1>3, <1>10 DEF Value, v, w, q, c, N

\* LeadingZeros counts them.
LEMMA LeadingZerosAre ==
  ASSUME NEW s \in Seq(Nat)
  PROVE  LeadingZeros(s) \in 0..Len(s) /\ \A i \in 1..LeadingZeros(s) : s[i] = 0
<1>. DEFINE N == Len(s)  S == {n \in 0..N : \A i \in 1..n : s[i] = 0}
            D == {k \in 0..N : N - k \in S}
<1>1. N \in Nat /\ 0 \in S
  OBVIOUS
<1>. HIDE DEF N
<1>2. D \subseteq Nat /\ N \in D
  BY <1>1
<1>3. PICK k \in D : \A d \in D : k <= d
  <2>. HIDE DEF D
  <2>. QED
    BY <1>2, Least
<1>4. N - k \in S /\ \A n \in S : n <= N - k
  <2>1. \A n \in S : N - n \in D
    BY <1>1
  <2>2. k \in 0..N /\ N - k \in S
    OBVIOUS
  <2>3. \A n \in S : n \in 0..N
    OBVIOUS
  <2>. HIDE DEF D, S
  <2>4. \A n \in S : k <= N - n
    BY <1>3, <2>1
  <2>. QED
    BY <1>1, <2>2, <2>3, <2>4
<1>5. LeadingZeros(s) = Max(S)
  BY DEF LeadingZeros, N
<1>6. Max(S) \in S
  <2>1. \E x \in S : \A y \in S : x >= y
    BY <1>1, <1>4
  <2>. HIDE DEF S
  <2>. QED
    BY <2>1 DEF Max
<1>. QED
  BY <1>5, <1>6 DEF N

\* Trimming changes no value.
LEMMA TrimKeepsValue ==
  ASSUME NEW s \in Seq(Byte)
  PROVE  Trim(s) \in Seq(Byte) /\ Value(Trim(s), 256) = Value(s, 256)
<1>. DEFINE k == LeadingZeros(s)  z == [i \in 1..k |-> 0]  t == SubSeq(s, k + 1, Len(s))
<1>1. s \in Seq(Nat) /\ s \in Seq(Int) /\ Len(s) \in Nat
  BY BytesAre
<1>2. k \in 0..Len(s) /\ \A i \in 1..k : s[i] = 0
  BY <1>1, LeadingZerosAre
<1>. HIDE DEF k
<1>3. t \in Seq(Byte) /\ Len(t) = Len(s) - k /\ \A i \in 1..Len(t) : t[i] = s[k + i]
  <2>1. t \in Seq(Byte)
    BY <1>1, <1>2
  <2>2. Len(t) = Len(s) - k /\ \A i \in 1..Len(t) : t[i] = s[k + i]
    BY <1>1, <1>2
  <2>. QED
    BY <2>1, <2>2
<1>4. z \in Seq(Int) /\ z \in Seq(Nat) /\ Len(z) = k /\ \A i \in 1..k : z[i] = 0
  BY <1>2
<1>. HIDE DEF t, z
<1>5. t \in Seq(Int)
  BY <1>3, BytesAre
<1>6. s = z \o t
  <2>1. z \o t \in Seq(Int) /\ Len(z \o t) = Len(s)
    <3>1. z \o t \in Seq(Int) /\ Len(z \o t) = Len(z) + Len(t)
      BY <1>4, <1>5, ConcatProperties
    <3>. QED
      BY <1>1, <1>2, <1>3, <1>4, <3>1
  <2>2. \A i \in 1..Len(s) : s[i] = (z \o t)[i]
    <3>. TAKE i \in 1..Len(s)
    <3>1. CASE i <= k
      <4>1. i \in 1..k
        BY <1>1, <1>2, <3>1
      <4>2. (z \o t)[i] = z[i]
        BY <1>4, <1>5, <4>1
      <4>. QED
        BY <1>2, <1>4, <4>1, <4>2
    <3>2. CASE i > k
      <4>1. i - k \in 1..Len(t) /\ k + (i - k) = i
        BY <1>1, <1>2, <1>3, <3>2
      <4>2. (z \o t)[i] = t[i - k]
        BY <1>2, <1>4, <1>5, <3>2, <4>1
      <4>. QED
        BY <1>3, <4>1, <4>2
    <3>3. i <= k \/ i > k
      BY <1>1, <1>2
    <3>. QED
      BY <3>1, <3>2, <3>3
  <2>. QED
    BY <1>1, <2>1, <2>2, SeqEqual
<1>7. Value(z, 256) = 0
  <2>1. \A i \in DOMAIN z : z[i] = 0
    BY <1>4
  <2>. QED
    BY <1>4, <2>1, ValueZero
<1>8. Value(<<>> \o t, 256) = Value(z \o t, 256)
  <2>. DEFINE e == <<>>
  <2>1. e \in Seq(Int) /\ Value(e, 256) = 0
    BY ValueEmpty
  <2>. HIDE DEF e
  <2>2. Value(e \o t, 256) = Value(z \o t, 256)
    BY <1>4, <1>5, <1>7, <2>1, ContinueSame
  <2>. QED
    BY <2>2 DEF e
<1>9. <<>> \o t = t
  BY <1>5
<1>. QED
  BY <1>3, <1>6, <1>8, <1>9 DEF Trim, t, k

(***************************************************************************)
(* Digits are pushed lowest first.                                         *)
(***************************************************************************)

\* A sequence reversed: one element more comes first.
LEMMA Reversed ==
  ASSUME NEW S, NEW s \in Seq(S)
  PROVE  Reverse(s) \in Seq(S) /\ Len(Reverse(s)) = Len(s)
<1>1. Len(s) \in Nat /\ \A i \in 1..Len(s) : s[Len(s) - i + 1] \in S
  OBVIOUS
<1>. QED
  BY <1>1 DEF Reverse

\* What was last comes first.
LEMMA ReversedAppend ==
  ASSUME NEW S, NEW s \in Seq(S), NEW d \in S
  PROVE  Reverse(Append(s, d)) = <<d>> \o Reverse(s)
<1>. DEFINE n == Len(s)  a == Append(s, d)  b == Reverse(a)  c == <<d>> \o Reverse(s)
<1>1. n \in Nat /\ a \in Seq(S) /\ Len(a) = n + 1 /\ a[n + 1] = d /\ \A i \in 1..n : a[i] = s[i]
  OBVIOUS
<1>2. b \in Seq(S) /\ Len(b) = n + 1
  BY <1>1, Reversed
<1>3. <<d>> \in Seq(S) /\ Reverse(s) \in Seq(S) /\ Len(Reverse(s)) = n
  BY Reversed
<1>4. c \in Seq(S) /\ Len(c) = n + 1
  BY <1>3
<1>5. \A i \in 1..(n + 1) : b[i] = a[(n + 1) - i + 1]
  BY <1>1, <1>2 DEF Reverse
<1>6. c[1] = d /\ \A i \in 2..(n + 1) : c[i] = Reverse(s)[i - 1]
  BY <1>3
<1>7. \A i \in 1..n : Reverse(s)[i] = s[n - i + 1]
  BY <1>1 DEF Reverse
<1>. HIDE DEF n, a, b, c
<1>8. \A i \in 1..(n + 1) : b[i] = c[i]
  <2>. TAKE i \in 1..(n + 1)
  <2>1. CASE i = 1
    <3>1. b[1] = a[(n + 1) - 1 + 1] /\ (n + 1) - 1 + 1 = n + 1
      BY <1>1, <1>5, <2>1
    <3>. QED
      BY <1>1, <1>6, <2>1, <3>1
  <2>2. CASE i # 1
    <3>1. i \in 2..(n + 1) /\ i - 1 \in 1..n /\ (n + 1) - i + 1 \in 1..n
          /\ (n + 1) - i + 1 = n - (i - 1) + 1
      BY <1>1, <2>2
    <3>2. c[i] = Reverse(s)[i - 1] /\ Reverse(s)[i - 1] = s[n - (i - 1) + 1]
      BY <1>6, <1>7, <3>1
    <3>3. b[i] = a[(n + 1) - i + 1] /\ a[(n + 1) - i + 1] = s[(n + 1) - i + 1]
      BY <1>1, <1>5, <3>1
    <3>. QED
      BY <3>1, <3>2, <3>3
  <2>. QED
    BY <2>1, <2>2
<1>9. b = c
  BY <1>1, <1>2, <1>4, <1>8, SeqEqual
<1>. QED
  BY <1>9 DEF a, b, c

\* A remainder may stand after the number divided, whatever follows.
LEMMA OneDigitMore ==
  ASSUME NEW v \in Nat, NEW c \in Nat, NEW t \in Seq(Nat)
  PROVE  Value(<<58 * v + c>> \o t, 58) = Value(<<v>> \o (<<c>> \o t), 58)
<1>. DEFINE x == 58 * v + c  u == Append(<<>>, x)  y == Append(<<>>, v)  w == Append(y, c)
<1>1. x \in Int /\ u \in Seq(Int) /\ y \in Seq(Int) /\ w \in Seq(Int) /\ t \in Seq(Int)
  OBVIOUS
<1>2. u = <<x>> /\ y = <<v>>
  <2>. HIDE DEF x
  <2>. QED
    OBVIOUS
<1>3. <<v>> \o (<<c>> \o t) = w \o t
  OBVIOUS
<1>4. Value(u, 58) = x /\ Value(y, 58) = v
  BY <1>1, ValueOne
<1>. HIDE DEF y
<1>5. Value(w, 58) = 58 * Value(y, 58) + c
  BY <1>1, ValueAppend
<1>. HIDE DEF u, w
<1>6. Value(u, 58) = Value(w, 58)
  BY <1>4, <1>5
<1>7. Value(u \o t, 58) = Value(w \o t, 58)
  BY <1>1, <1>6, ContinueSame
<1>. QED
  BY <1>2, <1>3, <1>7

\* A zero before the digits changes nothing.
LEMMA ZeroBefore ==
  ASSUME NEW t \in Seq(Nat), NEW r \in Int
  PROVE  Value(<<0>> \o t, r) = Value(t, r)
<1>. DEFINE e == <<>>  z == Append(<<>>, 0)
<1>1. e \in Seq(Int) /\ z \in Seq(Int) /\ t \in Seq(Int) /\ e \o t = t /\ z = <<0>>
  OBVIOUS
<1>2. Value(e, r) = 0 /\ Value(z, r) = 0
  BY ValueEmpty, ValueOne
<1>. HIDE DEF e, z
<1>4. Value(e, r) = Value(z, r)
  BY <1>2
<1>3. Value(e \o t, r) = Value(z \o t, r)
  BY <1>1, <1>4, ContinueSame
<1>. QED
  BY <1>1, <1>3

(***************************************************************************)
(* Base 58: the invariant, its steps, and why the digits fit.              *)
(***************************************************************************)

\* While base58check_encode runs: what is left and the digits so far make up the number,
\* and the first digit of what is not divided any more is not a zero.
Base58Inv ==
  /\ full \in Seq(Byte) /\ Len(full) <= FULL /\ num \in Seq(Byte) /\ chars \in Seq(Carry)
  /\ Value(<<Value(num, 256)>> \o Reverse(chars), 58) = Value(full, 256)
  /\ chars # <<>> /\ Value(num, 256) = 0 => chars[Len(chars)] # 0
  /\ codec \in {"idle", "words"} => full = <<>> /\ num = <<>> /\ chars = <<>> /\ encoded = <<>>
  /\ codec = "done" => Value(num, 256) = 0 /\ encoded = Reverse(chars)

\* Digits are numbers, also in the other order.
LEMMA DigitsAre ==
  ASSUME NEW s \in Seq(Carry)
  PROVE  /\ Len(s) \in Nat /\ \A i \in DOMAIN s : s[i] \in 0..57
         /\ Reverse(s) \in Seq(Carry) /\ Reverse(s) \in Seq(Nat) /\ Len(Reverse(s)) = Len(s)
<1>1. \A t \in Seq(Carry) : t \in Seq(Nat)
  <2>. TAKE t \in Seq(Carry)
  <2>1. \A x \in Carry : x \in Nat
    BY DEF Carry
  <2>2. Len(t) \in Nat /\ t \in [1..Len(t) -> Carry]
    BY LenProperties
  <2>3. t \in [1..Len(t) -> Nat]
    BY <2>1, <2>2
  <2>. QED
    BY <2>2, <2>3
<1>2. Reverse(s) \in Seq(Carry) /\ Len(Reverse(s)) = Len(s)
  BY Reversed
<1>3. Len(s) \in Nat /\ \A i \in DOMAIN s : s[i] \in Carry
  OBVIOUS
<1>. QED
  BY <1>1, <1>2, <1>3 DEF Carry

\* Nothing is encoded yet.
LEMMA NothingEncoded ==
  Value(<<Value(<<>>, 256)>> \o Reverse(<<>>), 58) = Value(<<>>, 256)
<1>. DEFINE e == <<>>
<1>1. e \in Seq(Carry) /\ Len(e) = 0 /\ e \in Seq(Nat)
  OBVIOUS
<1>2. Value(e, 256) = 0 /\ Value(e, 58) = 0
  BY ValueEmpty
<1>3. Reverse(e) = e
  BY DEF Reverse
<1>. HIDE DEF e
<1>4. Value(<<0>> \o e, 58) = Value(e, 58)
  <2>1. e \in Seq(Nat)
    BY <1>1
  <2>. QED
    BY <2>1, ZeroBefore
<1>5. Value(<<Value(e, 256)>> \o Reverse(e), 58) = Value(e, 256)
  BY <1>2, <1>3, <1>4
<1>. QED
  BY <1>5 DEF e

\* Nothing is encoded at the start.
LEMMA Base58Begins == CodecInit => Base58Inv
<1>. SUFFICES ASSUME CodecInit PROVE Base58Inv
  OBVIOUS
<1>1. /\ codec = "idle" /\ full = <<>> /\ num = <<>> /\ chars = <<>> /\ encoded = <<>>
  BY DEF CodecInit
<1>2. <<>> \in Seq(Byte) /\ <<>> \in Seq(Carry) /\ Len(<<>>) <= FULL
  BY CodecAssumption DEF CodecAssumption
<1>. QED
  BY <1>1, <1>2, NothingEncoded DEF Base58Inv

\* encode_check takes its bytes and the checksum.
LEMMA EncodeKeeps ==
  ASSUME Base58Inv, NEW bytes \in Payloads, Encode(bytes)
  PROVE  Base58Inv'
<1>1. codec = "idle" /\ codec' = "base58" /\ full' = bytes /\ num' = bytes /\ chars' = chars
  BY DEF Encode
<1>2. chars = <<>>
  BY <1>1 DEF Base58Inv
<1>3. bytes \in Seq(Byte) /\ Len(bytes) <= FULL
  BY CodecAssumption DEF CodecAssumption, Byte
<1>. DEFINE v == Value(bytes, 256)  e == <<>>
<1>4. v \in Nat
  BY <1>3, BytesAre, ValueNat
<1>5. Value(<<v>> \o Reverse(e), 58) = v
  <2>1. Reverse(e) = e
    BY DEF Reverse
  <2>. HIDE DEF v
  <2>2. Value(Append(<<>>, v), 58) = v
    BY <1>4, ValueOne
  <2>3. <<v>> \o e = Append(<<>>, v)
    OBVIOUS
  <2>. HIDE DEF e
  <2>. QED
    BY <2>1, <2>2, <2>3
<1>6. e \in Seq(Carry)
  OBVIOUS
<1>. QED
  BY <1>1, <1>2, <1>3, <1>5, <1>6 DEF Base58Inv

\* A division moves one digit from what is left to the digits so far.
LEMMA DigitKeeps ==
  ASSUME Base58Inv, Digit
  PROVE  Base58Inv'
<1>1. /\ codec = "base58" /\ codec' = "base58" /\ \E i \in DOMAIN num : num[i] # 0
      /\ chars' = Append(chars, Carries(num)[Len(num)])
      /\ num' = Trim(Quotient(num)) /\ full' = full
  BY DEF Digit
<1>2. PICK s : s = num
  OBVIOUS
<1>3. PICK d : d = chars
  OBVIOUS
<1>4. s \in Seq(Byte) /\ d \in Seq(Carry)
  BY <1>2, <1>3 DEF Base58Inv
<1>. DEFINE q == Quotient(s)  c == Carries(s)[Len(s)]  t == Trim(q)  v == Value(t, 256)
<1>5. q \in Seq(Byte) /\ c \in Carry /\ Value(s, 256) = 58 * Value(q, 256) + c
  BY <1>4, LongDivision
<1>. HIDE DEF q, c
<1>6. t \in Seq(Byte) /\ v = Value(q, 256)
  BY <1>5, TrimKeepsValue
<1>. HIDE DEF t
<1>7. v \in Nat
  BY <1>6, BytesAre, ValueNat
<1>. HIDE DEF v
<1>8. num' = t /\ chars' = Append(d, c)
  BY <1>1, <1>2, <1>3 DEF t, q, c
<1>9. Append(d, c) \in Seq(Carry) /\ Append(d, c)[Len(Append(d, c))] = c
  BY <1>4, <1>5
<1>10. Value(s, 256) = 58 * v + c /\ c \in Nat
  BY <1>5, <1>6 DEF Carry
<1>11. Value(s, 256) # 0
  <2>1. s \in Seq(Nat)
    BY <1>4, BytesAre
  <2>. QED
    BY <1>1, <1>2, <2>1, ValueZero
<1>12. Value(<<v>> \o Reverse(Append(d, c)), 58) = Value(full, 256)
  <2>1. Reverse(Append(d, c)) = <<c>> \o Reverse(d)
    BY <1>4, <1>5, ReversedAppend
  <2>2. Reverse(d) \in Seq(Nat)
    BY <1>4, DigitsAre
  <2>3. Value(<<58 * v + c>> \o Reverse(d), 58) = Value(<<v>> \o (<<c>> \o Reverse(d)), 58)
    BY <1>7, <1>10, <2>2, OneDigitMore
  <2>4. Value(<<Value(s, 256)>> \o Reverse(d), 58) = Value(full, 256)
    BY <1>2, <1>3 DEF Base58Inv
  <2>. QED
    BY <1>10, <2>1, <2>3, <2>4
<1>13. v = 0 => c # 0
  BY <1>7, <1>10, <1>11
<1>14. Value(<<Value(num', 256)>> \o Reverse(chars'), 58) = Value(full', 256)
  BY <1>1, <1>8, <1>12 DEF v
<1>15. chars' # <<>> /\ Value(num', 256) = 0 => chars'[Len(chars')] # 0
  BY <1>8, <1>9, <1>13 DEF v
<1>. QED
  BY <1>1, <1>6, <1>8, <1>9, <1>14, <1>15 DEF Base58Inv

\* The loop ends with nothing left to divide.
LEMMA EncodeReturnsKeeps ==
  ASSUME Base58Inv, EncodeReturns
  PROVE  Base58Inv'
<1>1. /\ codec = "base58" /\ codec' = "done" /\ \A i \in DOMAIN num : num[i] = 0
      /\ encoded' = Reverse(chars) /\ full' = full /\ num' = num /\ chars' = chars
  BY DEF EncodeReturns
<1>2. PICK s : s = num
  OBVIOUS
<1>3. Value(s, 256) = 0
  <2>1. s \in Seq(Nat)
    BY <1>2, BytesAre DEF Base58Inv
  <2>. QED
    BY <1>1, <1>2, <2>1, ValueZero
<1>. QED
  BY <1>1, <1>2, <1>3 DEF Base58Inv

\* The other operations of the module leave the encoder alone.
LEMMA Base58Other ==
  ASSUME Base58Inv, WordIndex \/ (\E m \in Entropies : FromEntropy(m)) \/ UNCHANGED codecVars
  PROVE  Base58Inv'
<1>1. CASE UNCHANGED codecVars
  BY <1>1 DEF Base58Inv, codecVars
<1>2. CASE WordIndex \/ \E m \in Entropies : FromEntropy(m)
  <2>1. /\ codec \in {"idle", "words"} /\ codec' \in {"words", "done"}
        /\ full' = full /\ num' = num /\ chars' = chars /\ encoded' = encoded
    BY <1>2 DEF WordIndex, FromEntropy
  <2>2. full = <<>> /\ num = <<>> /\ chars = <<>> /\ encoded = <<>>
    BY <2>1 DEF Base58Inv
  <2>3. Value(num, 256) = 0 /\ Reverse(<<>>) = <<>>
    BY <2>2, ValueEmpty DEF Reverse
  <2>. QED
    BY <2>1, <2>2, <2>3 DEF Base58Inv
<1>. QED
  BY <1>1, <1>2

\* No zero comes first, the number is below what FULL bytes hold and not below what its
\* digits after the first are worth.
LEMMA Base58Follows ==
  Base58Inv => Base58KeepsValue /\ DigitsFit
<1>. SUFFICES ASSUME Base58Inv PROVE Base58KeepsValue /\ DigitsFit
  OBVIOUS
<1>1. PICK s, d, f : s = num /\ d = chars /\ f = full
  OBVIOUS
<1>2. /\ s \in Seq(Byte) /\ d \in Seq(Carry) /\ f \in Seq(Byte) /\ Len(f) <= FULL
      /\ Value(<<Value(s, 256)>> \o Reverse(d), 58) = Value(f, 256)
      /\ d # <<>> /\ Value(s, 256) = 0 => d[Len(d)] # 0
  BY <1>1 DEF Base58Inv
<1>. DEFINE v == Value(s, 256)  r == Reverse(d)  n == Len(d)
<1>3. v \in Nat
  BY <1>2, BytesAre, ValueNat
<1>4. n \in Nat /\ r \in Seq(Nat) /\ Len(r) = n
  BY <1>2, DigitsAre
<1>5. n # 0 => r[1] = d[n]
  BY <1>4 DEF Reverse
<1>6. n = 0 <=> d = <<>>
  BY <1>2
<1>. HIDE DEF v, r, n
<1>7. ASSUME v = 0 PROVE Value(r, 58) = Value(f, 256) /\ (n # 0 => r[1] # 0)
  <2>1. Value(<<0>> \o r, 58) = Value(r, 58)
    BY <1>4, ZeroBefore
  <2>. QED
    BY <1>2, <1>5, <1>6, <1>7, <2>1 DEF v, r, n
<1>8. codec = "done" => Value(encoded, 58) = Value(full, 256) /\ LeadingZeros(encoded) = 0
  <2>. SUFFICES ASSUME codec = "done"
                PROVE  Value(encoded, 58) = Value(full, 256) /\ LeadingZeros(encoded) = 0
    OBVIOUS
  <2>1. v = 0 /\ encoded = r
    BY <1>1 DEF Base58Inv, v, r
  <2>2. Value(r, 58) = Value(f, 256) /\ (n # 0 => r[1] # 0)
    BY <1>7, <2>1
  <2>3. LeadingZeros(r) \in 0..n /\ \A i \in 1..LeadingZeros(r) : r[i] = 0
    BY <1>4, LeadingZerosAre
  <2>4. LeadingZeros(r) = 0
    <3>1. LeadingZeros(r) >= 1 => n # 0 /\ 1 \in 1..LeadingZeros(r)
      BY <1>4, <2>3
    <3>. QED
      BY <1>4, <2>2, <2>3, <3>1
  <2>. QED
    BY <1>1, <2>1, <2>2, <2>4
<1>9. n # 0 => Power(58, n - 1) <= Value(f, 256)
  <2>. SUFFICES ASSUME n # 0 PROVE Power(58, n - 1) <= Value(f, 256)
    OBVIOUS
  <2>1. CASE v = 0
    <3>. DEFINE t == SubSeq(r, 2, n)
    <3>1. t \in Seq(Nat) /\ Len(t) = n - 1 /\ r[1] \in Nat /\ r = <<r[1]>> \o t
      BY <1>4
    <3>2. PICK a \in Nat \ {0} : a = r[1] /\ r = <<a>> \o t
      BY <1>7, <2>1, <3>1
    <3>. HIDE DEF t
    <3>3. Value(<<a>> \o t, 58) >= Power(58, Len(t))
      BY <3>1, ValueNotBelow
    <3>4. Value(f, 256) >= Power(58, n - 1)
      BY <1>7, <2>1, <3>1, <3>2, <3>3
    <3>5. Value(f, 256) \in Nat /\ n - 1 \in Nat
      BY <1>2, <1>4, BytesAre, ValueNat
    <3>6. Power(58, n - 1) \in Int
      BY <3>5, PowerNext
    <3>. QED
      BY <3>4, <3>5, <3>6
  <2>2. CASE v # 0
    <3>1. Value(<<v>> \o r, 58) >= Power(58, n)
      BY <1>3, <1>4, <2>2, ValueNotBelow
    <3>2. Value(<<v>> \o r, 58) = Value(f, 256)
      BY <1>2 DEF v, r
    <3>3. n - 1 \in Nat /\ n - 1 <= n
      BY <1>4
    <3>4. Power(58, n - 1) <= Power(58, n)
      BY <1>4, <3>3, PowerGrows
    <3>6. Power(58, n - 1) \in Int /\ Power(58, n) \in Int
      <4>1. \A k \in Nat : Power(58, k) \in Nat \ {0}
        BY PowerPositive
      <4>. QED
        BY <1>4, <3>3, <4>1
    <3>5. Value(f, 256) \in Nat
      BY <1>2, BytesAre, ValueNat
    <3>. QED
      BY <3>1, <3>2, <3>4, <3>5, <3>6
  <2>. QED
    BY <2>1, <2>2
<1>10. n <= CHARS
  <2>. SUFFICES ASSUME ~(n <= CHARS) PROVE FALSE
    OBVIOUS
  <2>1. FULL \in Nat /\ CHARS \in Nat /\ Power(256, FULL) <= Power(58, CHARS)
    BY CodecAssumption DEF CodecAssumption
  <2>2. n # 0 /\ n - 1 \in Nat /\ CHARS <= n - 1
    BY <1>4, <2>1
  <2>3. Power(58, CHARS) <= Power(58, n - 1)
    BY <2>1, <2>2, PowerGrows
  <2>4. Value(f, 256) < Power(256, Len(f))
    <3>. DEFINE r256 == 256
    <3>1. r256 \in Nat \ {0} /\ 0..(r256 - 1) = Byte
      BY DEF Byte
    <3>2. f \in Seq(0..(r256 - 1))
      BY <1>2, <3>1
    <3>. HIDE DEF r256
    <3>3. Value(f, r256) < Power(r256, Len(f))
      BY <3>1, <3>2, ValueBelow
    <3>. QED
      BY <3>3 DEF r256
  <2>5. Len(f) \in Nat /\ Power(256, Len(f)) <= Power(256, FULL)
    BY <1>2, <2>1, BytesAre, PowerGrows
  <2>6. /\ Power(58, CHARS) \in Int /\ Power(58, n - 1) \in Int /\ Power(256, FULL) \in Int
        /\ Power(256, Len(f)) \in Int
    BY <2>1, <2>2, <2>5, PowerNext
  <2>7. Value(f, 256) \in Nat
    BY <1>2, BytesAre, ValueNat
  <2>. QED
    BY <1>9, <2>1, <2>2, <2>3, <2>4, <2>5, <2>6, <2>7
<1>. QED
  BY <1>1, <1>2, <1>8, <1>10 DEF Base58KeepsValue, DigitsFit, n

(***************************************************************************)
(* Words (Codecs): bits and what they read.                                *)
(***************************************************************************)

\* What a digit in radix 2 is.
Bits == {0, 1}

\* A bit of a number is a bit.
LEMMA BitOfIs == ASSUME NEW x \in Nat, NEW i \in 0..10 PROVE BitOf(x, i) \in Bits
<1>0. CASE i = 0
  BY <1>0 DEF BitOf, Bits
<1>1. CASE i = 1
  BY <1>1 DEF BitOf, Bits
<1>2. CASE i = 2
  BY <1>2 DEF BitOf, Bits
<1>3. CASE i = 3
  BY <1>3 DEF BitOf, Bits
<1>4. CASE i = 4
  BY <1>4 DEF BitOf, Bits
<1>5. CASE i = 5
  BY <1>5 DEF BitOf, Bits
<1>6. CASE i = 6
  BY <1>6 DEF BitOf, Bits
<1>7. CASE i = 7
  BY <1>7 DEF BitOf, Bits
<1>8. CASE i = 8
  BY <1>8 DEF BitOf, Bits
<1>9. CASE i = 9
  BY <1>9 DEF BitOf, Bits
<1>10. CASE i = 10
  BY <1>10 DEF BitOf, Bits
<1>. QED
  BY <1>0, <1>1, <1>2, <1>3, <1>4, <1>5, <1>6, <1>7, <1>8, <1>9, <1>10

\* Bits are a sequence of numbers.
LEMMA BitsAre ==
  ASSUME NEW n \in Nat, NEW s \in [1..n -> Bits]
  PROVE  s \in Seq(Int) /\ Len(s) = n /\ \A i \in 1..n : s[i] \in Int
<1>1. \A i \in 1..n : s[i] \in Int
  BY DEF Bits
<1>2. s \in [1..n -> Int]
  BY <1>1
<1>. QED
  BY <1>1, <1>2

\* Bits are numbers, read in radix 2.
LEMMA ReadsBits ==
  ASSUME NEW s \in Seq(Int)
  PROVE  /\ Readings(s, 2)[0] = 0
         /\ \A n \in 1..Len(s) : Readings(s, 2)[n] = 2 * Readings(s, 2)[n - 1] + s[n]
BY ReadingsAre

\* What the readings of eleven, eight and four bits add up to.
LEMMA Eleven ==
  ASSUME NEW s \in [1..11 -> Bits]
  PROVE  Value(s, 2) = 1024 * s[1] + 512 * s[2] + 256 * s[3] + 128 * s[4] + 64 * s[5] + 32 * s[6]
                       + 16 * s[7] + 8 * s[8] + 4 * s[9] + 2 * s[10] + s[11]
<1>1. s \in Seq(Int) /\ Len(s) = 11 /\ \A i \in 1..11 : s[i] \in Int
  <2>. DEFINE n == 11
  <2>1. n \in Nat /\ s \in [1..n -> Bits]
    OBVIOUS
  <2>. HIDE DEF n
  <2>2. s \in Seq(Int) /\ Len(s) = n /\ \A i \in 1..n : s[i] \in Int
    BY <2>1, BitsAre
  <2>. QED
    BY <2>2 DEF n
<1>. DEFINE v == Readings(s, 2)
<1>2. v[0] = 0 /\ \A n \in 1..11 : v[n] = 2 * v[n - 1] + s[n]
  <2>1. v[0] = 0 /\ \A n \in 1..Len(s) : v[n] = 2 * v[n - 1] + s[n]
    <3>1. s \in Seq(Int)
      BY <1>1
    <3>. QED
      BY <3>1, ReadsBits
  <2>. QED
    BY <1>1, <2>1
<1>3. Value(s, 2) = v[11]
  BY <1>1 DEF Value
<1>. HIDE DEF v
<1>4. /\ v[1] = 2 * v[0] + s[1] /\ v[2] = 2 * v[1] + s[2] /\ v[3] = 2 * v[2] + s[3]
      /\ v[4] = 2 * v[3] + s[4] /\ v[5] = 2 * v[4] + s[5] /\ v[6] = 2 * v[5] + s[6]
      /\ v[7] = 2 * v[6] + s[7] /\ v[8] = 2 * v[7] + s[8] /\ v[9] = 2 * v[8] + s[9]
      /\ v[10] = 2 * v[9] + s[10] /\ v[11] = 2 * v[10] + s[11]
  BY <1>2
<1>5. /\ s[1] \in Int /\ s[2] \in Int /\ s[3] \in Int /\ s[4] \in Int
      /\ s[5] \in Int /\ s[6] \in Int
      /\ s[7] \in Int /\ s[8] \in Int /\ s[9] \in Int /\ s[10] \in Int /\ s[11] \in Int
  BY <1>1
<1>6. v[6] = 32 * s[1] + 16 * s[2] + 8 * s[3] + 4 * s[4] + 2 * s[5] + s[6]
  BY <1>2, <1>4, <1>5
<1>7. v[8] = 128 * s[1] + 64 * s[2] + 32 * s[3] + 16 * s[4]
             + 8 * s[5] + 4 * s[6] + 2 * s[7] + s[8]
  BY <1>4, <1>5, <1>6
<1>8. v[9] = 256 * s[1] + 128 * s[2] + 64 * s[3] + 32 * s[4] + 16 * s[5] + 8 * s[6] + 4 * s[7]
             + 2 * s[8] + s[9]
  BY <1>4, <1>5, <1>7
<1>9. v[10] = 512 * s[1] + 256 * s[2] + 128 * s[3] + 64 * s[4] + 32 * s[5] + 16 * s[6] + 8 * s[7]
              + 4 * s[8] + 2 * s[9] + s[10]
  BY <1>4, <1>5, <1>8
<1>. QED
  BY <1>3, <1>4, <1>5, <1>9

\* What eight bits read.
LEMMA Eight ==
  ASSUME NEW s \in [1..8 -> Bits]
  PROVE  Value(s, 2) = 128 * s[1] + 64 * s[2] + 32 * s[3] + 16 * s[4] + 8 * s[5] + 4 * s[6]
                       + 2 * s[7] + s[8]
<1>1. s \in Seq(Int) /\ Len(s) = 8 /\ \A i \in 1..8 : s[i] \in Int
  <2>. DEFINE n == 8
  <2>1. n \in Nat /\ s \in [1..n -> Bits]
    OBVIOUS
  <2>. HIDE DEF n
  <2>2. s \in Seq(Int) /\ Len(s) = n /\ \A i \in 1..n : s[i] \in Int
    BY <2>1, BitsAre
  <2>. QED
    BY <2>2 DEF n
<1>. DEFINE v == Readings(s, 2)
<1>2. v[0] = 0 /\ \A n \in 1..8 : v[n] = 2 * v[n - 1] + s[n]
  <2>1. v[0] = 0 /\ \A n \in 1..Len(s) : v[n] = 2 * v[n - 1] + s[n]
    <3>1. s \in Seq(Int)
      BY <1>1
    <3>. QED
      BY <3>1, ReadsBits
  <2>. QED
    BY <1>1, <2>1
<1>3. Value(s, 2) = v[8]
  BY <1>1 DEF Value
<1>. HIDE DEF v
<1>4. /\ v[1] = 2 * v[0] + s[1] /\ v[2] = 2 * v[1] + s[2] /\ v[3] = 2 * v[2] + s[3]
      /\ v[4] = 2 * v[3] + s[4] /\ v[5] = 2 * v[4] + s[5] /\ v[6] = 2 * v[5] + s[6]
      /\ v[7] = 2 * v[6] + s[7] /\ v[8] = 2 * v[7] + s[8]
  BY <1>2
<1>5. /\ s[1] \in Int /\ s[2] \in Int /\ s[3] \in Int /\ s[4] \in Int /\ s[5] \in Int
      /\ s[6] \in Int /\ s[7] \in Int /\ s[8] \in Int
  BY <1>1
<1>. QED
  BY <1>2, <1>3, <1>4, <1>5

\* What four bits read.
LEMMA Four ==
  ASSUME NEW s \in [1..4 -> Bits]
  PROVE  Value(s, 2) = 8 * s[1] + 4 * s[2] + 2 * s[3] + s[4]
<1>1. s \in Seq(Int) /\ Len(s) = 4 /\ \A i \in 1..4 : s[i] \in Int
  <2>. DEFINE n == 4
  <2>1. n \in Nat /\ s \in [1..n -> Bits]
    OBVIOUS
  <2>. HIDE DEF n
  <2>2. s \in Seq(Int) /\ Len(s) = n /\ \A i \in 1..n : s[i] \in Int
    BY <2>1, BitsAre
  <2>. QED
    BY <2>2 DEF n
<1>. DEFINE v == Readings(s, 2)
<1>2. v[0] = 0 /\ \A n \in 1..4 : v[n] = 2 * v[n - 1] + s[n]
  <2>1. v[0] = 0 /\ \A n \in 1..Len(s) : v[n] = 2 * v[n - 1] + s[n]
    <3>1. s \in Seq(Int)
      BY <1>1
    <3>. QED
      BY <3>1, ReadsBits
  <2>. QED
    BY <1>1, <2>1
<1>3. Value(s, 2) = v[4]
  BY <1>1 DEF Value
<1>. HIDE DEF v
<1>4. /\ v[1] = 2 * v[0] + s[1] /\ v[2] = 2 * v[1] + s[2] /\ v[3] = 2 * v[2] + s[3]
      /\ v[4] = 2 * v[3] + s[4]
  BY <1>2
<1>5. s[1] \in Int /\ s[2] \in Int /\ s[3] \in Int /\ s[4] \in Int
  BY <1>1
<1>. QED
  BY <1>2, <1>3, <1>4, <1>5

\* A word of eleven bits gives each of them back.
LEMMA BitsOfWord ==
  ASSUME NEW s \in [1..11 -> Bits]
  PROVE  Value(s, 2) \in 0..2047 /\ \A i \in 0..10 : BitOf(Value(s, 2), 10 - i) = s[i + 1]
<1>. DEFINE v == Value(s, 2)
<1>1. \A i \in 1..11 : s[i] \in 0..1
  BY DEF Bits
<1>. DEFINE a == s[1]  b == s[2]  c == s[3]  d == s[4]  e == s[5]  f == s[6]
            g == s[7]  h == s[8]  k == s[9]  m == s[10]  n == s[11]
<1>3. v = 1024 * a + 512 * b + 256 * c + 128 * d + 64 * e + 32 * f + 16 * g + 8 * h
          + 4 * k + 2 * m + n
  BY Eleven
<1>2. /\ a \in 0..1 /\ b \in 0..1 /\ c \in 0..1 /\ d \in 0..1 /\ e \in 0..1 /\ f \in 0..1
      /\ g \in 0..1 /\ h \in 0..1 /\ k \in 0..1 /\ m \in 0..1 /\ n \in 0..1
  BY <1>1
<1>. HIDE DEF a, b, c, d, e, f, g, h, k, m, n
<1>. HIDE DEF v
<1>4. v \in Int /\ v >= 0 /\ v <= 2047
  BY <1>2, <1>3
<1>5. (v \div 1024) % 2 = a
  BY <1>2, <1>3, <1>4
<1>6. (v \div 512) % 2 = b
  BY <1>2, <1>3, <1>4
<1>7. (v \div 256) % 2 = c
  BY <1>2, <1>3, <1>4
<1>8. (v \div 128) % 2 = d
  BY <1>2, <1>3, <1>4
<1>9. (v \div 64) % 2 = e
  BY <1>2, <1>3, <1>4
<1>10. (v \div 32) % 2 = f
  BY <1>2, <1>3, <1>4
<1>11. (v \div 16) % 2 = g
  BY <1>2, <1>3, <1>4
<1>12. (v \div 8) % 2 = h
  BY <1>2, <1>3, <1>4
<1>13. (v \div 4) % 2 = k
  BY <1>2, <1>3, <1>4
<1>14. (v \div 2) % 2 = m
  BY <1>2, <1>3, <1>4
<1>15. (v \div 1) % 2 = n
  BY <1>2, <1>3, <1>4
<1>16. \A i \in 0..10 : BitOf(v, 10 - i) = s[i + 1]
  <2>. TAKE i \in 0..10
  <2>0. CASE i = 0
    BY <1>5, <2>0 DEF BitOf, a
  <2>1. CASE i = 1
    BY <1>6, <2>1 DEF BitOf, b
  <2>2. CASE i = 2
    BY <1>7, <2>2 DEF BitOf, c
  <2>3. CASE i = 3
    BY <1>8, <2>3 DEF BitOf, d
  <2>4. CASE i = 4
    BY <1>9, <2>4 DEF BitOf, e
  <2>5. CASE i = 5
    BY <1>10, <2>5 DEF BitOf, f
  <2>6. CASE i = 6
    BY <1>11, <2>6 DEF BitOf, g
  <2>7. CASE i = 7
    BY <1>12, <2>7 DEF BitOf, h
  <2>8. CASE i = 8
    BY <1>13, <2>8 DEF BitOf, k
  <2>9. CASE i = 9
    BY <1>14, <2>9 DEF BitOf, m
  <2>10. CASE i = 10
    BY <1>15, <2>10 DEF BitOf, n
  <2>. QED
    BY <2>0, <2>1, <2>2, <2>3, <2>4, <2>5, <2>6, <2>7, <2>8, <2>9, <2>10
<1>. QED
  BY <1>4, <1>16 DEF v

\* And the eight bits of a byte, or the four of a short checksum, make it up.
LEMMA BitsOfByte ==
  ASSUME NEW x \in Byte
  PROVE  Value([b \in 1..8 |-> BitOf(x, 8 - b)], 2) = x
<1>. DEFINE s == [b \in 1..8 |-> BitOf(x, 8 - b)]
<1>1. x \in Nat /\ x \in 0..255
  BY DEF Byte
<1>2. s \in [1..8 -> Bits]
  <2>1. \A b \in 1..8 : BitOf(x, 8 - b) \in Bits
    BY <1>1, BitOfIs
  <2>. QED
    BY <2>1
<1>3. /\ s[1] = (x \div 128) % 2 /\ s[2] = (x \div 64) % 2 /\ s[3] = (x \div 32) % 2
      /\ s[4] = (x \div 16) % 2 /\ s[5] = (x \div 8) % 2 /\ s[6] = (x \div 4) % 2
      /\ s[7] = (x \div 2) % 2 /\ s[8] = (x \div 1) % 2
  <2>1. /\ 2^0 = 1 /\ 2^1 = 2 /\ 2^2 = 4 /\ 2^3 = 8 /\ 2^4 = 16 /\ 2^5 = 32 /\ 2^6 = 64
        /\ 2^7 = 128
    OBVIOUS
  <2>. QED
    BY <2>1 DEF BitOf
<1>. HIDE DEF s
<1>4. Value(s, 2) = 128 * s[1] + 64 * s[2] + 32 * s[3] + 16 * s[4] + 8 * s[5] + 4 * s[6]
                    + 2 * s[7] + s[8]
  BY <1>2, Eight
<1>5. Value(s, 2) = x
  BY <1>1, <1>3, <1>4
<1>. QED
  BY <1>5 DEF s

\* The bits of a number of four bits are those it was read from.
LEMMA BitsOfNibble ==
  ASSUME NEW x \in 0..15
  PROVE  Value([b \in 1..4 |-> BitOf(x, 4 - b)], 2) = x
<1>. DEFINE s == [b \in 1..4 |-> BitOf(x, 4 - b)]
<1>1. x \in Nat
  OBVIOUS
<1>2. s \in [1..4 -> Bits]
  <2>1. \A b \in 1..4 : BitOf(x, 4 - b) \in Bits
    BY <1>1, BitOfIs
  <2>. QED
    BY <2>1
<1>3. /\ s[1] = (x \div 8) % 2 /\ s[2] = (x \div 4) % 2 /\ s[3] = (x \div 2) % 2
      /\ s[4] = (x \div 1) % 2
  <2>1. 2^0 = 1 /\ 2^1 = 2 /\ 2^2 = 4 /\ 2^3 = 8
    OBVIOUS
  <2>. QED
    BY <2>1 DEF BitOf
<1>. HIDE DEF s
<1>4. Value(s, 2) = 8 * s[1] + 4 * s[2] + 2 * s[3] + s[4]
  BY <1>2, Four
<1>5. Value(s, 2) = x
  BY <1>1, <1>3, <1>4
<1>. QED
  BY <1>5 DEF s

(***************************************************************************)
(* Words: the stream of bits, and the invariant.                           *)
(***************************************************************************)

\* Bits of the entropy and the checksum of a mnemonic, and a word of them.
StreamLen(m) == 8 * Len(m.entropy) + CHECKSUM_BITS[Len(m.entropy)]
WordAt(m, i) == Value([b \in 1..11 |-> StreamBit(m, 11 * (i - 1) + b - 1)], 2)

\* While to_word_indices runs: the words so far are those of the mnemonic.
WordsInv ==
  /\ mnemonic # NoMnemonic => mnemonic \in Entropies /\ Len(mnemonic.entropy) \in {16, 32}
  /\ mnemonic = NoMnemonic => indices = <<>>
  /\ codec \in {"idle", "base58"} => mnemonic = NoMnemonic
  /\ codec = "words" => mnemonic # NoMnemonic /\ Len(indices) < WORDS[Len(mnemonic.entropy)]
  /\ codec = "done" /\ mnemonic # NoMnemonic => Len(indices) = WORDS[Len(mnemonic.entropy)]
  /\ indices \in Seq(Nat)
  /\ \A i \in DOMAIN indices : /\ i <= WORDS[Len(mnemonic.entropy)]
                               /\ indices[i] = WordAt(mnemonic, i)

\* The two lengths of a mnemonic.
LEMMA Sizes ==
  /\ DOMAIN WORDS = {16, 32} /\ WORDS[16] = 12 /\ WORDS[32] = 24
  /\ CHECKSUM_BITS[16] = 4 /\ CHECKSUM_BITS[32] = 8
BY DEF WORDS, CHECKSUM_BITS

\* A mnemonic that is encoded: its entropy, its checksum and as many bits as words take.
LEMMA Mnemonics ==
  ASSUME NEW m \in Entropies, Len(m.entropy) \in {16, 32}
  PROVE  /\ m.entropy \in Seq(Byte) /\ \A i \in 1..Len(m.entropy) : m.entropy[i] \in Nat
         /\ m.hash \in Byte
         /\ StreamLen(m) = 11 * WORDS[Len(m.entropy)] /\ WORDS[Len(m.entropy)] \in Nat
<1>1. m \in [entropy : Seq(Byte), hash : Byte]
  BY CodecAssumption DEF CodecAssumption, Byte
<1>2. m.entropy \in Seq(Byte) /\ m.hash \in Byte
  BY <1>1
<1>3. StreamLen(m) = 11 * WORDS[Len(m.entropy)] /\ WORDS[Len(m.entropy)] \in Nat
  <2>1. CASE Len(m.entropy) = 16
    BY <2>1, Sizes DEF StreamLen
  <2>2. CASE Len(m.entropy) = 32
    BY <2>2, Sizes DEF StreamLen
  <2>. QED
    BY <2>1, <2>2
<1>4. \A i \in 1..Len(m.entropy) : m.entropy[i] \in Nat
  BY <1>2, BytesAre DEF Byte
<1>. QED
  BY <1>2, <1>3, <1>4

\* The bits are those of the entropy, then the first ones of the hash.
LEMMA StreamBits ==
  ASSUME NEW m \in Entropies, Len(m.entropy) \in {16, 32}
  PROVE  /\ \A k \in 1..Len(m.entropy) : \A b \in 1..8 :
              StreamBit(m, 8 * (k - 1) + b - 1) = BitOf(m.entropy[k], 8 - b)
         /\ \A b \in 1..CHECKSUM_BITS[Len(m.entropy)] :
              StreamBit(m, 8 * Len(m.entropy) + b - 1)
                = BitOf(m.hash \div 2^(8 - CHECKSUM_BITS[Len(m.entropy)]),
                        CHECKSUM_BITS[Len(m.entropy)] - b)
<1>. DEFINE e == m.entropy  L == Len(e)  bits == CHECKSUM_BITS[L]
            checksum == m.hash \div 2^(8 - bits)
<1>1. L \in {16, 32} /\ bits \in {4, 8}
  BY Sizes
<1>2. \A pos : StreamBit(m, pos) = IF pos < 8 * L THEN BitOf(e[pos \div 8 + 1], 7 - (pos % 8))
                                   ELSE BitOf(checksum, bits - 1 - (pos - 8 * L))
  BY DEF StreamBit
<1>. HIDE DEF L, bits, checksum, e
<1>3. ASSUME NEW k \in 1..L, NEW b \in 1..8
      PROVE  StreamBit(m, 8 * (k - 1) + b - 1) = BitOf(e[k], 8 - b)
  <2>. DEFINE pos == 8 * (k - 1) + b - 1
  <2>1. k \in Int /\ b \in Int /\ pos \in Int /\ pos < 8 * L
    BY <1>1
  <2>2. pos \div 8 = k - 1 /\ pos % 8 = b - 1
    BY <2>1
  <2>. HIDE DEF pos
  <2>3. StreamBit(m, pos) = BitOf(e[pos \div 8 + 1], 7 - (pos % 8))
    BY <1>2, <2>1
  <2>4. pos \div 8 + 1 = k /\ 7 - (pos % 8) = 8 - b
    BY <2>1, <2>2
  <2>5. StreamBit(m, pos) = BitOf(e[k], 8 - b)
    BY <2>3, <2>4
  <2>. QED
    BY <2>5 DEF pos
<1>4. ASSUME NEW b \in 1..bits
      PROVE  StreamBit(m, 8 * L + b - 1) = BitOf(checksum, bits - b)
  <2>. DEFINE pos == 8 * L + b - 1
  <2>1. b \in Int /\ L \in Int /\ bits \in Int /\ pos \in Int /\ ~(pos < 8 * L)
    BY <1>1
  <2>2. bits - 1 - (pos - 8 * L) = bits - b
    BY <2>1
  <2>. HIDE DEF pos
  <2>3. StreamBit(m, pos) = BitOf(checksum, bits - 1 - (pos - 8 * L))
    BY <1>2, <2>1
  <2>4. StreamBit(m, pos) = BitOf(checksum, bits - b)
    BY <2>2, <2>3
  <2>. QED
    BY <2>4 DEF pos
<1>. QED
  BY <1>3, <1>4 DEF checksum, bits, L, e

\* Every bit of the stream is one.
LEMMA StreamOfBits ==
  ASSUME NEW m \in Entropies, Len(m.entropy) \in {16, 32}, NEW pos \in 0..(StreamLen(m) - 1)
  PROVE  StreamBit(m, pos) \in Bits
<1>. DEFINE L == Len(m.entropy)  bits == CHECKSUM_BITS[L]
<1>1. L \in {16, 32} /\ bits \in {4, 8} /\ StreamLen(m) = 8 * L + bits
  BY Sizes DEF StreamLen
<1>2. m.entropy \in Seq(Byte) /\ m.hash \in Byte /\ \A i \in 1..L : m.entropy[i] \in Nat
  BY Mnemonics
<1>. HIDE DEF L, bits
<1>3. pos \in Int /\ pos >= 0 /\ pos < 8 * L + bits
  BY <1>1
<1>4. CASE pos < 8 * L
  <2>. DEFINE k == pos \div 8 + 1  b == (pos % 8) + 1
  <2>1. k \in 1..L /\ b \in 1..8 /\ pos = 8 * (k - 1) + b - 1
    BY <1>1, <1>3, <1>4
  <2>. HIDE DEF k, b
  <2>2. StreamBit(m, pos) = BitOf(m.entropy[k], 8 - b)
    BY <2>1, StreamBits DEF L
  <2>3. m.entropy[k] \in Nat /\ 8 - b \in 0..10
    BY <1>2, <2>1
  <2>. QED
    BY <2>2, <2>3, BitOfIs
<1>5. CASE pos >= 8 * L
  <2>. DEFINE b == pos - 8 * L + 1  c == m.hash \div 2^(8 - bits)
  <2>1. b \in 1..bits /\ pos = 8 * L + b - 1
    BY <1>1, <1>3, <1>5
  <2>2. c \in Nat
    <3>1. m.hash \in Nat
      <4>1. m.hash \in Byte
        BY <1>2
      <4>. QED
        BY <4>1 DEF Byte
    <3>2. CASE bits = 4
      BY <3>1, <3>2
    <3>3. CASE bits = 8
      BY <3>1, <3>3
    <3>. QED
      BY <1>1, <3>2, <3>3
  <2>. HIDE DEF b, c
  <2>3. StreamBit(m, pos) = BitOf(c, bits - b)
    BY <2>1, StreamBits DEF L, bits, c
  <2>4. bits - b \in 0..10
    BY <1>1, <2>1
  <2>. QED
    BY <2>2, <2>3, <2>4, BitOfIs
<1>6. pos < 8 * L \/ pos >= 8 * L
  BY <1>1, <1>3
<1>. QED
  BY <1>4, <1>5, <1>6

\* A word of the mnemonic holds its eleven bits.
Holds(m, i) ==
  /\ WordAt(m, i) \in 0..2047
  /\ \A n \in 0..10 : BitOf(WordAt(m, i), 10 - n) = StreamBit(m, 11 * (i - 1) + n)

\* It does, because eleven bits are the digits of one number below 2048.
LEMMA WordHolds ==
  ASSUME NEW m \in Entropies, Len(m.entropy) \in {16, 32}, NEW i \in 1..WORDS[Len(m.entropy)]
  PROVE  Holds(m, i)
<1>. DEFINE s == [b \in 1..11 |-> StreamBit(m, 11 * (i - 1) + b - 1)]
<1>1. s \in [1..11 -> Bits]
  <2>. SUFFICES ASSUME NEW b \in 1..11 PROVE StreamBit(m, 11 * (i - 1) + b - 1) \in Bits
    OBVIOUS
  <2>1. StreamLen(m) = 11 * WORDS[Len(m.entropy)] /\ WORDS[Len(m.entropy)] \in Nat
    BY Mnemonics
  <2>. DEFINE pos == 11 * (i - 1) + b - 1
  <2>2. pos \in 0..(StreamLen(m) - 1)
    BY <2>1
  <2>. HIDE DEF pos
  <2>3. StreamBit(m, pos) \in Bits
    BY <2>2, StreamOfBits
  <2>. QED
    BY <2>3 DEF pos
<1>2. \A n \in 0..10 : s[n + 1] = StreamBit(m, 11 * (i - 1) + n)
  <2>. TAKE n \in 0..10
  <2>1. n + 1 \in 1..11 /\ i \in Int /\ 11 * (i - 1) + (n + 1) - 1 = 11 * (i - 1) + n
    OBVIOUS
  <2>2. s[n + 1] = StreamBit(m, 11 * (i - 1) + (n + 1) - 1)
    BY <2>1
  <2>. QED
    BY <2>1, <2>2
<1>. HIDE DEF s
<1>3. Value(s, 2) \in 0..2047 /\ \A n \in 0..10 : BitOf(Value(s, 2), 10 - n) = s[n + 1]
  BY <1>1, BitsOfWord
<1>4. WordAt(m, i) = Value(s, 2)
  BY DEF WordAt, s
<1>5. ASSUME NEW n \in 0..10 PROVE BitOf(WordAt(m, i), 10 - n) = StreamBit(m, 11 * (i - 1) + n)
  <2>1. BitOf(Value(s, 2), 10 - n) = s[n + 1]
    BY <1>3
  <2>2. s[n + 1] = StreamBit(m, 11 * (i - 1) + n)
    BY <1>2
  <2>. QED
    BY <1>4, <2>1, <2>2
<1>. QED
  BY <1>3, <1>4, <1>5 DEF Holds

(***************************************************************************)
(* Words: the steps.                                                       *)
(***************************************************************************)

\* No words yet.
LEMMA WordsBegin == CodecInit => WordsInv
<1>. SUFFICES ASSUME CodecInit PROVE WordsInv
  OBVIOUS
<1>1. codec = "idle" /\ mnemonic = NoMnemonic /\ indices = <<>>
  BY DEF CodecInit
<1>. QED
  BY <1>1 DEF WordsInv

\* from_entropy accepts two lengths, for which the words take all the bits.
LEMMA FromEntropyKeeps ==
  ASSUME WordsInv, NEW m \in Entropies, FromEntropy(m)
  PROVE  WordsInv'
<1>1. codec = "idle" /\ indices' = indices /\ mnemonic = NoMnemonic /\ indices = <<>>
  BY DEF FromEntropy, WordsInv
<1>2. CASE Len(m.entropy) \in DOMAIN WORDS
  <2>1. mnemonic' = m /\ codec' = "words" /\ Len(m.entropy) \in {16, 32}
    BY <1>2, Sizes DEF FromEntropy
  <2>2. m # NoMnemonic
    <3>1. NoMnemonic.entropy = <<>> /\ Len(<<>>) = 0
      BY DEF NoMnemonic
    <3>2. PICK e : e = m.entropy
      OBVIOUS
    <3>3. Len(e) \in {16, 32}
      BY <2>1, <3>2
    <3>4. Len(e) # 0
      BY <3>3
    <3>. QED
      BY <3>1, <3>2, <3>4
  <2>3. Len(<<>>) < WORDS[Len(m.entropy)]
    <3>1. WORDS[Len(m.entropy)] \in {12, 24}
      BY <2>1, Sizes
    <3>. QED
      BY <3>1
  <2>. QED
    BY <1>1, <2>1, <2>2, <2>3 DEF WordsInv
<1>3. CASE Len(m.entropy) \notin DOMAIN WORDS
  <2>1. mnemonic' = mnemonic /\ codec' = "done"
    BY <1>3 DEF FromEntropy
  <2>. QED
    BY <1>1, <2>1 DEF WordsInv
<1>. QED
  BY <1>2, <1>3

\* One word more of to_word_indices.
LEMMA WordIndexKeeps ==
  ASSUME WordsInv, WordIndex
  PROVE  WordsInv'
<1>1. PICK m, s : m = mnemonic /\ s = indices
  OBVIOUS
<1>. DEFINE W == WORDS[Len(m.entropy)]  n == Len(s)  x == WordAt(m, n + 1)  t == Append(s, x)
<1>2. /\ codec = "words" /\ m # NoMnemonic /\ m \in Entropies /\ Len(m.entropy) \in {16, 32}
      /\ s \in Seq(Nat) /\ n < W /\ \A i \in DOMAIN s : i <= W /\ s[i] = WordAt(m, i)
  BY <1>1 DEF WordIndex, WordsInv
<1>3. W \in Nat /\ n \in Nat /\ StreamLen(m) = 11 * W /\ n + 1 \in 1..W
  BY <1>2, Mnemonics
<1>4. indices' = t /\ mnemonic' = m
  <2>1. 11 * n = 11 * ((n + 1) - 1)
    BY <1>3
  <2>2. indices' = Append(s, Value([b \in 1..11 |-> StreamBit(m, 11 * n + b - 1)], 2))
    BY <1>1 DEF WordIndex
  <2>3. mnemonic' = m
    BY <1>1 DEF WordIndex
  <2>. QED
    BY <2>1, <2>2, <2>3 DEF WordAt
<1>5. codec' = IF n + 1 = W THEN "done" ELSE "words"
  <2>1. codec' = IF n + 1 = StreamLen(m) \div 11 THEN "done" ELSE "words"
    BY <1>1 DEF WordIndex, StreamLen
  <2>2. (11 * W) \div 11 = W
    BY <1>3
  <2>. QED
    BY <1>3, <2>1, <2>2
<1>6. x \in Nat
  <2>1. PICK i : i = n + 1
    OBVIOUS
  <2>2. Holds(m, i)
    BY <1>2, <1>3, <2>1, WordHolds
  <2>3. PICK y : y = WordAt(m, i)
    OBVIOUS
  <2>4. y \in 0..2047
    BY <2>2, <2>3 DEF Holds
  <2>5. x = y
    BY <2>1, <2>3
  <2>. HIDE DEF x
  <2>6. y \in Nat
    BY <2>4
  <2>. QED
    BY <2>5, <2>6
<1>. HIDE DEF x
<1>7. t \in Seq(Nat) /\ Len(t) = n + 1 /\ t[n + 1] = x /\ \A i \in 1..n : t[i] = s[i]
  BY <1>2, <1>6
<1>8. \A i \in DOMAIN t : i <= W /\ t[i] = WordAt(m, i)
  <2>. SUFFICES ASSUME NEW i \in 1..(n + 1) PROVE i <= W /\ t[i] = WordAt(m, i)
    BY <1>3, <1>7
  <2>1. CASE i = n + 1
    BY <1>3, <1>7, <2>1 DEF x
  <2>2. CASE i # n + 1
    <3>1. i \in 1..n /\ i \in DOMAIN s
      BY <1>2, <1>3, <2>2
    <3>. QED
      BY <1>2, <1>7, <3>1
  <2>. QED
    BY <2>1, <2>2
<1>. HIDE DEF t, n, W
<1>9. /\ codec' = "words" => Len(t) < W
      /\ codec' = "done" => Len(t) = W
      /\ codec' \in {"words", "done"}
  BY <1>3, <1>5, <1>7
<1>. QED
  BY <1>2, <1>4, <1>7, <1>8, <1>9 DEF WordsInv, W

\* Encoding in base 58 leaves the words alone.
LEMMA WordsOther ==
  ASSUME WordsInv,
         \/ (\E bytes \in Payloads : Encode(bytes)) \/ Digit \/ EncodeReturns
         \/ UNCHANGED codecVars
  PROVE  WordsInv'
<1>1. CASE UNCHANGED codecVars
  BY <1>1 DEF WordsInv, codecVars
<1>2. CASE (\E bytes \in Payloads : Encode(bytes)) \/ Digit \/ EncodeReturns
  <2>1. /\ codec \in {"idle", "base58"} /\ codec' \in {"base58", "done"}
        /\ mnemonic' = mnemonic /\ indices' = indices
    BY <1>2 DEF Encode, Digit, EncodeReturns
  <2>2. mnemonic = NoMnemonic /\ indices = <<>>
    BY <2>1 DEF WordsInv
  <2>. QED
    BY <2>1, <2>2 DEF WordsInv
<1>. QED
  BY <1>1, <1>2

\* The bits of the words are the stream, so eight of them are a byte of the entropy and
\* the last ones the checksum.
LEMMA WordsFollow == WordsInv => WordsSpellEntropy
<1>. SUFFICES ASSUME WordsInv, codec = "done" /\ mnemonic # NoMnemonic PROVE WordsSpellEntropy
  BY DEF WordsSpellEntropy
<1>1. PICK m, s : m = mnemonic /\ s = indices
  OBVIOUS
<1>. DEFINE L == Len(m.entropy)  W == WORDS[L]  bits == CHECKSUM_BITS[L]
            Bit(j) == BitOf(s[j \div 11 + 1], 10 - (j % 11))
            Read(from, n) == Value([b \in 1..n |-> Bit(from + b - 1)], 2)
            checksum == m.hash \div 2^(8 - bits)
<1>2. /\ m \in Entropies /\ L \in {16, 32} /\ Len(s) = W /\ s \in Seq(Nat)
      /\ \A i \in DOMAIN s : s[i] = WordAt(m, i)
  BY <1>1 DEF WordsInv
<1>3. /\ m.entropy \in Seq(Byte) /\ m.hash \in Byte
      /\ StreamLen(m) = 11 * W /\ W \in Nat /\ StreamLen(m) = 8 * L + bits /\ bits \in {4, 8}
  BY <1>2, Mnemonics, Sizes DEF StreamLen
<1>. HIDE DEF L, W, bits
<1>4. ASSUME NEW j \in 0..(8 * L + bits - 1) PROVE Bit(j) = StreamBit(m, j)
  <2>. DEFINE i == j \div 11 + 1  n == j % 11
  <2>1. i \in 1..W /\ n \in 0..10 /\ j = 11 * (i - 1) + n
    BY <1>2, <1>3
  <2>. HIDE DEF i, n
  <2>2. s[i] = WordAt(m, i)
    BY <1>2, <2>1
  <2>3. BitOf(WordAt(m, i), 10 - n) = StreamBit(m, 11 * (i - 1) + n)
    <3>1. Holds(m, i)
      BY <1>2, <2>1, WordHolds DEF L, W
    <3>. QED
      BY <2>1, <3>1 DEF Holds
  <2>4. Bit(j) = BitOf(s[i], 10 - n)
    BY DEF i, n
  <2>. QED
    BY <2>1, <2>2, <2>3, <2>4
<1>. HIDE DEF Bit
<1>5. ASSUME NEW k \in 1..L PROVE Read(8 * (k - 1), 8) = m.entropy[k]
  <2>1. \A b \in 1..8 : Bit(8 * (k - 1) + b - 1) = BitOf(m.entropy[k], 8 - b)
    <3>. TAKE b \in 1..8
    <3>. DEFINE j == 8 * (k - 1) + b - 1
    <3>1. j \in 0..(8 * L + bits - 1)
      BY <1>2, <1>3
    <3>. HIDE DEF j
    <3>2. Bit(j) = StreamBit(m, j)
      BY <1>4, <3>1
    <3>. QED
      BY <1>2, <3>2, StreamBits DEF j, L
  <2>2. Read(8 * (k - 1), 8) = Value([b \in 1..8 |-> BitOf(m.entropy[k], 8 - b)], 2)
    BY <2>1
  <2>3. m.entropy[k] \in Byte
    BY <1>3 DEF L
  <2>. QED
    BY <2>2, <2>3, BitsOfByte
<1>6. Read(8 * L, bits) = checksum
  <2>1. \A b \in 1..bits : Bit(8 * L + b - 1) = BitOf(checksum, bits - b)
    <3>. TAKE b \in 1..bits
    <3>. DEFINE j == 8 * L + b - 1
    <3>1. j \in 0..(8 * L + bits - 1)
      BY <1>2, <1>3
    <3>. HIDE DEF j
    <3>2. Bit(j) = StreamBit(m, j)
      BY <1>4, <3>1
    <3>. QED
      BY <1>2, <3>2, StreamBits DEF j, L, bits
  <2>2. Read(8 * L, bits) = Value([b \in 1..bits |-> BitOf(checksum, bits - b)], 2)
    BY <2>1
  <2>. DEFINE h == m.hash
  <2>3. h \in 0..255
    BY <1>3 DEF Byte
  <2>4. CASE bits = 4
    <3>1. checksum \in 0..15
      <4>1. 8 - bits = 4 /\ 2^4 = 16
        BY <2>4
      <4>2. checksum = h \div 16
        BY <4>1
      <4>. HIDE DEF h, checksum
      <4>. QED
        BY <2>3, <4>2
    <3>. HIDE DEF checksum
    <3>2. Value([b \in 1..4 |-> BitOf(checksum, 4 - b)], 2) = checksum
      BY <3>1, BitsOfNibble
    <3>. QED
      BY <2>2, <2>4, <3>2
  <2>5. CASE bits = 8
    <3>1. checksum \in Byte
      <4>1. 8 - bits = 0 /\ 2^0 = 1
        BY <2>5
      <4>2. checksum = h \div 1
        BY <4>1
      <4>. HIDE DEF h, checksum
      <4>. QED
        BY <2>3, <4>2 DEF Byte
    <3>. HIDE DEF checksum
    <3>2. Value([b \in 1..8 |-> BitOf(checksum, 8 - b)], 2) = checksum
      BY <3>1, BitsOfByte
    <3>. QED
      BY <2>2, <2>5, <3>2
  <2>. QED
    BY <1>3, <2>4, <2>5
<1>7. DOMAIN m.entropy = 1..L
  BY <1>3 DEF L
<1>. QED
  BY <1>1, <1>2, <1>5, <1>6, <1>7 DEF WordsSpellEntropy, L, W, bits, Bit

(***************************************************************************)
(* The codecs together.                                                    *)
(***************************************************************************)

\* The invariant of the codecs.
CodecInv == codec \in {"idle", "base58", "words", "done"} /\ Base58Inv /\ WordsInv

\* Both start idle.
LEMMA CodecBegins == CodecInit => CodecInv
BY Base58Begins, WordsBegin DEF CodecInv, CodecInit

\* Every step of either keeps both.
LEMMA CodecStep == CodecInv /\ (CodecNext \/ UNCHANGED codecVars) => CodecInv'
<1>. SUFFICES ASSUME CodecInv, CodecNext \/ UNCHANGED codecVars PROVE CodecInv'
  OBVIOUS
<1>. USE DEF CodecInv
<1>1. ASSUME NEW bytes \in Payloads, Encode(bytes) PROVE CodecInv'
  <2>1. codec' = "base58"
    BY <1>1 DEF Encode
  <2>. QED
    BY <1>1, <2>1, EncodeKeeps, WordsOther
<1>2. CASE Digit
  <2>1. codec' = "base58"
    BY <1>2 DEF Digit
  <2>. QED
    BY <1>2, <2>1, DigitKeeps, WordsOther
<1>3. CASE EncodeReturns
  <2>1. codec' = "done"
    BY <1>3 DEF EncodeReturns
  <2>. QED
    BY <1>3, <2>1, EncodeReturnsKeeps, WordsOther
<1>4. ASSUME NEW m \in Entropies, FromEntropy(m) PROVE CodecInv'
  <2>1. codec' \in {"words", "done"}
    BY <1>4 DEF FromEntropy
  <2>. QED
    BY <1>4, <2>1, FromEntropyKeeps, Base58Other
<1>5. CASE WordIndex
  <2>1. codec' \in {"words", "done"}
    BY <1>5 DEF WordIndex
  <2>. QED
    BY <1>5, <2>1, WordIndexKeeps, Base58Other
<1>6. CASE UNCHANGED codecVars
  <2>1. codec' = codec
    BY <1>6 DEF codecVars
  <2>. QED
    BY <1>6, <2>1, WordsOther, Base58Other
<1>. QED
  BY <1>1, <1>2, <1>3, <1>4, <1>5, <1>6 DEF CodecNext

\* What the invariant says of the codecs.
LEMMA CodecFollows ==
  CodecInv => CodecTypeOK /\ Base58KeepsValue /\ DigitsFit /\ WordsSpellEntropy
<1>. SUFFICES ASSUME CodecInv PROVE CodecTypeOK
  BY Base58Follows, WordsFollow DEF CodecInv
<1>0. DigitsFit
  BY Base58Follows DEF CodecInv
<1>1. \A i \in DOMAIN num : num[i] \in 0..255
  <2>1. PICK s : s = num /\ s \in Seq(Byte)
    BY DEF CodecInv, Base58Inv
  <2>2. \A i \in DOMAIN s : s[i] \in Byte
    BY <2>1
  <2>. QED
    BY <2>1, <2>2 DEF Byte
<1>2. \A i \in DOMAIN chars : chars[i] \in 0..57
  BY DigitsAre DEF CodecInv, Base58Inv
<1>3. ASSUME NEW i \in DOMAIN indices PROVE indices[i] \in 0..2047
  <2>1. PICK m, s : m = mnemonic /\ s = indices
    OBVIOUS
  <2>2. /\ m # NoMnemonic => m \in Entropies /\ Len(m.entropy) \in {16, 32}
        /\ m = NoMnemonic => s = <<>>
        /\ s \in Seq(Nat) /\ i \in DOMAIN s /\ i <= WORDS[Len(m.entropy)] /\ s[i] = WordAt(m, i)
    BY <1>3, <2>1 DEF CodecInv, WordsInv
  <2>3. m \in Entropies /\ Len(m.entropy) \in {16, 32}
    BY <2>2
  <2>4. i \in 1..WORDS[Len(m.entropy)]
    BY <2>2, <2>3, Mnemonics
  <2>5. Holds(m, i)
    BY <2>3, <2>4, WordHolds
  <2>. QED
    BY <2>1, <2>2, <2>5 DEF Holds
<1>. QED
  BY <1>0, <1>1, <1>2, <1>3 DEF CodecTypeOK, CodecInv

\* The buffers are large enough for 82 bytes.
LEMMA Doubled ==
  ASSUME NEW k \in Nat, NEW m \in Nat, NEW n \in Nat, k * Power(256, m) <= Power(58, n)
  PROVE  (k * k) * Power(256, m + m) <= Power(58, n + n)
<1>. DEFINE a == Power(256, m)  b == Power(58, n)
<1>1. a \in Nat
  BY PowerPositive
<1>2. b \in Nat
  BY PowerPositive
<1>3. Power(256, m + m) = a * a
  BY PowerAdds
<1>4. Power(58, n + n) = b * b
  BY PowerAdds
<1>. HIDE DEF a, b
<1>5. k * a <= b
  BY DEF a, b
<1>6. \A x, y \in Nat : x <= y => x * x <= y * y
  OBVIOUS
<1>7. k * a \in Nat /\ (k * a) * (k * a) = (k * k) * (a * a)
  BY <1>1
<1>8. (k * a) * (k * a) <= b * b
  BY <1>2, <1>5, <1>6, <1>7
<1>. QED
  BY <1>3, <1>4, <1>7, <1>8

\* The sizes of the code meet CodecAssumption: 112 digits hold 82 bytes.
LEMMA RealSizesFit == Power(256, 82) <= Power(58, 112)
<1>1. \A r \in {58, 256} : Power(r, 0) = 1 /\ \A n \in Nat : Power(r, n + 1) = r * Power(r, n)
  BY PowerZero, PowerNext
<1>2. Power(256, 5) = 1099511627776
  <2>1. Power(256, 1) = 256
    BY <1>1
  <2>2. Power(256, 2) = 65536
    BY <1>1, <2>1
  <2>3. Power(256, 3) = 16777216
    BY <1>1, <2>2
  <2>4. Power(256, 4) = 4294967296
    BY <1>1, <2>3
  <2>. QED
    BY <1>1, <2>4
<1>3. Power(58, 7) = 2207984167552
  <2>1. Power(58, 1) = 58
    BY <1>1
  <2>2. Power(58, 2) = 3364
    BY <1>1, <2>1
  <2>3. Power(58, 3) = 195112
    BY <1>1, <2>2
  <2>4. Power(58, 4) = 11316496
    BY <1>1, <2>3
  <2>5. Power(58, 5) = 656356768
    BY <1>1, <2>4
  <2>6. Power(58, 6) = 38068692544
    BY <1>1, <2>5
  <2>. QED
    BY <1>1, <2>6
<1>4. 2 * Power(256, 5) <= Power(58, 7)
  BY <1>2, <1>3
<1>5. 4 * Power(256, 10) <= Power(58, 14)
  <2>1. (2 * 2) * Power(256, 5 + 5) <= Power(58, 7 + 7)
    BY <1>4, Doubled
  <2>. QED
    BY <2>1
<1>6. 16 * Power(256, 20) <= Power(58, 28)
  <2>1. (4 * 4) * Power(256, 10 + 10) <= Power(58, 14 + 14)
    BY <1>5, Doubled
  <2>. QED
    BY <2>1
<1>7. 256 * Power(256, 40) <= Power(58, 56)
  <2>1. (16 * 16) * Power(256, 20 + 20) <= Power(58, 28 + 28)
    BY <1>6, Doubled
  <2>. QED
    BY <2>1
<1>8. 1 * Power(256, 41) <= Power(58, 56)
  <2>1. Power(256, 40 + 1) = 256 * Power(256, 40) /\ Power(256, 41) \in Int
    BY PowerNext
  <2>. QED
    BY <1>7, <2>1
<1>9. (1 * 1) * Power(256, 41 + 41) <= Power(58, 56 + 56)
  BY <1>8, Doubled
<1>10. Power(256, 82) \in Int
  BY PowerNext
<1>. QED
  BY <1>9, <1>10

(***************************************************************************)
(* The preview (Psbt): the invariant.                                      *)
(***************************************************************************)

\* What a message is made of.
Items == {Separator, Entry(OTHER_KEY, 0)} \cup {Entry(WITNESS_UTXO, v) : v \in Amounts}
         \cup {Entry(UNSIGNED_TX, t) : t \in DOMAIN Txs}

\* The map entry i of d is in, and what the first n entries say map m holds.
Maps(d, i) == Cardinality({j \in 1..(i - 1) : d[j] = Separator})
Utxos(d, m, n) == {i \in 1..n : Maps(d, i) = m /\ m > 0 /\ d[i].key = WITNESS_UTXO}
AmountUpTo(d, m, n) == IF Utxos(d, m, n) = {} THEN 0 ELSE d[Max(Utxos(d, m, n))].val
Given(d, k, n) == [m \in 1..k |-> AmountUpTo(d, m, n)]

\* After n entries of d the sum is that of the maps that are over, and the amount that
\* of the map being read.
Counting(d, n, ins, amount) ==
  LET k == Maps(d, n + 1)
  IN  k >= 1 /\ SumOf(ins) = SumOf(Given(d, k - 1, n)) /\ amount = AmountUpTo(d, k, n)

\* The fee of a whole message, sums modulo U64.
FeeShown(d, t) ==
  SaturatingSub(SumOf(Given(d, Maps(d, Len(d) + 1), Len(d))) % U64, SumOf(Values(t.outs)) % U64)

\* The invariant of the parser.
PsbtInv ==
  /\ data \in Seq(Items) /\ offset \in 0..Len(data)
  /\ parser \in {"host", "global", "outputs", "inputs", "done"} /\ tx \in 0..Len(Txs)
  /\ inputs \in Seq(Nat) /\ Len(inputs) <= CAPACITY /\ input_value \in Nat
  /\ Len(outputs) <= CAPACITY
  /\ preview.kind \in {"none", "ok", "InvalidMagic", "InvalidStructure", "MissingField"}
  /\ signed \in {"none", preview.kind, "SigningError", "BufferTooSmall"}
  /\ parser # "done" => signed = "none" /\ preview.kind = "none"
  /\ parser = "host" => offset = 0
  /\ parser \in {"host", "global"} =>
       outputs = <<>> /\ inputs = <<>> /\ input_value = 0 /\ Maps(data, offset + 1) = 0
  /\ parser \in {"outputs", "inputs"} => tx # 0 /\ Counting(data, offset, inputs, input_value)
  /\ parser = "outputs" =>
       outputs = SubSeq(Txs[tx].outs, 1, Len(outputs)) /\ Len(outputs) <= Len(Txs[tx].outs)
  /\ parser = "inputs" => outputs = Txs[tx].outs
  /\ preview.kind = "ok" => tx # 0 /\ (ending = "whole" => preview.fee = FeeShown(data, Txs[tx]))

\* What the entries of a message are.
LEMMA ItemsAre ==
  ASSUME NEW x \in Items
  PROVE  /\ x.key \in {-1, UNSIGNED_TX, WITNESS_UTXO, OTHER_KEY}
         /\ x.key = -1 <=> x = Separator
         /\ x.val \in Nat /\ (x.key = UNSIGNED_TX => x.val \in DOMAIN Txs)
<1>1. CASE x = Separator
  BY <1>1 DEF Separator, UNSIGNED_TX
<1>2. CASE x = Entry(OTHER_KEY, 0)
  BY <1>2 DEF Entry, OTHER_KEY, UNSIGNED_TX, Separator
<1>3. CASE \E v \in Amounts : x = Entry(WITNESS_UTXO, v)
  BY <1>3, PsbtAssumption DEF Entry, WITNESS_UTXO, UNSIGNED_TX, Separator
<1>4. CASE \E t \in DOMAIN Txs : x = Entry(UNSIGNED_TX, t)
  <2>1. DOMAIN Txs \subseteq Nat
    BY PsbtAssumption
  <2>. QED
    BY <1>4, <2>1 DEF Entry, UNSIGNED_TX, Separator
<1>. QED
  BY <1>1, <1>2, <1>3, <1>4 DEF Items

\* One entry more is in the same map, one separator more in the next.
LEMMA MapsNext ==
  ASSUME NEW d, NEW i \in Nat \ {0}
  PROVE  /\ Maps(d, 1) = 0 /\ Maps(d, i) \in Nat
         /\ Maps(d, i + 1) = Maps(d, i) + (IF d[i] = Separator THEN 1 ELSE 0)
<1>. DEFINE S(n) == {j \in 1..(n - 1) : d[j] = Separator}
<1>1. \A n \in Nat \ {0} : IsFiniteSet(S(n))
  <2>. TAKE n \in Nat \ {0}
  <2>1. S(n) \subseteq 1..(n - 1) /\ IsFiniteSet(1..(n - 1))
    BY FS_Interval
  <2>. QED
    BY <2>1, FS_Subset
<1>2. Maps(d, 1) = 0
  <2>1. S(1) = {}
    OBVIOUS
  <2>. QED
    BY <2>1, FS_EmptySet DEF Maps
<1>3. IsFiniteSet(S(i))
  BY <1>1
<1>4. Cardinality(S(i)) \in Nat
  BY <1>3, FS_CardinalityType
<1>5. CASE d[i] = Separator
  <2>1. S(i + 1) = S(i) \cup {i} /\ i \notin S(i)
    BY <1>5
  <2>2. Cardinality(S(i) \cup {i}) = Cardinality(S(i)) + 1
    <3>. HIDE DEF S
    <3>. QED
      BY <1>3, <2>1, FS_AddElement
  <2>. QED
    BY <1>2, <1>4, <1>5, <2>1, <2>2 DEF Maps
<1>6. CASE d[i] # Separator
  <2>1. S(i + 1) = S(i)
    BY <1>6
  <2>2. Maps(d, i) = Cardinality(S(i)) /\ Maps(d, i + 1) = Cardinality(S(i + 1))
    BY DEF Maps
  <2>. HIDE DEF S
  <2>. QED
    BY <1>2, <1>4, <1>6, <2>1, <2>2
<1>. QED
  BY <1>5, <1>6

\* Later entries are in later maps.
LEMMA MapsGrow ==
  ASSUME NEW d, NEW i \in Nat \ {0}, NEW j \in Nat \ {0}, i <= j
  PROVE  Maps(d, i) <= Maps(d, j)
<1>. DEFINE T == {n \in Nat : Maps(d, i) <= Maps(d, i + n)}
<1>1. 0 \in T
  BY MapsNext
<1>2. ASSUME NEW n \in Nat, n \in T PROVE n + 1 \in T
  <2>1. i + n \in Nat \ {0} /\ (i + n) + 1 = i + (n + 1)
    OBVIOUS
  <2>2. /\ Maps(d, i) \in Nat /\ Maps(d, i + n) \in Nat /\ Maps(d, i + (n + 1)) \in Nat
        /\ Maps(d, i + (n + 1)) >= Maps(d, i + n)
    BY <2>1, MapsNext
  <2>. QED
    BY <1>2, <2>2
<1>3. j - i \in T
  <2>1. j - i \in Nat
    OBVIOUS
  <2>. HIDE DEF T
  <2>. QED
    BY <1>1, <1>2, <2>1, NatInSet
<1>4. i + (j - i) = j
  OBVIOUS
<1>. QED
  BY <1>3, <1>4

\* One entry more changes the amount of its map alone, and that only if it is a UTXO.
LEMMA AmountNext ==
  ASSUME NEW d, NEW m, NEW n \in Nat
  PROVE  /\ AmountUpTo(d, m, 0) = 0
         /\ AmountUpTo(d, m, n + 1) =
              IF Maps(d, n + 1) = m /\ m > 0 /\ d[n + 1].key = WITNESS_UTXO
              THEN d[n + 1].val ELSE AmountUpTo(d, m, n)
<1>1. Utxos(d, m, 0) = {}
  BY DEF Utxos
<1>. DEFINE Read == Maps(d, n + 1) = m /\ m > 0 /\ d[n + 1].key = WITNESS_UTXO
<1>2. CASE Read
  <2>. DEFINE U == Utxos(d, m, n + 1)
  <2>1. n + 1 \in U /\ \A i \in U : i \in Nat /\ n + 1 >= i
    BY <1>2 DEF Utxos
  <2>2. Max(U) = n + 1
    <3>. HIDE DEF U
    <3>1. \A x \in U : (\A y \in U : x >= y) => x = n + 1
      BY <2>1
    <3>. QED
      BY <2>1, <3>1 DEF Max
  <2>. QED
    BY <1>1, <1>2, <2>1, <2>2 DEF AmountUpTo
<1>3. CASE ~Read
  <2>1. Utxos(d, m, n + 1) = Utxos(d, m, n)
    BY <1>3 DEF Utxos
  <2>. QED
    BY <1>1, <1>3, <2>1 DEF AmountUpTo
<1>. QED
  BY <1>2, <1>3

\* Amounts are numbers.
LEMMA AmountsAre ==
  ASSUME NEW d \in Seq(Items), NEW m
  PROVE  \A n \in 0..Len(d) : AmountUpTo(d, m, n) \in Nat
<1>. DEFINE T == {n \in Nat : n <= Len(d) => AmountUpTo(d, m, n) \in Nat}
<1>1. 0 \in T
  BY AmountNext
<1>2. ASSUME NEW n \in Nat, n \in T PROVE n + 1 \in T
  <2>. SUFFICES ASSUME n + 1 <= Len(d) PROVE AmountUpTo(d, m, n + 1) \in Nat
    OBVIOUS
  <2>1. d[n + 1] \in Items
    OBVIOUS
  <2>2. d[n + 1].val \in Nat
    BY <2>1, ItemsAre
  <2>3. AmountUpTo(d, m, n) \in Nat
    BY <1>2
  <2>4. AmountUpTo(d, m, n + 1) \in {d[n + 1].val, AmountUpTo(d, m, n)}
    BY AmountNext
  <2>. QED
    BY <2>2, <2>3, <2>4
<1>3. \A n \in Nat : n \in T
  <2>. HIDE DEF T
  <2>. QED
    BY <1>1, <1>2, NatInSet
<1>. QED
  BY <1>3

(***************************************************************************)
(* The preview: sums over maps.                                            *)
(***************************************************************************)

\* A sum of one number more.
LEMMA SumAppend ==
  ASSUME NEW s \in Seq(Nat), NEW x \in Nat
  PROVE  SumOf(s) \in Nat /\ SumOf(Append(s, x)) = SumOf(s) + x
<1>. DEFINE r == 1
<1>1. r \in Int /\ r \in Nat /\ s \in Seq(Int)
  OBVIOUS
<1>. HIDE DEF r
<1>2. Value(s, r) \in Nat
  BY <1>1, ValueNat
<1>3. Value(Append(s, x), r) = r * Value(s, r) + x
  BY <1>1, ValueAppend
<1>4. r * Value(s, r) + x = Value(s, r) + x
  <2>1. PICK v \in Nat : v = Value(s, r)
    BY <1>2
  <2>2. r * v + x = v + x
    BY DEF r
  <2>. QED
    BY <2>1, <2>2
<1>. QED
  BY <1>2, <1>3, <1>4 DEF SumOf, r

\* A map none of whose entries read so far is a UTXO holds nothing.
LEMMA NoAmount ==
  ASSUME NEW d, NEW m, NEW n, \A i \in 1..n : Maps(d, i) = m => d[i].key # WITNESS_UTXO
  PROVE  AmountUpTo(d, m, n) = 0
BY DEF AmountUpTo, Utxos

\* The next entry or separator leaves the maps that are over alone.
LEMMA GivenSame ==
  ASSUME NEW d, NEW k \in Nat, NEW n \in Nat, Maps(d, n + 1) > k
  PROVE  Given(d, k, n + 1) = Given(d, k, n)
<1>. SUFFICES ASSUME NEW m \in 1..k PROVE AmountUpTo(d, m, n + 1) = AmountUpTo(d, m, n)
  BY DEF Given
<1>1. Maps(d, n + 1) \in Nat
  BY MapsNext
<1>2. Maps(d, n + 1) # m
  BY <1>1
<1>. QED
  BY <1>2, AmountNext

\* The amounts of one map more.
LEMMA GivenMore ==
  ASSUME NEW d \in Seq(Items), NEW k \in Nat, NEW n \in 0..Len(d)
  PROVE  /\ Given(d, k, n) \in Seq(Nat) /\ Len(Given(d, k, n)) = k
         /\ Given(d, k + 1, n) = Append(Given(d, k, n), AmountUpTo(d, k + 1, n))
         /\ AmountUpTo(d, k + 1, n) \in Nat
<1>. DEFINE A(m) == AmountUpTo(d, m, n)  G(j) == [m \in 1..j |-> A(m)]
<1>1. \A m : A(m) \in Nat
  BY AmountsAre
<1>2. Given(d, k, n) = G(k) /\ Given(d, k + 1, n) = G(k + 1)
  BY DEF Given
<1>. HIDE DEF A
<1>3. G(k) \in Seq(Nat) /\ Len(G(k)) = k
  BY <1>1
<1>4. G(k + 1) = Append(G(k), A(k + 1))
  BY <1>1
<1>. QED
  BY <1>1, <1>2, <1>3, <1>4 DEF A

\* The sum once the map being read is over.
LEMMA CountingEnds ==
  ASSUME NEW d \in Seq(Items), NEW n \in 0..Len(d), NEW ins \in Seq(Nat), NEW a \in Nat,
         Counting(d, n, ins, a)
  PROVE  SumOf(IF a > 0 THEN Append(ins, a) ELSE ins) = SumOf(Given(d, Maps(d, n + 1), n))
<1>. DEFINE k == Maps(d, n + 1)
<1>1. k \in Nat /\ k >= 1
  BY MapsNext DEF Counting
<1>2. SumOf(ins) = SumOf(Given(d, k - 1, n)) /\ a = AmountUpTo(d, k, n)
  BY DEF Counting
<1>. HIDE DEF k
<1>3. k - 1 \in Nat /\ (k - 1) + 1 = k
  BY <1>1
<1>4. Given(d, k - 1, n) \in Seq(Nat) /\ Given(d, k, n) = Append(Given(d, k - 1, n), a)
  <2>1. PICK j \in Nat : j = k - 1 /\ j + 1 = k
    BY <1>3
  <2>2. /\ Given(d, j, n) \in Seq(Nat)
        /\ Given(d, j + 1, n) = Append(Given(d, j, n), AmountUpTo(d, j + 1, n))
    BY GivenMore
  <2>. QED
    BY <1>2, <2>1, <2>2
<1>5. SumOf(Given(d, k, n)) = SumOf(ins) + a
  BY <1>2, <1>4, SumAppend
<1>6. SumOf(ins) \in Nat /\ SumOf(Append(ins, a)) = SumOf(ins) + a
  BY SumAppend
<1>. QED
  BY <1>5, <1>6 DEF k

\* An entry of an input map is counted.
LEMMA CountingEntry ==
  ASSUME NEW d \in Seq(Items), NEW n \in 0..Len(d), n < Len(d), NEW ins, NEW a,
         Counting(d, n, ins, a), d[n + 1] # Separator
  PROVE  Counting(d, n + 1, ins, IF d[n + 1].key = WITNESS_UTXO THEN d[n + 1].val ELSE a)
<1>. DEFINE k == Maps(d, n + 1)
<1>1. n + 1 \in Nat \ {0} /\ n \in Nat
  OBVIOUS
<1>2. k \in Nat /\ k >= 1
  BY <1>1, MapsNext DEF Counting
<1>3. Maps(d, (n + 1) + 1) = k
  <2>1. PICK i \in Nat \ {0} : i = n + 1
    BY <1>1
  <2>2. Maps(d, i + 1) = Maps(d, i) + (IF d[i] = Separator THEN 1 ELSE 0)
    BY MapsNext
  <2>3. d[i] # Separator /\ Maps(d, i) = k
    BY <2>1
  <2>. QED
    BY <1>2, <2>1, <2>2, <2>3
<1>. HIDE DEF k
<1>4. Given(d, k - 1, n + 1) = Given(d, k - 1, n)
  <2>1. k - 1 \in Nat /\ k > k - 1
    BY <1>2
  <2>. QED
    BY <1>1, <2>1, GivenSame DEF k
<1>5. AmountUpTo(d, k, n + 1) = IF d[n + 1].key = WITNESS_UTXO THEN d[n + 1].val
                                ELSE AmountUpTo(d, k, n)
  <2>1. k > 0 /\ Maps(d, n + 1) = k
    BY <1>2 DEF k
  <2>2. AmountUpTo(d, k, n + 1) =
          IF Maps(d, n + 1) = k /\ k > 0 /\ d[n + 1].key = WITNESS_UTXO
          THEN d[n + 1].val ELSE AmountUpTo(d, k, n)
    BY <1>1, AmountNext
  <2>. QED
    BY <2>1, <2>2
<1>. QED
  BY <1>2, <1>3, <1>4, <1>5 DEF Counting, k

\* A separator ends a map, and the next holds nothing yet.
LEMMA Opened ==
  ASSUME NEW d \in Seq(Items), NEW n \in 0..Len(d), n < Len(d), d[n + 1] = Separator
  PROVE  /\ Maps(d, n + 1) \in Nat /\ Maps(d, (n + 1) + 1) = Maps(d, n + 1) + 1
         /\ AmountUpTo(d, Maps(d, n + 1) + 1, n + 1) = 0
<1>1. n + 1 \in Nat \ {0} /\ n \in Nat
  OBVIOUS
<1>2. Maps(d, n + 1) \in Nat /\ Maps(d, (n + 1) + 1) = Maps(d, n + 1) + 1
  BY <1>1, MapsNext
<1>3. ASSUME NEW i \in 1..(n + 1) PROVE Maps(d, i) # Maps(d, n + 1) + 1
  <2>1. i \in Nat \ {0} /\ i <= n + 1
    BY <1>1
  <2>2. Maps(d, i) <= Maps(d, n + 1) /\ Maps(d, i) \in Nat
    BY <1>1, <2>1, MapsGrow, MapsNext
  <2>. QED
    BY <1>2, <2>2
<1>4. AmountUpTo(d, Maps(d, n + 1) + 1, n + 1) = 0
  BY <1>3, NoAmount
<1>. QED
  BY <1>2, <1>4

\* A separator adds the amount of the map it ends.
LEMMA CountingSeparator ==
  ASSUME NEW d \in Seq(Items), NEW n \in 0..Len(d), n < Len(d), NEW ins \in Seq(Nat),
         NEW a \in Nat, Counting(d, n, ins, a), d[n + 1] = Separator
  PROVE  Counting(d, n + 1, IF a > 0 THEN Append(ins, a) ELSE ins, 0)
<1>. DEFINE k == Maps(d, n + 1)  t == IF a > 0 THEN Append(ins, a) ELSE ins
<1>1. k \in Nat /\ Maps(d, (n + 1) + 1) = k + 1 /\ AmountUpTo(d, k + 1, n + 1) = 0
  BY Opened
<1>2. SumOf(t) = SumOf(Given(d, k, n))
  BY CountingEnds
<1>3. Given(d, k, n + 1) = Given(d, k, n)
  <2>1. n \in Nat /\ n + 1 \in Nat
    OBVIOUS
  <2>2. k >= 1
    BY DEF Counting
  <2>3. \A m \in 1..k : AmountUpTo(d, m, n + 1) = AmountUpTo(d, m, n)
    <3>1. d[n + 1].key # WITNESS_UTXO
      BY DEF Separator, WITNESS_UTXO
    <3>. HIDE DEF k
    <3>. QED
      BY <2>1, <3>1, AmountNext
  <2>. HIDE DEF k
  <2>. QED
    BY <2>3 DEF Given
<1>. HIDE DEF k, t
<1>4. k + 1 >= 1 /\ (k + 1) - 1 = k
  BY <1>1
<1>5. Counting(d, n + 1, t, 0)
  BY <1>1, <1>2, <1>3, <1>4 DEF Counting
<1>. QED
  BY <1>5 DEF t

\* The separator of the global map: no input yet.
LEMMA CountingBegins ==
  ASSUME NEW d \in Seq(Items), NEW n \in 0..Len(d), n < Len(d), Maps(d, n + 1) = 0,
         d[n + 1] = Separator
  PROVE  Counting(d, n + 1, <<>>, 0)
<1>1. Maps(d, (n + 1) + 1) = 1 /\ AmountUpTo(d, 1, n + 1) = 0
  <2>1. 0 + 1 = 1
    OBVIOUS
  <2>. QED
    BY <2>1, Opened
<1>2. Given(d, 0, n + 1) = <<>>
  BY DEF Given
<1>3. 1 - 1 = 0 /\ 1 >= 1
  OBVIOUS
<1>. QED
  BY <1>1, <1>2, <1>3 DEF Counting

(***************************************************************************)
(* The preview: the steps.                                                 *)
(***************************************************************************)

\* The invariant at the start.
LEMMA PsbtBegins == PsbtInit => PsbtInv
<1>. SUFFICES ASSUME PsbtInit PROVE PsbtInv
  OBVIOUS
<1>1. /\ data = <<>> /\ parser = "host" /\ offset = 0 /\ tx = 0 /\ outputs = <<>>
      /\ input_value = 0 /\ inputs = <<>> /\ preview.kind = "none" /\ signed = "none"
  BY DEF PsbtInit, NoPreview
<1>2. Maps(data, offset + 1) = 0
  <2>1. Maps(data, 1) = 0 /\ 0 + 1 = 1
    BY MapsNext
  <2>. QED
    BY <1>1, <2>1
<1>3. Len(Txs) \in Nat /\ CAPACITY \in Nat
  BY PsbtAssumption
<1>4. <<>> \in Seq(Items) /\ <<>> \in Seq(Nat) /\ Len(<<>>) = 0
  OBVIOUS
<1>. QED
  BY <1>1, <1>2, <1>3, <1>4 DEF PsbtInv

\* The host writes entries and sends the message.
LEMMA HostKeeps ==
  ASSUME PsbtInv,
         \/ \E item \in Entries \cup {Separator} : HostWrites(item)
         \/ \E e \in {"whole", "key", "size", "val"} : HostSends(e)
  PROVE  PsbtInv'
<1>1. CASE \E item \in Entries \cup {Separator} : HostWrites(item)
  <2>1. PICK item \in Entries \cup {Separator} : HostWrites(item)
    BY <1>1
  <2>2. item \in Items
    BY DEF Entries, Items
  <2>3. PICK d : d = data /\ d \in Seq(Items)
    BY DEF PsbtInv
  <2>4. Append(d, item) \in Seq(Items) /\ Len(Append(d, item)) = Len(d) + 1 /\ Len(d) \in Nat
    BY <2>2, <2>3
  <2>5. /\ data' = Append(d, item) /\ parser = "host" /\ parser' = "host"
        /\ offset' = offset /\ tx' = tx /\ outputs' = outputs /\ input_value' = input_value
        /\ inputs' = inputs /\ preview' = preview /\ signed' = signed
    BY <2>1, <2>3 DEF HostWrites
  <2>6. offset = 0 /\ preview.kind = "none"
    BY <2>5 DEF PsbtInv
  <2>7. Maps(data', offset' + 1) = 0
    <3>1. Maps(Append(d, item), 1) = 0 /\ 0 + 1 = 1
      BY MapsNext
    <3>. QED
      BY <2>5, <2>6, <3>1
  <2>8. data' \in Seq(Items) /\ offset' \in 0..Len(data')
    BY <2>4, <2>5, <2>6
  <2>. QED
    BY <2>5, <2>6, <2>7, <2>8 DEF PsbtInv
<1>2. CASE \E e \in {"whole", "key", "size", "val"} : HostSends(e)
  <2>1. /\ parser = "host" /\ parser' = "global" /\ data' = data
        /\ offset' = offset /\ tx' = tx /\ outputs' = outputs /\ input_value' = input_value
        /\ inputs' = inputs /\ preview' = preview /\ signed' = signed
    BY <1>2 DEF HostSends
  <2>2. preview.kind = "none"
    BY <2>1 DEF PsbtInv
  <2>. QED
    BY <2>1, <2>2 DEF PsbtInv
<1>. QED
  BY <1>1, <1>2

\* An error is returned at any time.
LEMMA FailureKeeps ==
  ASSUME PsbtInv, parser # "done",
         NEW error \in {"InvalidMagic", "InvalidStructure", "MissingField"},
         Return(Failed(error)), tx' = tx, outputs' = outputs, inputs' = inputs,
         offset' \in 0..Len(data), input_value' \in Nat
  PROVE  PsbtInv'
<1>1. parser' = "done" /\ preview'.kind = error /\ data' = data /\ signed' = signed
  BY DEF Return, Failed, NoPreview
<1>2. signed = "none"
  BY DEF PsbtInv
<1>. QED
  BY <1>1, <1>2 DEF PsbtInv

\* The preview is returned, of the inputs read.
LEMMA PreviewKeeps ==
  ASSUME PsbtInv, parser = "inputs", NEW ins \in Seq(Nat), Len(ins) <= CAPACITY,
         Return(Preview(ins)), inputs' = ins,
         tx' = tx, outputs' = outputs, offset' = offset, input_value' = input_value,
         ending = "whole" => SumOf(ins) = SumOf(Given(data, Maps(data, Len(data) + 1), Len(data)))
  PROVE  PsbtInv'
<1>1. /\ parser' = "done" /\ data' = data /\ signed' = signed /\ ending' = ending
      /\ preview' = Preview(ins)
  BY DEF Return
<1>2. /\ preview'.kind = "ok"
      /\ preview'.fee = SaturatingSub(Total(ins), Total(Values(outputs)))
  BY <1>1 DEF Preview
<1>3. signed = "none" /\ tx # 0 /\ outputs = Txs[tx].outs
  BY DEF PsbtInv
<1>4. ending = "whole" => preview'.fee = FeeShown(data, Txs[tx])
  BY <1>2, <1>3 DEF FeeShown, Total
<1>5. ending' = "whole" => preview'.fee = FeeShown(data', Txs[tx'])
  BY <1>1, <1>4
<1>. QED
  BY <1>1, <1>2, <1>3, <1>5 DEF PsbtInv

\* The global map: no separator before the one that ends it.
LEMMA GlobalKeeps ==
  ASSUME PsbtInv, NoMagic \/ GlobalEnds \/ GlobalEntry \/ GlobalSeparator
  PROVE  PsbtInv'
<1>1. CASE NoMagic \/ GlobalEnds
  <2>1. \E error \in {"InvalidMagic", "InvalidStructure", "MissingField"} : Return(Failed(error))
    BY <1>1 DEF NoMagic, GlobalEnds
  <2>2. /\ parser = "global" /\ tx' = tx /\ outputs' = outputs /\ inputs' = inputs
        /\ offset' = offset /\ input_value' = input_value
    BY <1>1 DEF NoMagic, GlobalEnds
  <2>3. offset' \in 0..Len(data) /\ input_value' \in Nat
    BY <2>2 DEF PsbtInv
  <2>. QED
    BY <2>1, <2>2, <2>3, FailureKeeps
<1>2. CASE GlobalEntry
  <2>1. /\ parser = "global" /\ parser' = "global" /\ data' = data /\ offset' = offset + 1
        /\ outputs' = outputs /\ inputs' = inputs /\ input_value' = input_value
        /\ preview' = preview /\ signed' = signed
    BY <1>2 DEF GlobalEntry, Skip
  <2>2. PICK d, n : d = data /\ n = offset
    OBVIOUS
  <2>3. d \in Seq(Items) /\ n \in 0..Len(d) /\ n # Len(d) /\ Maps(d, n + 1) = 0
    BY <1>2, <2>1, <2>2 DEF PsbtInv, GlobalEntry, Reads, AtEnd
  <2>4. n + 1 \in 1..Len(d) /\ d[n + 1] \in Items /\ Len(d) \in Nat
    BY <2>3
  <2>5. d[n + 1].key \in {UNSIGNED_TX, OTHER_KEY}
    BY <1>2, <2>2 DEF GlobalEntry, Reads, Next1
  <2>6. d[n + 1] # Separator
    BY <2>5 DEF Separator, UNSIGNED_TX, OTHER_KEY
  <2>7. Maps(d, (n + 1) + 1) = 0
    <3>1. n + 1 \in Nat \ {0}
      BY <2>4
    <3>2. Maps(d, (n + 1) + 1) = Maps(d, n + 1) + (IF d[n + 1] = Separator THEN 1 ELSE 0)
      BY <3>1, MapsNext
    <3>. QED
      BY <2>3, <2>6, <3>2
  <2>8. tx' \in 0..Len(Txs)
    <3>1. d[n + 1].key = UNSIGNED_TX => d[n + 1].val \in DOMAIN Txs
      BY <2>4, ItemsAre
    <3>2. DOMAIN Txs = 1..Len(Txs) /\ Len(Txs) \in Nat
      BY PsbtAssumption
    <3>3. tx \in 0..Len(Txs)
      BY DEF PsbtInv
    <3>4. tx' = IF d[n + 1].key = UNSIGNED_TX THEN d[n + 1].val ELSE tx
      BY <1>2, <2>2 DEF GlobalEntry, Next1
    <3>. QED
      BY <3>1, <3>2, <3>3, <3>4
  <2>9. offset' \in 0..Len(data') /\ Maps(data', offset' + 1) = 0
    BY <2>1, <2>2, <2>4, <2>7
  <2>10. preview.kind = "none"
    BY <2>1 DEF PsbtInv
  <2>. QED
    BY <2>1, <2>8, <2>9, <2>10 DEF PsbtInv
<1>3. CASE GlobalSeparator
  <2>1. PICK d, n : d = data /\ n = offset
    OBVIOUS
  <2>2. /\ d \in Seq(Items) /\ n \in 0..Len(d) /\ n # Len(d) /\ Maps(d, n + 1) = 0
        /\ d[n + 1] = Separator
    BY <1>3, <2>1 DEF PsbtInv, GlobalSeparator, AtEnd, Next1
  <2>3. n < Len(d) /\ n + 1 \in 0..Len(d)
    BY <2>2
  <2>4. CASE tx = 0
    <3>1. /\ parser = "global" /\ tx' = tx /\ outputs' = outputs /\ inputs' = inputs
          /\ offset' = offset /\ input_value' = input_value /\ Return(Failed("MissingField"))
      BY <1>3, <2>4 DEF GlobalSeparator
    <3>2. offset' \in 0..Len(data) /\ input_value' \in Nat
      BY <3>1 DEF PsbtInv
    <3>. QED
      BY <3>1, <3>2, FailureKeeps
  <2>5. CASE tx # 0
    <3>1. /\ parser = "global" /\ parser' = "outputs" /\ offset' = offset + 1
          /\ data' = data /\ preview' = preview /\ signed' = signed
          /\ tx' = tx /\ outputs' = outputs /\ inputs' = inputs /\ input_value' = input_value
      BY <1>3, <2>5 DEF GlobalSeparator
    <3>2. outputs = <<>> /\ inputs = <<>> /\ input_value = 0 /\ preview.kind = "none"
      BY <3>1 DEF PsbtInv
    <3>3. Counting(d, n + 1, <<>>, 0)
      BY <2>2, <2>3, CountingBegins
    <3>4. Counting(data', offset', inputs', input_value') /\ offset' \in 0..Len(data')
      BY <2>1, <2>3, <3>1, <3>2, <3>3
    <3>5. /\ outputs' = SubSeq(Txs[tx'].outs, 1, Len(outputs'))
          /\ Len(outputs') <= Len(Txs[tx'].outs)
      <4>1. tx \in 1..Len(Txs) /\ DOMAIN Txs = 1..Len(Txs)
        BY <2>5, PsbtAssumption DEF PsbtInv
      <4>2. Len(Txs[tx].outs) \in Nat
        BY <4>1, PsbtAssumption
      <4>3. PICK o : o = Txs[tx].outs
        OBVIOUS
      <4>4. SubSeq(o, 1, 0) = <<>> /\ Len(<<>>) = 0
        OBVIOUS
      <4>. QED
        BY <3>1, <3>2, <4>2, <4>3, <4>4
    <3>. QED
      BY <2>5, <3>1, <3>2, <3>4, <3>5 DEF PsbtInv
  <2>. QED
    BY <2>4, <2>5
<1>. QED
  BY <1>1, <1>2, <1>3

\* What a transaction's outputs are.
LEMMA TxsAre ==
  ASSUME NEW t \in 0..Len(Txs), t # 0
  PROVE  /\ Txs[t].ins \in Nat \ {0}
         /\ Txs[t].outs \in Seq([value : 0..(U64 - 1), script : [len : Nat, op : STRING]])
         /\ Values(Txs[t].outs) \in Seq(Nat)
<1>. DEFINE R == [value : 0..(U64 - 1), script : [len : Nat, op : STRING]]
<1>1. Txs \in Seq([ins : Nat \ {0}, outs : Seq(R)])
  BY PsbtAssumption
<1>2. \A x \in R : x.value \in Nat
  BY PsbtAssumption
<1>. HIDE DEF R
<1>3. t \in 1..Len(Txs)
  BY <1>1
<1>4. Txs[t] \in [ins : Nat \ {0}, outs : Seq(R)]
  <2>. DEFINE Q == [ins : Nat \ {0}, outs : Seq(R)]
  <2>1. Txs \in Seq(Q)
    BY <1>1
  <2>. HIDE DEF Q
  <2>2. Txs[t] \in Q
    BY <1>3, <2>1
  <2>. QED
    BY <2>2 DEF Q
<1>5. PICK o : o = Txs[t].outs /\ o \in Seq(R)
  BY <1>4
<1>6. Values(o) \in Seq(Nat)
  BY <1>2, <1>5 DEF Values
<1>. QED
  BY <1>4, <1>5, <1>6 DEF R

\* parse_tx_outputs copies the outputs in order.
LEMMA OutputsKeep ==
  ASSUME PsbtInv, TxOutput \/ TxOutputsEnd
  PROVE  PsbtInv'
<1>1. /\ parser = "outputs" /\ tx' = tx /\ offset' = offset
      /\ inputs' = inputs /\ input_value' = input_value
  BY DEF TxOutput, TxOutputsEnd
<1>2. tx # 0 /\ tx \in 0..Len(Txs) /\ preview.kind = "none" /\ signed = "none"
  BY <1>1 DEF PsbtInv
<1>3. PICK o, p : o = Txs[tx].outs /\ p = outputs
  OBVIOUS
<1>4. \E S : o \in Seq(S)
  BY <1>2, <1>3, TxsAre
<1>5. Len(o) \in Nat /\ p = SubSeq(o, 1, Len(p)) /\ Len(p) <= Len(o)
  BY <1>1, <1>3, <1>4 DEF PsbtInv
<1>6. Len(p) \in Nat
  BY <1>4, <1>5
<1>7. CASE TxOutput
  <2>1. CASE Fits(outputs)
    <3>1. /\ outputs' = Append(p, o[Len(p) + 1]) /\ Len(p) < Len(o) /\ Len(p) < CAPACITY
          /\ data' = data /\ parser' = parser /\ preview' = preview /\ signed' = signed
      BY <1>3, <1>7, <2>1 DEF TxOutput, Fits
    <3>2. /\ Append(p, o[Len(p) + 1]) = SubSeq(o, 1, Len(p) + 1)
          /\ Len(Append(p, o[Len(p) + 1])) = Len(p) + 1
      BY <1>4, <1>5, <1>6, <3>1
    <3>3. Len(outputs') = Len(p) + 1 /\ Txs[tx'].outs = o
      BY <1>1, <1>3, <3>1, <3>2
    <3>4. Len(p) + 1 <= Len(o) /\ Len(p) + 1 <= CAPACITY
      BY <1>5, <1>6, <3>1, PsbtAssumption
    <3>5. /\ outputs' = SubSeq(Txs[tx'].outs, 1, Len(outputs'))
          /\ Len(outputs') <= Len(Txs[tx'].outs) /\ Len(outputs') <= CAPACITY
      BY <3>1, <3>2, <3>3, <3>4
    <3>6. Counting(data', offset', inputs', input_value')
      BY <1>1, <3>1 DEF PsbtInv
    <3>. QED
      BY <1>1, <1>2, <3>1, <3>5, <3>6 DEF PsbtInv
  <2>2. CASE ~Fits(outputs)
    <3>1. Return(Failed("InvalidStructure")) /\ outputs' = outputs
      BY <1>7, <2>2 DEF TxOutput
    <3>2. offset' \in 0..Len(data) /\ input_value' \in Nat
      BY <1>1 DEF PsbtInv
    <3>. QED
      BY <1>1, <3>1, <3>2, FailureKeeps
  <2>. QED
    BY <2>1, <2>2
<1>8. CASE TxOutputsEnd
  <2>1. /\ Len(p) = Len(o) /\ parser' = "inputs" /\ outputs' = p /\ data' = data
        /\ preview' = preview /\ signed' = signed
    BY <1>3, <1>8 DEF TxOutputsEnd
  <2>2. SubSeq(o, 1, Len(o)) = o
    BY <1>4
  <2>3. outputs' = Txs[tx'].outs
    BY <1>1, <1>3, <1>5, <2>1, <2>2
  <2>4. Counting(data', offset', inputs', input_value')
    BY <1>1, <2>1 DEF PsbtInv
  <2>. QED
    BY <1>1, <1>2, <2>1, <2>3, <2>4, <1>3 DEF PsbtInv
<1>. QED
  BY <1>7, <1>8

\* What is known while the input maps are read.
LEMMA Inputting ==
  ASSUME PsbtInv, parser = "inputs"
  PROVE  /\ data \in Seq(Items) /\ offset \in 0..Len(data) /\ tx # 0 /\ tx \in 0..Len(Txs)
         /\ inputs \in Seq(Nat) /\ Len(inputs) <= CAPACITY /\ input_value \in Nat
         /\ Counting(data, offset, inputs, input_value) /\ outputs = Txs[tx].outs
         /\ preview.kind = "none" /\ signed = "none"
BY DEF PsbtInv

\* The last witness UTXO of a map counts.
LEMMA InputEntryKeeps ==
  ASSUME PsbtInv, InputEntry
  PROVE  PsbtInv'
<1>1. /\ parser = "inputs" /\ parser' = "inputs" /\ data' = data /\ offset' = offset + 1
      /\ tx' = tx /\ outputs' = outputs /\ inputs' = inputs
      /\ preview' = preview /\ signed' = signed
  BY DEF InputEntry, Skip
<1>2. PICK d, n, a, s : d = data /\ n = offset /\ a = input_value /\ s = inputs
  OBVIOUS
<1>3. /\ d \in Seq(Items) /\ n \in 0..Len(d) /\ a \in Nat /\ n # Len(d) /\ Counting(d, n, s, a)
      /\ d[n + 1].key \in {WITNESS_UTXO, OTHER_KEY}
      /\ input_value' = IF d[n + 1].key = WITNESS_UTXO THEN d[n + 1].val ELSE a
  BY <1>1, <1>2, Inputting DEF InputEntry, Reads, AtEnd, Next1
<1>4. n < Len(d) /\ n + 1 \in 0..Len(d) /\ d[n + 1] \in Items
  BY <1>3
<1>5. d[n + 1] # Separator /\ d[n + 1].val \in Nat
  BY <1>3, <1>4, ItemsAre DEF Separator, WITNESS_UTXO, OTHER_KEY
<1>6. Counting(d, n + 1, s, IF d[n + 1].key = WITNESS_UTXO THEN d[n + 1].val ELSE a)
  BY <1>3, <1>4, <1>5, CountingEntry
<1>7. /\ Counting(data', offset', inputs', input_value') /\ offset' \in 0..Len(data')
      /\ input_value' \in Nat
  BY <1>1, <1>2, <1>3, <1>4, <1>5, <1>6
<1>. QED
  BY <1>1, <1>7, Inputting DEF PsbtInv

\* A map that ends is added, if its amount is not zero.
LEMMA InputSeparatorKeeps ==
  ASSUME PsbtInv, InputSeparator
  PROVE  PsbtInv'
<1>1. /\ parser = "inputs" /\ tx' = tx /\ outputs' = outputs
      /\ offset' = offset + 1 /\ input_value' = 0
  BY DEF InputSeparator
<1>2. PICK d, n, a, s : d = data /\ n = offset /\ a = input_value /\ s = inputs
  OBVIOUS
<1>3. /\ d \in Seq(Items) /\ n \in 0..Len(d) /\ a \in Nat /\ n # Len(d) /\ Counting(d, n, s, a)
      /\ s \in Seq(Nat) /\ Len(s) <= CAPACITY /\ d[n + 1] = Separator
  BY <1>1, <1>2, Inputting DEF InputSeparator, AtEnd, Next1
<1>4. n < Len(d) /\ n + 1 \in 0..Len(d)
  BY <1>3
<1>5. CASE input_value > 0 /\ ~Fits(inputs)
  <2>1. Return(Failed("InvalidStructure")) /\ inputs' = inputs
    BY <1>5 DEF InputSeparator
  <2>2. offset' \in 0..Len(data) /\ input_value' \in Nat
    BY <1>1, <1>2, <1>4
  <2>. QED
    BY <1>1, <2>1, <2>2, FailureKeeps
<1>6. CASE ~(input_value > 0 /\ ~Fits(inputs))
  <2>. DEFINE t == IF a > 0 THEN Append(s, a) ELSE s
  <2>1. /\ inputs' = t /\ data' = data /\ parser' = parser /\ preview' = preview
        /\ signed' = signed
    BY <1>2, <1>6 DEF InputSeparator, Counted
  <2>2. t \in Seq(Nat) /\ Len(t) <= CAPACITY
    BY <1>2, <1>3, <1>6, PsbtAssumption DEF Fits
  <2>3. Counting(d, n + 1, t, 0)
    BY <1>3, <1>4, CountingSeparator
  <2>. HIDE DEF t
  <2>4. Counting(data', offset', inputs', input_value') /\ offset' \in 0..Len(data')
    BY <1>1, <1>2, <1>4, <2>1, <2>3
  <2>. QED
    BY <1>1, <2>1, <2>2, <2>4, Inputting DEF PsbtInv
<1>. QED
  BY <1>5, <1>6

\* The end of the message ends the last map.
LEMMA InputsEndKeeps ==
  ASSUME PsbtInv, InputsEnd
  PROVE  PsbtInv'
<1>1. /\ parser = "inputs" /\ tx' = tx /\ outputs' = outputs
      /\ offset' = offset /\ input_value' = input_value
  BY DEF InputsEnd
<1>2. PICK d, n, a, s : d = data /\ n = offset /\ a = input_value /\ s = inputs
  OBVIOUS
<1>3. /\ d \in Seq(Items) /\ n \in 0..Len(d) /\ a \in Nat /\ Counting(d, n, s, a)
      /\ s \in Seq(Nat) /\ Len(s) <= CAPACITY
  BY <1>1, <1>2, Inputting
<1>4. CASE input_value > 0 /\ ~Fits(inputs)
  <2>1. Return(Failed("InvalidStructure")) /\ inputs' = inputs
    BY <1>4 DEF InputsEnd
  <2>2. offset' \in 0..Len(data) /\ input_value' \in Nat
    BY <1>1, Inputting
  <2>. QED
    BY <1>1, <2>1, <2>2, FailureKeeps
<1>5. CASE ~(input_value > 0 /\ ~Fits(inputs))
  <2>. DEFINE t == IF a > 0 THEN Append(s, a) ELSE s
  <2>1. inputs' = t /\ Return(Preview(t))
    BY <1>2, <1>5 DEF InputsEnd, Counted
  <2>2. t \in Seq(Nat) /\ Len(t) <= CAPACITY
    BY <1>2, <1>3, <1>5, PsbtAssumption DEF Fits
  <2>3. SumOf(t) = SumOf(Given(d, Maps(d, n + 1), n))
    BY <1>3, CountingEnds
  <2>4. ending = "whole" => n = Len(d)
    BY <1>2 DEF InputsEnd, AtEnd, IsCut
  <2>. HIDE DEF t
  <2>5. ending = "whole" => SumOf(t) = SumOf(Given(data, Maps(data, Len(data) + 1), Len(data)))
    BY <1>2, <2>3, <2>4
  <2>. QED
    BY <1>1, <2>1, <2>2, <2>5, PreviewKeeps
<1>. QED
  BY <1>4, <1>5

\* A message that ends inside an entry gives an error or is read on.
LEMMA InputCutKeeps ==
  ASSUME PsbtInv, InputCutBeforeSize \/ InputReadAgain
  PROVE  PsbtInv'
<1>1. /\ parser = "inputs" /\ tx' = tx /\ outputs' = outputs
      /\ offset' = offset /\ input_value' = input_value /\ ending # "whole"
  BY DEF InputCutBeforeSize, InputReadAgain, IsCut
<1>2. offset' \in 0..Len(data) /\ input_value' \in Nat
  BY <1>1, Inputting
<1>3. CASE Return(Failed("InvalidStructure")) /\ inputs' = inputs
  BY <1>1, <1>2, <1>3, FailureKeeps
<1>4. CASE \E v \in Amounts \ {0} : LET read == Counted(input_value)
                                     IN  /\ Len(read) < CAPACITY
                                         /\ inputs' = Append(read, v)
                                         /\ Return(Preview(Append(read, v)))
  <2>. DEFINE r == Counted(input_value)
  <2>1. PICK v \in Amounts :
          Len(r) < CAPACITY /\ inputs' = Append(r, v) /\ Return(Preview(Append(r, v)))
    BY <1>4
  <2>2. PICK t : t = r
    OBVIOUS
  <2>3. t \in Seq(Nat) /\ v \in Nat
    BY <1>1, <2>2, Inputting, PsbtAssumption DEF Counted
  <2>4. Append(t, v) \in Seq(Nat) /\ Len(Append(t, v)) <= CAPACITY
    BY <2>1, <2>2, <2>3, PsbtAssumption
  <2>. QED
    BY <1>1, <2>1, <2>2, <2>4, PreviewKeeps
<1>. QED
  BY <1>3, <1>4 DEF InputCutBeforeSize, InputReadAgain

\* Signing changes none of it.
LEMMA SignKeeps ==
  ASSUME PsbtInv, Sign \/ UNCHANGED psbtVars
  PROVE  PsbtInv'
<1>1. CASE Sign
  <2>1. /\ parser = "done" /\ data' = data /\ ending' = ending /\ parser' = parser
        /\ offset' = offset /\ tx' = tx /\ outputs' = outputs /\ input_value' = input_value
        /\ inputs' = inputs /\ preview' = preview
        /\ signed' \in {preview.kind, "SigningError", "BufferTooSmall"}
    BY <1>1 DEF Sign, FullInputs, PsbtInv
  <2>. QED
    BY <2>1 DEF PsbtInv
<1>2. CASE UNCHANGED psbtVars
  BY <1>2 DEF psbtVars, PsbtInv
<1>. QED
  BY <1>1, <1>2

\* Every step keeps the invariant of the parser.
LEMMA PsbtStep ==
  ASSUME PsbtInv, PsbtNext \/ UNCHANGED psbtVars
  PROVE  PsbtInv'
<1>1. CASE \/ \E item \in Entries \cup {Separator} : HostWrites(item)
           \/ \E e \in {"whole", "key", "size", "val"} : HostSends(e)
  BY <1>1, HostKeeps
<1>2. CASE NoMagic \/ GlobalEnds \/ GlobalEntry \/ GlobalSeparator
  BY <1>2, GlobalKeeps
<1>3. CASE TxOutput \/ TxOutputsEnd
  BY <1>3, OutputsKeep
<1>4. CASE InputEntry
  BY <1>4, InputEntryKeeps
<1>5. CASE InputSeparator
  BY <1>5, InputSeparatorKeeps
<1>6. CASE InputsEnd
  BY <1>6, InputsEndKeeps
<1>7. CASE InputCutBeforeSize \/ InputReadAgain
  BY <1>7, InputCutKeeps
<1>8. CASE Sign \/ UNCHANGED psbtVars
  BY <1>8, SignKeeps
<1>. QED
  BY <1>1, <1>2, <1>3, <1>4, <1>5, <1>6, <1>7, <1>8 DEF PsbtNext, ParsePreview

(***************************************************************************)
(* The preview: the fee shown.                                             *)
(***************************************************************************)

\* A sum may be taken over some zeros more.
LEMMA SumExtended ==
  ASSUME NEW s \in Seq(Nat), NEW t \in Seq(Nat), Len(s) <= Len(t),
         \A i \in 1..Len(s) : t[i] = s[i], \A i \in (Len(s) + 1)..Len(t) : t[i] = 0
  PROVE  SumOf(t) = SumOf(s)
<1>. DEFINE r == 1  N == Len(s)  v == Readings(t, r)
            T == {n \in Nat : N + n <= Len(t) => v[N + n] = v[N]}
<1>1. N \in Nat /\ Len(t) \in Nat /\ s \in Seq(Int) /\ t \in Seq(Int) /\ r \in Int /\ N <= Len(t)
  OBVIOUS
<1>2. v \in [0..Len(t) -> Int] /\ \A n \in 1..Len(t) : v[n] = r * v[n - 1] + t[n]
  <2>. HIDE DEF r
  <2>. QED
    BY <1>1, ReadingsAre
<1>3. \A n \in (N + 1)..Len(t) : t[n] = 0
  OBVIOUS
<1>4. v[N] = Readings(s, r)[N]
  <2>1. \A i \in 1..N : t[i] = s[i]
    OBVIOUS
  <2>. HIDE DEF r, N
  <2>2. N <= Len(s)
    BY DEF N
  <2>. QED
    BY <1>1, <2>1, <2>2, SameReadings
<1>. HIDE DEF v, N
<1>5. ASSUME NEW n \in Nat, n \in T PROVE n + 1 \in T
  <2>. SUFFICES ASSUME N + (n + 1) <= Len(t) PROVE v[N + (n + 1)] = v[N]
    OBVIOUS
  <2>1. N + (n + 1) \in 1..Len(t) /\ (N + (n + 1)) - 1 = N + n /\ N + (n + 1) \in (N + 1)..Len(t)
        /\ N + n \in 0..Len(t) /\ N + n <= Len(t)
    BY <1>1
  <2>2. t[N + (n + 1)] = 0 /\ v[N + n] = v[N]
    BY <1>3, <1>5, <2>1
  <2>3. v[N + (n + 1)] = r * v[N + n] + t[N + (n + 1)]
    BY <1>2, <2>1
  <2>4. v[N + n] \in Int
    BY <1>2, <2>1
  <2>. QED
    BY <2>2, <2>3, <2>4
<1>6. Len(t) - N \in T
  <2>1. 0 \in T
    BY <1>1
  <2>2. Len(t) - N \in Nat
    BY <1>1
  <2>. HIDE DEF T, r
  <2>. QED
    BY <1>5, <2>1, <2>2, NatInSet
<1>7. v[Len(t)] = v[N]
  <2>1. N + (Len(t) - N) = Len(t)
    BY <1>1
  <2>. QED
    BY <1>6, <2>1
<1>. QED
  BY <1>4, <1>7 DEF SumOf, Value, v, r, N

\* Maps that hold nothing add nothing.
LEMMA GivenEnough ==
  ASSUME NEW d \in Seq(Items), NEW k \in Nat, NEW l \in Nat, NEW n \in 0..Len(d), k <= l,
         \A m \in (k + 1)..l : AmountUpTo(d, m, n) = 0
  PROVE  SumOf(Given(d, l, n)) = SumOf(Given(d, k, n))
<1>1. PICK s, t : s = Given(d, k, n) /\ t = Given(d, l, n)
  OBVIOUS
<1>2. s \in Seq(Nat) /\ Len(s) = k /\ t \in Seq(Nat) /\ Len(t) = l
  BY <1>1, GivenMore
<1>3. \A i \in 1..k : t[i] = s[i]
  BY <1>1 DEF Given
<1>4. \A i \in (k + 1)..l : t[i] = 0
  BY <1>1 DEF Given
<1>. QED
  BY <1>1, <1>2, <1>3, <1>4, SumExtended

\* All the message holds is what the inputs' maps hold, if no other map holds a UTXO.
LEMMA AllGiven ==
  ASSUME NEW d \in Seq(Items), NEW I \in Nat,
         \A i \in 1..Len(d) : d[i].key = WITNESS_UTXO => Maps(d, i) <= I
  PROVE  SumOf(Given(d, Maps(d, Len(d) + 1), Len(d))) = SumOf(Given(d, I, Len(d)))
<1>1. PICK n : n = Len(d) /\ n \in 0..Len(d) /\ n \in Nat /\ n + 1 \in Nat \ {0}
  OBVIOUS
<1>2. PICK k : k = Maps(d, n + 1) /\ k \in Nat
  BY <1>1, MapsNext
<1>3. CASE k <= I
  <2>1. ASSUME NEW m \in (k + 1)..I PROVE AmountUpTo(d, m, n) = 0
    <3>1. ASSUME NEW i \in 1..n PROVE Maps(d, i) # m
      <4>1. i \in Nat \ {0} /\ i <= n + 1
        BY <1>1
      <4>2. Maps(d, i) <= k /\ Maps(d, i) \in Nat
        BY <1>1, <1>2, <4>1, MapsGrow, MapsNext
      <4>. QED
        BY <1>2, <4>2
    <3>. QED
      BY <3>1, NoAmount
  <2>2. SumOf(Given(d, I, n)) = SumOf(Given(d, k, n))
    BY <1>1, <1>2, <1>3, <2>1, GivenEnough
  <2>. QED
    BY <1>1, <1>2, <2>2
<1>4. CASE ~(k <= I)
  <2>1. ASSUME NEW m \in (I + 1)..k PROVE AmountUpTo(d, m, n) = 0
    <3>1. ASSUME NEW i \in 1..n, Maps(d, i) = m PROVE d[i].key # WITNESS_UTXO
      <4>1. ~(m <= I)
        OBVIOUS
      <4>. QED
        BY <1>1, <3>1, <4>1
    <3>. QED
      BY <3>1, NoAmount
  <2>2. I <= k
    BY <1>2, <1>4
  <2>. QED
    BY <1>1, <1>2, <2>1, <2>2, GivenEnough
<1>. QED
  BY <1>3, <1>4

\* What fits does not wrap around.
LEMMA FitsUnwrapped ==
  ASSUME NEW n \in Nat, NEW bound \in Nat \ {0}, n < bound
  PROVE  n % bound = n
OBVIOUS

\* What the invariant says of the preview.
LEMMA PsbtFollows == PsbtInv => PsbtTypeOK /\ FeeIsInputsMinusOutputs
<1>. SUFFICES ASSUME PsbtInv PROVE FeeIsInputsMinusOutputs
  BY DEF PsbtInv, PsbtTypeOK
<1>. SUFFICES ASSUME preview.kind = "ok", ending = "whole",
                     \A i \in DOMAIN data : data[i].key = WITNESS_UTXO => MapOf(i) <= Txs[tx].ins,
                     InputSum(Txs[tx]) < U64, OutputSum(Txs[tx]) < U64
              PROVE  preview.fee = FeeOf(Txs[tx])
  BY DEF FeeIsInputsMinusOutputs
<1>1. PICK d, t : d = data /\ t = Txs[tx]
  OBVIOUS
<1>2. d \in Seq(Items) /\ tx \in 0..Len(Txs) /\ tx # 0 /\ preview.fee = FeeShown(d, t)
  BY <1>1 DEF PsbtInv
<1>3. t.ins \in Nat /\ Values(t.outs) \in Seq(Nat)
  BY <1>1, <1>2, TxsAre
<1>4. InputSum(t) = SumOf(Given(d, t.ins, Len(d)))
  <2>1. \A m : AmountOf(m) = AmountUpTo(d, m, Len(d))
    <3>1. DOMAIN d = 1..Len(d)
      BY <1>2
    <3>2. \A i : MapOf(i) = Maps(d, i)
      BY <1>1 DEF MapOf, Maps
    <3>3. \A m : {i \in DOMAIN data :
                    MapOf(i) = m /\ m > 0 /\ data[i].key = WITNESS_UTXO} = Utxos(d, m, Len(d))
      BY <1>1, <3>1, <3>2 DEF Utxos
    <3>. QED
      BY <1>1, <3>3 DEF AmountOf, AmountUpTo
  <2>. QED
    BY <2>1 DEF InputSum, Given
<1>5. SumOf(Given(d, Maps(d, Len(d) + 1), Len(d))) = SumOf(Given(d, t.ins, Len(d)))
  <2>1. \A i \in 1..Len(d) : d[i].key = WITNESS_UTXO => Maps(d, i) <= t.ins
    <3>1. DOMAIN d = 1..Len(d)
      BY <1>2
    <3>2. \A i : MapOf(i) = Maps(d, i)
      BY <1>1 DEF MapOf, Maps
    <3>. QED
      BY <1>1, <3>1, <3>2
  <2>. QED
    BY <1>2, <1>3, <2>1, AllGiven
<1>6. SumOf(Given(d, t.ins, Len(d))) \in Nat /\ SumOf(Values(t.outs)) \in Nat
  <2>1. \A s \in Seq(Nat) : SumOf(s) \in Nat
    BY SumAppend
  <2>2. Len(d) \in 0..Len(d)
    BY <1>2
  <2>3. Given(d, t.ins, Len(d)) \in Seq(Nat)
    BY <1>2, <1>3, <2>2, GivenMore
  <2>. QED
    BY <1>3, <2>1, <2>3
<1>7. \A x \in Nat : x < U64 => x % U64 = x
  BY PsbtAssumption, FitsUnwrapped
<1>. QED
  BY <1>1, <1>2, <1>4, <1>5, <1>6, <1>7 DEF FeeShown, FeeOf, OutputSum

(***************************************************************************)
(* Keys (HdKeys): the invariant.                                           *)
(***************************************************************************)
Keys == [secret : 1..(ORDER - 1), chain : Nat \ {0}, depth : Nat, parent : Nat, index : Nat]

\* An answer of the oracle carries a chain code of its own.
Oracle ==
  /\ IsFiniteSet(DOMAIN hmac)
  /\ \A q \in DOMAIN hmac : /\ hmac[q].left \in Lefts
                            /\ hmac[q].chain \in 1..Cardinality(DOMAIN hmac)
  /\ \A p, q \in DOMAIN hmac : hmac[p].chain = hmac[q].chain => p = q

\* The caller has a key from the moment it has a master key.
Types ==
  /\ key \in Keys \/ (key = NoKey /\ master = NoKey /\ path = <<>> /\ found = {})
  /\ key # NoKey => /\ master \in Keys
                    /\ {key.chain, master.chain} \subseteq 1..Cardinality(DOMAIN hmac)
  /\ walk \in Keys \/ (walk = NoKey /\ path = <<>>)
  /\ walk # NoKey => walk.chain \in 1..Cardinality(DOMAIN hmac)
  /\ text \in Seq(Components) /\ path \in Seq(Components)

\* A key and its child at an index.
Child(k, index, child) ==
  /\ PrivQuestion(k, index) \in DOMAIN hmac
  /\ child = PrivChild(k, index, hmac[PrivQuestion(k, index)])

\* The keys on the way from the master key along the first n of some indices.
Along(s, way, n) ==
  /\ s \in [1..(n + 1) -> Keys] /\ s[1] = master
  /\ \A i \in 1..n : Child(s[i], way[i], s[i + 1])

\* A key found lies where its indices lead.
FoundAlong ==
  \A a \in found :
    /\ a.indices \in Seq(Nat)
    /\ \E s : Along(s, a.indices, Len(a.indices)) /\ s[Len(a.indices) + 1] = a.key

\* derive_path is as far as it has read.
Spelling == Spelled(text)
WalkAlong ==
  path # <<>> =>
    \E n \in Nat :
      /\ Len(text) = n + Len(path) /\ \A i \in 1..Len(path) : path[i] = text[n + i]
      /\ \A i \in 1..n : text[i].num # INVALID
      /\ key = master =>
           \E s, t : t = Spelling /\ Along(s, t, n) /\ s[n + 1] = walk

\* A public key begins as that of the key it was exported from.
PublicTypes ==
  /\ trail \in Seq(Nat)
  /\ xpub = NoKey => trail = <<>>
  /\ xpub # NoKey => base \in Keys /\ xpub \in Keys
  /\ xpub # NoKey /\ trail = <<>> => xpub = base

IInv == Oracle /\ Types /\ FoundAlong /\ WalkAlong /\ PublicTypes /\ ChildrenShareLineage

(***************************************************************************)
(* Paths name keys.                                                        *)
(***************************************************************************)
\* A question names the chain code of the key it is asked about, and the index.
LEMMA QuestionParts ==
  ASSUME NEW k, NEW index
  PROVE  PrivQuestion(k, index)[1] = k.chain /\ PrivQuestion(k, index)[4] = index
BY DEF PrivQuestion

\* The same indices lead to the same key.
LEMMA SameIndices ==
  ASSUME NEW n \in Nat, NEW t, NEW s, NEW u, Along(s, t, n), Along(u, t, n)
  PROVE  s[n + 1] = u[n + 1]
<1>. DEFINE S == {i \in 1..(n + 1) : s[i] # u[i]}
<1>. SUFFICES ASSUME S # {} PROVE FALSE
  OBVIOUS
<1>0. S \subseteq Nat
  OBVIOUS
<1>1. PICK i \in S : \A m \in S : i <= m
  <2>. HIDE DEF S
  <2>. QED
    BY <1>0, Least
<1>2. s[1] = u[1]
  BY DEF Along
<1>3. i \in 1..(n + 1) /\ s[i] # u[i] /\ i # 1
  BY <1>1, <1>2
<1>. DEFINE j == i - 1
<1>4. j \in 1..n /\ j + 1 = i
  BY <1>3
<1>5. s[j] = u[j]
  <2>1. j \notin S
    BY <1>1, <1>3, <1>4
  <2>. QED
    BY <1>4, <2>1
<1>6. Child(s[j], t[j], s[j + 1]) /\ Child(u[j], t[j], u[j + 1])
  BY <1>4 DEF Along
<1>7. s[j + 1] = u[j + 1]
  BY <1>5, <1>6 DEF Child
<1>. QED
  BY <1>3, <1>4, <1>7

\* Each component is one level deeper.
LEMMA Depths ==
  ASSUME NEW n \in Nat, NEW t, NEW s, Along(s, t, n)
  PROVE  s[n + 1].depth = master.depth + n /\ master.depth \in Nat
<1>. DEFINE S == {i \in 1..(n + 1) : s[i].depth # master.depth + (i - 1)}
<1>1. \A i \in 1..(n + 1) : s[i] \in Keys
  BY DEF Along
<1>2. s[1] = master /\ master.depth \in Nat
  <2>1. 1 \in 1..(n + 1)
    OBVIOUS
  <2>. QED
    BY <1>1, <2>1 DEF Along, Keys
<1>3. S = {}
  <2>. SUFFICES ASSUME S # {} PROVE FALSE
    OBVIOUS
  <2>0. S \subseteq Nat
    OBVIOUS
  <2>1. PICK i \in S : \A m \in S : i <= m
    <3>. HIDE DEF S
    <3>. QED
      BY <2>0, Least
  <2>2. i \in 1..(n + 1) /\ s[i].depth # master.depth + (i - 1) /\ i # 1
    BY <1>2, <2>1
  <2>. DEFINE j == i - 1
  <2>3. j \in 1..n /\ j + 1 = i
    BY <2>2
  <2>4. s[j].depth = master.depth + (j - 1)
    <3>1. j \notin S
      BY <2>1, <2>2, <2>3
    <3>. QED
      BY <2>3, <3>1
  <2>5. Child(s[j], t[j], s[j + 1])
    BY <2>3 DEF Along
  <2>6. s[j + 1].depth = s[j].depth + 1
    BY <2>5 DEF Child, PrivChild
  <2>. QED
    BY <1>2, <2>2, <2>3, <2>4, <2>6
<1>4. n + 1 \notin S
  BY <1>3
<1>. QED
  BY <1>2, <1>4

\* A chain code names the way to it: the question it answers names the parent's chain
\* code and the index.
LEMMA SameKey ==
  ASSUME Oracle, NEW n \in Nat, NEW t, NEW v, NEW s, NEW u,
         Along(s, t, n), Along(u, v, n), s[n + 1] = u[n + 1]
  PROVE  \A i \in 1..n : t[i] = v[i]
<1>. DEFINE Differ(j) == s[(n + 1) - j].chain # u[(n + 1) - j].chain
            S == {j \in 0..n : Differ(j)}
<1>1. ASSUME NEW i \in 1..n, s[i + 1].chain = u[i + 1].chain
      PROVE  s[i].chain = u[i].chain /\ t[i] = v[i]
  <2>1. Child(s[i], t[i], s[i + 1]) /\ Child(u[i], v[i], u[i + 1])
    BY DEF Along
  <2>. DEFINE p == PrivQuestion(s[i], t[i])  q == PrivQuestion(u[i], v[i])
  <2>2. /\ p \in DOMAIN hmac /\ s[i + 1].chain = hmac[p].chain
        /\ q \in DOMAIN hmac /\ u[i + 1].chain = hmac[q].chain
    BY <2>1 DEF Child, PrivChild
  <2>3. p = q
    BY <1>1, <2>2 DEF Oracle
  <2>. HIDE DEF p, q
  <2>4. p[1] = s[i].chain /\ p[4] = t[i] /\ q[1] = u[i].chain /\ q[4] = v[i]
    BY QuestionParts DEF p, q
  <2>. QED
    BY <2>3, <2>4
<1>2. S = {}
  <2>. SUFFICES ASSUME S # {} PROVE FALSE
    OBVIOUS
  <2>0. S \subseteq Nat
    OBVIOUS
  <2>1. PICK j \in S : \A m \in S : j <= m
    <3>. HIDE DEF S
    <3>. QED
      BY <2>0, Least
  <2>2. j \in 0..n /\ Differ(j) /\ j # 0
    BY <2>1
  <2>. DEFINE i == (n + 1) - j
  <2>3. i \in 1..n /\ j - 1 \in 0..n /\ (n + 1) - (j - 1) = i + 1
    BY <2>2
  <2>4. ~Differ(j - 1)
    <3>1. j - 1 \notin S
      BY <2>1, <2>2, <2>3
    <3>. HIDE DEF Differ
    <3>. QED
      BY <2>3, <3>1
  <2>5. s[i + 1].chain = u[i + 1].chain
    BY <2>3, <2>4
  <2>6. s[i].chain = u[i].chain
    BY <1>1, <2>3, <2>5
  <2>. QED
    BY <2>2, <2>6
<1>3. ASSUME NEW i \in 1..n PROVE t[i] = v[i]
  <2>1. n - i \in 0..n /\ (n + 1) - (n - i) = i + 1
    OBVIOUS
  <2>2. s[i + 1].chain = u[i + 1].chain
    BY <1>2, <2>1
  <2>. QED
    BY <1>1, <2>2
<1>. QED
  BY <1>3

\* The invariant gives the property.
LEMMA FoundAreNamed == IInv => PathsNameKeys
<1>. SUFFICES ASSUME IInv, NEW a \in found, NEW b \in found
              PROVE  a.indices = b.indices <=> a.key = b.key
  BY DEF PathsNameKeys
<1>. DEFINE n == Len(a.indices)  m == Len(b.indices)
<1>1. /\ a.indices \in Seq(Nat) /\ b.indices \in Seq(Nat) /\ n \in Nat /\ m \in Nat
  BY DEF IInv, FoundAlong
<1>2. PICK s : Along(s, a.indices, n) /\ s[n + 1] = a.key
  BY DEF IInv, FoundAlong
<1>3. PICK u : Along(u, b.indices, m) /\ u[m + 1] = b.key
  BY DEF IInv, FoundAlong
<1>4. ASSUME a.indices = b.indices PROVE a.key = b.key
  BY <1>1, <1>2, <1>3, <1>4, SameIndices
<1>5. ASSUME a.key = b.key PROVE a.indices = b.indices
  <2>1. a.key.depth = master.depth + n /\ b.key.depth = master.depth + m /\ master.depth \in Nat
    BY <1>1, <1>2, <1>3, Depths
  <2>2. n = m
    <3>. HIDE DEF n, m
    <3>. QED
      BY <1>1, <1>5, <2>1
  <2>3. \A i \in 1..n : a.indices[i] = b.indices[i]
    <3>. HIDE DEF n, m
    <3>1. Oracle /\ Along(u, b.indices, n) /\ s[n + 1] = u[n + 1]
      BY <1>2, <1>3, <1>5, <2>2 DEF IInv
    <3>. QED
      BY <1>1, <1>2, <3>1, SameKey
  <2>. QED
    BY <1>1, <2>2, <2>3, SeqEqual
<1>. QED
  BY <1>4, <1>5
(***************************************************************************)
(* The oracle.                                                             *)
(***************************************************************************)
\* What was answered stays.
Grown ==
  /\ DOMAIN hmac \subseteq DOMAIN hmac' /\ \A p \in DOMAIN hmac : hmac'[p] = hmac[p]
  /\ Cardinality(DOMAIN hmac) \in Nat /\ Cardinality(DOMAIN hmac') \in Nat
  /\ Cardinality(DOMAIN hmac) <= Cardinality(DOMAIN hmac')

\* A call that asks nothing leaves the oracle, which then knows no less.
LEMMA OracleStays ==
  ASSUME Oracle, hmac' = hmac PROVE Oracle' /\ Grown
<1>1. Cardinality(DOMAIN hmac) \in Nat
  BY FS_CardinalityType DEF Oracle
<1>. QED
  BY <1>1 DEF Oracle, Grown

\* Asking leaves an answer with a chain code of its own.
LEMMA Asked ==
  ASSUME Oracle, NEW q, Ask(q)
  PROVE  /\ Oracle' /\ Grown /\ q \in DOMAIN hmac'
         /\ hmac'[q].left \in 0..ORDER /\ hmac'[q].chain \in 1..Cardinality(DOMAIN hmac')
<1>0. Lefts \subseteq 0..ORDER
  BY KeysAssumption
<1>1. CASE q \in DOMAIN hmac
  <2>1. hmac' = hmac
    BY <1>1 DEF Ask
  <2>2. Oracle' /\ Grown
    BY <2>1, OracleStays
  <2>. QED
    BY <1>0, <1>1, <2>1, <2>2 DEF Oracle
<1>2. CASE q \notin DOMAIN hmac
  <2>. DEFINE D == DOMAIN hmac  c == Cardinality(D)
  <2>1. IsFiniteSet(D) /\ c \in Nat
    BY FS_CardinalityType DEF Oracle
  <2>2. IsFiniteSet(D \cup {q}) /\ Cardinality(D \cup {q}) = c + 1
    BY <1>2, <2>1, FS_AddElement
  <2>3. PICK left \in Lefts :
          hmac' = [p \in D \cup {q} |-> IF p = q THEN [left |-> left, chain |-> c + 1] ELSE hmac[p]]
    BY <1>2 DEF Ask
  <2>4. /\ DOMAIN hmac' = D \cup {q} /\ hmac'[q] = [left |-> left, chain |-> c + 1]
        /\ \A p \in D : hmac'[p] = hmac[p]
    BY <1>2, <2>3
  <2>5. Cardinality(DOMAIN hmac') = c + 1
    BY <2>2, <2>4
  <2>6. Grown
    BY <2>1, <2>4, <2>5 DEF Grown
  <2>7. \A p \in D : hmac[p].chain \in 1..c /\ hmac[p].left \in Lefts
    BY DEF Oracle
  <2>. HIDE DEF c, D
  <2>8. Oracle'
    <3>1. IsFiniteSet(DOMAIN hmac')
      BY <2>2, <2>4
    <3>2. \A p \in DOMAIN hmac' : hmac'[p].left \in Lefts /\ hmac'[p].chain \in 1..(c + 1)
      BY <2>1, <2>4, <2>7
    <3>3. ASSUME NEW p \in DOMAIN hmac', NEW r \in DOMAIN hmac', hmac'[p].chain = hmac'[r].chain
          PROVE  p = r
      <4>1. CASE p = q \/ r = q
        BY <2>1, <2>4, <2>7, <3>3, <4>1
      <4>2. CASE p # q /\ r # q
        BY <2>4, <3>3, <4>2 DEF Oracle, D
      <4>. QED
        BY <4>1, <4>2
    <3>. QED
      BY <2>5, <3>1, <3>2, <3>3 DEF Oracle
  <2>. QED
    BY <1>0, <2>1, <2>4, <2>5, <2>6, <2>8
<1>. QED
  BY <1>1, <1>2

\* The way of a key stays its way.
LEMMA AlongStays ==
  ASSUME Grown, master' = master, NEW s, NEW t, NEW n, Along(s, t, n)
  PROVE  Along(s, t, n)'
<1>1. s \in [1..(n + 1) -> Keys] /\ s[1] = master'
  BY DEF Along
<1>2. ASSUME NEW i \in 1..n PROVE Child(s[i], t[i], s[i + 1])'
  <2>1. Child(s[i], t[i], s[i + 1])
    BY DEF Along
  <2>. QED
    BY <2>1 DEF Child, Grown
<1>. QED
  BY <1>1, <1>2 DEF Along, Keys

\* Keys found keep their ways.
LEMMA FoundStays ==
  ASSUME FoundAlong, Grown, master' = master, found' = found PROVE FoundAlong'
<1>. SUFFICES ASSUME NEW a \in found
              PROVE  /\ a.indices \in Seq(Nat)
                     /\ \E s : Along(s, a.indices, Len(a.indices))'
                               /\ s[Len(a.indices) + 1] = a.key
  BY DEF FoundAlong
<1>1. a.indices \in Seq(Nat)
  BY DEF FoundAlong
<1>2. PICK s : Along(s, a.indices, Len(a.indices)) /\ s[Len(a.indices) + 1] = a.key
  BY DEF FoundAlong
<1>3. Along(s, a.indices, Len(a.indices))'
  BY <1>2, AlongStays
<1>. QED
  BY <1>1, <1>2, <1>3

\* A call of something else leaves derive_path where it is.
LEMMA WalkStays ==
  ASSUME WalkAlong, Grown, UNCHANGED <<key, master, text, path, walk>> PROVE WalkAlong'
<1>. SUFFICES ASSUME path # <<>> PROVE WalkAlong'
  BY DEF WalkAlong
<1>1. Spelling' = Spelling
  BY DEF Spelling, Spelled
<1>2. PICK n \in Nat :
        /\ Len(text) = n + Len(path) /\ \A i \in 1..Len(path) : path[i] = text[n + i]
        /\ \A i \in 1..n : text[i].num # INVALID
        /\ key = master => \E s, t : t = Spelling /\ Along(s, t, n) /\ s[n + 1] = walk
  BY DEF WalkAlong
<1>3. key = master => \E s, t : t = Spelling' /\ Along(s, t, n)' /\ s[n + 1] = walk'
  BY <1>1, <1>2, AlongStays
<1>. QED
  BY <1>2, <1>3 DEF WalkAlong

\* The only child of a public key keeps its lineage.
LEMMA LineageStays ==
  ASSUME ChildrenShareLineage, Grown, trail' = trail, base' = base, xpub' = xpub
  PROVE  ChildrenShareLineage'
BY DEF ChildrenShareLineage, Grown

\* The way goes on to a child.
LEMMA OneFurther ==
  ASSUME NEW s, NEW t, NEW n \in Nat, Along(s, t, n)', NEW k \in Keys,
         Child(s[n + 1], t[n + 1], k)'
  PROVE  \E u : Along(u, t, n + 1)' /\ u[n + 2] = k
<1>. DEFINE u == [i \in 1..(n + 2) |-> IF i = n + 2 THEN k ELSE s[i]]
<1>1. s \in [1..(n + 1) -> Keys] /\ s[1] = master'
  BY DEF Along, Keys
<1>2. u \in [1..(n + 2) -> Keys] /\ u[1] = master' /\ u[n + 2] = k
  BY <1>1
<1>3. ASSUME NEW i \in 1..(n + 1) PROVE Child(u[i], t[i], u[i + 1])'
  <2>1. CASE i = n + 1
    <3>1. u[i] = s[n + 1] /\ u[i + 1] = k
      BY <2>1
    <3>. QED
      BY <2>1, <3>1
  <2>2. CASE i # n + 1
    <3>1. u[i] = s[i] /\ u[i + 1] = s[i + 1] /\ i \in 1..n
      BY <2>2
    <3>. QED
      BY <3>1 DEF Along, Keys
  <2>. QED
    BY <2>1, <2>2
<1>4. (n + 1) + 1 = n + 2
  OBVIOUS
<1>. HIDE DEF u
<1>5. Along(u, t, n + 1)'
  BY <1>2, <1>3, <1>4 DEF Along, Keys
<1>. QED
  BY <1>2, <1>5

(***************************************************************************)
(* One lemma per action.                                                   *)
(***************************************************************************)
\* No key is none: its secret is zero.
LEMMA NoKeyIsNone == NoKey \notin Keys /\ NoKey.secret = 0
BY DEF NoKey, Keys

\* The master key is the first.
LEMMA NewMasterKeeps ==
  ASSUME IInv, NEW len, NewMaster(len) PROVE IInv'
<1>1. /\ key = NoKey /\ UNCHANGED <<text, path, walk, found, xpub, base, trail>>
      /\ key' = key \/ key' # key
  BY DEF NewMaster
<1>2. master = NoKey /\ path = <<>> /\ found = {}
  BY <1>1, NoKeyIsNone DEF IInv, Types
<1>3. Oracle' /\ Grown
  BY OracleStays, Asked DEF NewMaster, IInv
<1>4. \/ key' = NoKey /\ master' = NoKey
      \/ key' \in Keys /\ master' = key' /\ key'.chain \in 1..Cardinality(DOMAIN hmac')
  <2>1. CASE UNCHANGED <<key, master>>
    BY <1>1, <1>2, <2>1
  <2>2. CASE ~UNCHANGED <<key, master>>
    <3>. DEFINE r == hmac'[SeedQuestion]
    <3>1. /\ Ask(SeedQuestion) /\ Scalar(r.left)
          /\ key' = [NoKey EXCEPT !.secret = r.left, !.chain = r.chain] /\ master' = key'
      BY <2>2 DEF NewMaster
    <3>2. r.chain \in 1..Cardinality(DOMAIN hmac')
      BY <3>1, Asked DEF IInv
    <3>3. r.chain \in Nat \ {0} /\ r.left \in 1..(ORDER - 1)
      BY <3>1, <3>2 DEF Scalar
    <3>. HIDE DEF r
    <3>4. key' = [secret |-> r.left, chain |-> r.chain, depth |-> 0, parent |-> 0, index |-> 0]
      BY <3>1 DEF NoKey
    <3>5. key' \in Keys
      BY <3>3, <3>4 DEF Keys
    <3>. QED
      BY <3>1, <3>2, <3>4, <3>5
  <2>. QED
    BY <2>1, <2>2
<1>5. Types'
  BY <1>1, <1>2, <1>3, <1>4 DEF IInv, Types, Grown
<1>6. FoundAlong' /\ WalkAlong'
  BY <1>1, <1>2 DEF FoundAlong, WalkAlong
<1>7. PublicTypes' /\ ChildrenShareLineage'
  BY <1>1, <1>3, LineageStays DEF IInv, PublicTypes, Keys
<1>. QED
  BY <1>3, <1>5, <1>6, <1>7 DEF IInv

\* A path begins at the caller's key, with nothing read.
LEMMA DerivePathKeeps ==
  ASSUME IInv, NEW t \in Texts, DerivePath(t) PROVE IInv'
<1>1. /\ key # NoKey /\ path = <<>> /\ text' = t /\ path' = t
      /\ walk' = IF t = <<>> THEN NoKey ELSE key
      /\ UNCHANGED <<hmac, key, master, found, xpub, base, trail>>
  BY DEF DerivePath
<1>2. Oracle' /\ Grown
  BY <1>1, OracleStays DEF IInv
<1>3. t \in Seq(Components)
  BY KeysAssumption
<1>4. key \in Keys /\ master \in Keys
  BY <1>1 DEF IInv, Types
<1>5. Types'
  BY <1>1, <1>3, <1>4, NoKeyIsNone DEF IInv, Types
<1>6. WalkAlong'
  <2>. SUFFICES ASSUME t # <<>> PROVE WalkAlong'
    BY <1>1 DEF WalkAlong
  <2>0. PICK k \in Keys : k = key
    BY <1>4
  <2>. DEFINE s == [i \in 1..1 |-> k]
  <2>1. key = master => Along(s, Spelled(t), 0)' /\ s[1] = walk'
    BY <1>1, <2>0 DEF Along, Keys
  <2>2. Spelling' = Spelled(t)
    BY <1>1 DEF Spelling
  <2>3. key = master => \E u, v : v = Spelling' /\ Along(u, v, 0)' /\ u[0 + 1] = walk'
    BY <2>1, <2>2
  <2>4. Len(t) = 0 + Len(t) /\ \A i \in 1..Len(t) : t[i] = t[0 + i]
    BY <1>3
  <2>. QED
    BY <1>1, <2>3, <2>4 DEF WalkAlong
<1>7. FoundAlong' /\ PublicTypes' /\ ChildrenShareLineage'
  BY <1>1, <1>2, FoundStays, LineageStays DEF IInv, PublicTypes, Keys
<1>. QED
  BY <1>2, <1>5, <1>6, <1>7 DEF IInv

\* An error leaves what there was.
LEMMA PathErrorKeeps ==
  ASSUME IInv, PathError PROVE IInv'
<1>1. /\ path # <<>> /\ text' = <<>> /\ path' = <<>> /\ walk' = NoKey
      /\ UNCHANGED <<hmac, key, master, found, xpub, base, trail>>
  BY DEF PathError
<1>2. Oracle' /\ Grown
  BY <1>1, OracleStays DEF IInv
<1>3. Types'
  BY <1>1 DEF IInv, Types, Keys
<1>4. WalkAlong'
  BY <1>1 DEF WalkAlong
<1>5. FoundAlong' /\ PublicTypes' /\ ChildrenShareLineage'
  BY <1>1, <1>2, FoundStays, LineageStays DEF IInv, PublicTypes, Keys
<1>. QED
  BY <1>2, <1>3, <1>4, <1>5 DEF IInv

\* The caller returns to the master key between two paths only.
LEMMA BackToMasterKeeps ==
  ASSUME IInv, BackToMaster PROVE IInv'
<1>1. /\ path = <<>> /\ key # master /\ key' = master
      /\ UNCHANGED <<hmac, master, text, path, walk, found, xpub, base, trail>>
  BY DEF BackToMaster
<1>2. Oracle' /\ Grown
  BY <1>1, OracleStays DEF IInv
<1>3. Types'
  BY <1>1, NoKeyIsNone DEF IInv, Types, Keys
<1>4. WalkAlong'
  BY <1>1 DEF WalkAlong
<1>5. FoundAlong' /\ PublicTypes' /\ ChildrenShareLineage'
  BY <1>1, <1>2, FoundStays, LineageStays DEF IInv, PublicTypes, Keys
<1>. QED
  BY <1>2, <1>3, <1>4, <1>5 DEF IInv

\* A public key begins with no children.
LEMMA PublicKeyKeeps ==
  ASSUME IInv, PublicKey PROVE IInv'
<1>1. /\ key # NoKey /\ base' = key /\ trail' = <<>>
      /\ xpub' = [key EXCEPT !.secret = Point(key.secret)]
      /\ UNCHANGED <<hmac, key, master, text, path, walk, found>>
  BY DEF PublicKey
<1>2. Oracle' /\ Grown
  BY <1>1, OracleStays DEF IInv
<1>3. Types' /\ key \in Keys
  BY <1>1 DEF IInv, Types, Keys
<1>4. FoundAlong' /\ WalkAlong'
  BY <1>1, <1>2, FoundStays, WalkStays DEF IInv
<1>5. xpub' = key
  BY <1>1, <1>3 DEF Point, Keys
<1>6. PublicTypes' /\ ChildrenShareLineage'
  BY <1>1, <1>3, <1>5 DEF PublicTypes, ChildrenShareLineage, Keys
<1>. QED
  BY <1>2, <1>3, <1>4, <1>6 DEF IInv

\* One component read is one step further; the last one makes the key a found one.
LEMMA PathStepKeeps ==
  ASSUME IInv, PathStep PROVE IInv'
<1>. DEFINE index == Index(Head(path))
            q == PrivQuestion(walk, index)
            r == hmac'[q]
            child == PrivChild(walk, index, r)
            failed == ~Scalar(r.left) \/ child.secret = 0
            new == IF key = master THEN {[indices |-> Spelled(text), key |-> child]} ELSE {}
<1>1. /\ path # <<>> /\ Head(path).num # INVALID /\ Ask(q)
      /\ UNCHANGED <<master, xpub, base, trail>>
      /\ \/ /\ failed /\ text' = <<>> /\ path' = <<>> /\ walk' = NoKey
            /\ UNCHANGED <<key, found>>
         \/ /\ ~failed /\ Len(path) > 1 /\ path' = Tail(path) /\ walk' = child
            /\ UNCHANGED <<key, text, found>>
         \/ /\ ~failed /\ ~(Len(path) > 1) /\ text' = <<>> /\ path' = <<>> /\ walk' = NoKey
            /\ key' = child /\ found' = found \cup new
  BY DEF PathStep
<1>2. /\ Oracle' /\ Grown /\ q \in DOMAIN hmac'
      /\ r.left \in 0..ORDER /\ r.chain \in 1..Cardinality(DOMAIN hmac')
  BY <1>1, Asked DEF IInv
<1>3. /\ walk \in Keys /\ key \in Keys /\ master \in Keys
      /\ {key.chain, master.chain} \subseteq 1..Cardinality(DOMAIN hmac)
      /\ path \in Seq(Components) /\ text \in Seq(Components)
  BY <1>1, NoKeyIsNone DEF IInv, Types
<1>4. Len(path) \in Nat \ {0} /\ Head(path) = path[1] /\ path[1] \in Components
  BY <1>1, <1>3
<1>5. index \in Nat
  <2>. DEFINE c == Head(path)
  <2>1. c.num \in Nat /\ HARDENED \in Nat /\ index = Index(c)
    BY <1>1, <1>4, KeysAssumption DEF Components
  <2>. HIDE DEF c, index
  <2>. QED
    BY <2>1 DEF Index
<1>6. r.chain \in Nat \ {0}
  BY <1>2
<1>7. ASSUME ~failed PROVE child \in Keys
  <2>. HIDE DEF r, index
  <2>1. r.left \in Nat /\ child.secret # 0 /\ walk.secret \in Nat /\ walk.depth \in Nat
    <3>1. child.secret # 0
      BY <1>7
    <3>2. walk.secret \in Nat /\ walk.depth \in Nat
      <4>. HIDE DEF index, q, r, child, failed, new
      <4>1. walk.secret \in 1..(ORDER - 1) /\ walk.depth \in Nat
        BY <1>3 DEF Keys
      <4>. QED
        BY <4>1
    <3>3. r.left \in Nat
      BY <1>2, KeysAssumption
    <3>. QED
      BY <3>1, <3>2, <3>3
  <2>2. child = [secret |-> (walk.secret + r.left) % ORDER, chain |-> r.chain,
                 depth |-> walk.depth + 1, parent |-> walk.secret, index |-> index]
    BY DEF PrivChild, Point
  <2>3. (walk.secret + r.left) % ORDER \in 0..(ORDER - 1)
    BY <2>1, KeysAssumption
  <2>4. (walk.secret + r.left) % ORDER \in 1..(ORDER - 1)
    BY <2>1, <2>2, <2>3, KeysAssumption
  <2>. QED
    BY <1>5, <1>6, <2>1, <2>2, <2>4 DEF Keys
<1>8. child.chain = r.chain
  BY DEF PrivChild
<1>9. PublicTypes' /\ ChildrenShareLineage'
  BY <1>1, <1>2, LineageStays DEF IInv, PublicTypes, Keys
<1>10. /\ Types'
       /\ {key.chain, master.chain} \subseteq 1..Cardinality(DOMAIN hmac')
  <2>. HIDE DEF child, failed, r, q, new
  <2>1. {key.chain, master.chain} \subseteq 1..Cardinality(DOMAIN hmac')
    BY <1>2, <1>3 DEF Grown
  <2>2. text' \in Seq(Components) /\ path' \in Seq(Components)
    <3>1. Tail(path) \in Seq(Components) /\ <<>> \in Seq(Components)
      BY <1>1, <1>3
    <3>. QED
      BY <1>1, <1>3, <3>1
  <2>3. key' \in Keys /\ (key' = key \/ key' = child)
    BY <1>1, <1>3, <1>7
  <2>4. (walk' \in Keys /\ walk' = child) \/ (walk' = NoKey /\ path' = <<>>)
    BY <1>1, <1>7
  <2>5. child.chain \in 1..Cardinality(DOMAIN hmac')
    BY <1>2, <1>8
  <2>. QED
    BY <1>1, <1>3, <2>1, <2>2, <2>3, <2>4, <2>5 DEF Types, Keys
<1>11. CASE failed
  <2>1. text' = <<>> /\ path' = <<>> /\ found' = found
    BY <1>1, <1>11
  <2>. QED
    BY <1>1, <1>2, <1>9, <1>10, <2>1, FoundStays DEF IInv, WalkAlong
<1>12. CASE ~failed
  <2>1. PICK n \in Nat :
          /\ Len(text) = n + Len(path) /\ \A i \in 1..Len(path) : path[i] = text[n + i]
          /\ \A i \in 1..n : text[i].num # INVALID
          /\ key = master => \E s, t : t = Spelling /\ Along(s, t, n) /\ s[n + 1] = walk
    BY <1>1 DEF IInv, WalkAlong
  <2>2. text[n + 1] = Head(path) /\ n + 1 \in 1..Len(text)
    BY <1>4, <2>1
  <2>3. \A i \in 1..(n + 1) : text[i].num # INVALID
    BY <1>1, <2>1, <2>2
  <2>4. Spelling[n + 1] = index
    <3>. DEFINE c == text[n + 1]
    <3>1. n + 1 \in DOMAIN text
      BY <1>3, <2>2
    <3>2. Spelling[n + 1] = IF c.marked THEN c.num + HARDENED ELSE c.num
      BY <3>1 DEF Spelling, Spelled
    <3>3. c \in Components /\ index = Index(c)
      BY <1>4, <2>2
    <3>4. c.num \in Int /\ c.marked \in BOOLEAN
      BY <3>3 DEF Components, INVALID
    <3>. HIDE DEF c, index
    <3>. QED
      BY <3>2, <3>3, <3>4 DEF Index
  <2>5. PICK k \in Keys : k = child
    BY <1>7, <1>12
  <2>6. ASSUME key = master
        PROVE  \E u, t : t = Spelling /\ Along(u, t, n + 1)' /\ u[n + 2] = k
    <3>1. PICK s, t : t = Spelling /\ Along(s, t, n) /\ s[n + 1] = walk
      BY <2>1, <2>6
    <3>2. Along(s, t, n)'
      BY <1>1, <1>2, <3>1, AlongStays
    <3>3. s[n + 1] = walk /\ t[n + 1] = index
      BY <2>4, <3>1
    <3>4. Child(s[n + 1], t[n + 1], k)'
      BY <1>2, <2>5, <3>3 DEF Child
    <3>5. \E u : Along(u, t, n + 1)' /\ u[n + 2] = k
      BY <2>5, <3>2, <3>4, OneFurther
    <3>. QED
      BY <3>1, <3>5
  <2>. HIDE DEF child, failed, q, r, index
  <2>7. CASE Len(path) > 1
    <3>1. path' = Tail(path) /\ walk' = k /\ UNCHANGED <<key, text, found, master>>
      BY <1>1, <1>12, <2>5, <2>7
    <3>2. /\ Len(Tail(path)) = Len(path) - 1
          /\ \A i \in 1..(Len(path) - 1) : Tail(path)[i] = path[i + 1]
      BY <1>3, <1>4
    <3>3. \A i \in 1..(Len(path) - 1) : Tail(path)[i] = text[(n + 1) + i]
      <4>1. \A i \in 1..(Len(path) - 1) :
              i + 1 \in 1..Len(path) /\ n + (i + 1) = (n + 1) + i
        BY <1>4
      <4>. QED
        BY <2>1, <3>2, <4>1
    <3>4. Spelling' = Spelling
      BY <3>1 DEF Spelling, Spelled
    <3>5. key = master =>
            \E u, t : t = Spelling' /\ Along(u, t, n + 1)' /\ u[(n + 1) + 1] = walk'
      <4>1. (n + 1) + 1 = n + 2
        OBVIOUS
      <4>. QED
        BY <2>6, <3>1, <3>4, <4>1
    <3>6. Len(text) = (n + 1) + (Len(path) - 1)
      BY <1>4, <2>1
    <3>7. WalkAlong'
      <4>1. /\ Len(text') = (n + 1) + Len(path')
            /\ \A i \in 1..Len(path') : path'[i] = text'[(n + 1) + i]
        BY <3>1, <3>2, <3>3, <3>6
      <4>2. \A i \in 1..(n + 1) : text'[i].num # INVALID
        BY <2>3, <3>1
      <4>3. key' = master' =>
              \E s, t : t = Spelling' /\ Along(s, t, n + 1)' /\ s[(n + 1) + 1] = walk'
        BY <3>1, <3>5
      <4>4. PICK m \in Nat : m = n + 1
        OBVIOUS
      <4>5. /\ Len(text') = m + Len(path')
            /\ \A i \in 1..Len(path') : path'[i] = text'[m + i]
            /\ \A i \in 1..m : text'[i].num # INVALID
            /\ key' = master' =>
                 \E s, t : t = Spelling' /\ Along(s, t, m)' /\ s[m + 1] = walk'
        <5>1. key' = master' =>
                \E s, t : t = Spelling' /\ Along(s, t, m)' /\ s[m + 1] = walk'
          <6>. DEFINE W(i) == \E s, t : t = Spelling' /\ Along(s, t, i)' /\ s[i + 1] = walk'
          <6>2. key' = master' => W(n + 1)
            BY <4>3
          <6>. HIDE DEF W
          <6>3. key' = master' => W(m)
            BY <4>4, <6>2
          <6>. QED
            BY <6>3 DEF W
        <5>. QED
          BY <4>1, <4>2, <4>4, <5>1
      <4>. QED
        BY <4>5 DEF WalkAlong
    <3>8. FoundAlong'
      BY <1>1, <1>2, <3>1, FoundStays DEF IInv
    <3>. QED
      BY <1>2, <1>9, <1>10, <3>7, <3>8 DEF IInv
  <2>8. CASE ~(Len(path) > 1)
    <3>1. path' = <<>> /\ found' = found \cup new
      BY <1>1, <1>12, <2>8
    <3>2. WalkAlong'
      BY <3>1 DEF WalkAlong
    <3>3. Len(text) = n + 1
      BY <1>4, <2>1, <2>8
    <3>4. Spelling \in Seq(Nat) /\ Len(Spelling) = n + 1
      <4>1. \A i \in 1..(n + 1) : text[i].num \in Nat
        <5>1. \A i \in 1..(n + 1) : text[i] \in Components
          BY <1>3, <3>3
        <5>. QED
          BY <2>3, <5>1 DEF Components
      <4>2. DOMAIN text = 1..(n + 1)
        BY <1>3, <3>3
      <4>3. Spelling \in [1..(n + 1) -> Nat]
        BY <4>1, <4>2, KeysAssumption DEF Spelling, Spelled
      <4>. QED
        BY <4>3
    <3>5. ASSUME NEW a \in found'
          PROVE  /\ a.indices \in Seq(Nat)
                 /\ \E s : Along(s, a.indices, Len(a.indices))' /\ s[Len(a.indices) + 1] = a.key
      <4>1. CASE a \in found
        <5>1. PICK s : Along(s, a.indices, Len(a.indices)) /\ s[Len(a.indices) + 1] = a.key
          BY <4>1 DEF IInv, FoundAlong
        <5>2. Along(s, a.indices, Len(a.indices))'
          BY <1>1, <1>2, <5>1, AlongStays
        <5>. QED
          BY <4>1, <5>1, <5>2 DEF IInv, FoundAlong
      <4>2. CASE a \notin found
        <5>1. key = master /\ a.indices = Spelling /\ a.key = k
          BY <2>5, <3>1, <4>2 DEF Spelling
        <5>2. PICK u, t : t = Spelling /\ Along(u, t, n + 1)' /\ u[n + 2] = k
          BY <2>6, <5>1
        <5>3. t = a.indices /\ Len(a.indices) = n + 1 /\ (n + 1) + 1 = n + 2
          BY <3>4, <5>1, <5>2
        <5>4. Along(u, a.indices, Len(a.indices))'
          BY <5>2, <5>3
        <5>. QED
          BY <3>4, <5>1, <5>2, <5>3, <5>4
      <4>. QED
        BY <4>1, <4>2
    <3>6. FoundAlong'
      BY <3>5 DEF FoundAlong
    <3>. QED
      BY <1>2, <1>9, <1>10, <3>2, <3>6 DEF IInv
  <2>. QED
    BY <2>7, <2>8
<1>. QED
  BY <1>11, <1>12

\* The first public child asks what the private key would ask.
LEMMA PubChildKeeps ==
  ASSUME IInv, NEW index \in 0..U32_MAX, PubChild(index) PROVE IInv'
<1>1. /\ xpub # NoKey /\ UNCHANGED <<key, master, text, path, walk, found, base>>
      /\ hmac' = hmac \/ Ask(<<xpub.chain, "point", xpub.secret, index>>)
  BY DEF PubChild
<1>2. Oracle' /\ Grown
  BY <1>1, OracleStays, Asked DEF IInv
<1>3. Types'
  BY <1>1, <1>2, NoKeyIsNone DEF IInv, Types, Grown
<1>4. FoundAlong' /\ WalkAlong'
  BY <1>1, <1>2, FoundStays, WalkStays DEF IInv
<1>5. xpub \in Keys /\ base \in Keys /\ index \in Nat /\ trail \in Seq(Nat)
  BY <1>1, KeysAssumption DEF IInv, PublicTypes, U32_MAX
<1>6. CASE UNCHANGED <<xpub, trail>>
  BY <1>1, <1>2, <1>3, <1>4, <1>6, LineageStays DEF IInv, PublicTypes
<1>7. CASE ~UNCHANGED <<xpub, trail>>
  <2>. DEFINE q == <<xpub.chain, "point", xpub.secret, index>>
              r == hmac'[q]
              child == AddTweakToPubkey(xpub.secret, r.left)
  <2>1. /\ index < HARDENED /\ Ask(q) /\ child # 0 /\ trail' = Append(trail, index)
        /\ xpub' = [secret |-> child, chain |-> r.chain, depth |-> xpub.depth + 1,
                    parent |-> xpub.secret, index |-> index]
    BY <1>5, <1>7, KeysAssumption DEF PubChild
  <2>2. q \in DOMAIN hmac' /\ r.left \in 0..ORDER /\ r.chain \in 1..Cardinality(DOMAIN hmac')
    BY <2>1, Asked DEF IInv
  <2>3. child \in 1..(ORDER - 1)
    <3>. HIDE DEF r
    <3>1. xpub.secret \in Nat /\ r.left \in Nat
      <4>. HIDE DEF q, child
      <4>1. xpub.secret \in 1..(ORDER - 1)
        BY <1>5 DEF Keys
      <4>2. r.left \in 0..ORDER /\ ORDER \in Nat
        BY <2>2, KeysAssumption
      <4>. QED
        BY <4>1, <4>2
    <3>2. xpub.secret * r.left \in Int
      BY <3>1
    <3>. DEFINE p == xpub.secret * r.left
    <3>3. p \in Int /\ child = p % ORDER
      BY <3>2 DEF AddTweakToPubkey
    <3>. HIDE DEF p, child
    <3>4. p % ORDER \in 0..(ORDER - 1)
      BY <3>3, KeysAssumption
    <3>. QED
      BY <2>1, <3>3, <3>4
  <2>4. xpub' \in Keys
    <3>. HIDE DEF r, child
    <3>1. r.chain \in Nat \ {0}
      <4>1. Cardinality(DOMAIN hmac') \in Nat
        BY <1>2, FS_CardinalityType DEF Oracle
      <4>. QED
        BY <2>2, <4>1
    <3>2. xpub.depth \in Nat /\ xpub.secret \in 1..(ORDER - 1)
      BY <1>5 DEF Keys
    <3>3. xpub.depth + 1 \in Nat /\ xpub.secret \in Nat
      BY <3>2
    <3>. QED
      BY <1>5, <2>1, <2>3, <3>1, <3>3 DEF Keys
  <2>5. PublicTypes'
    <3>1. trail' \in Seq(Nat) /\ trail' # <<>>
      <4>1. trail' = Append(trail, index)
        BY <2>1
      <4>2. Append(trail, index) \in Seq(Nat) /\ Len(Append(trail, index)) = Len(trail) + 1
        BY <1>5, AppendProperties
      <4>3. Len(trail) \in Nat /\ Len(<<>>) = 0
        BY <1>5
      <4>. QED
        BY <4>1, <4>2, <4>3
    <3>. QED
      BY <1>1, <1>5, <2>4, <3>1, NoKeyIsNone DEF PublicTypes, Keys
  <2>6. ChildrenShareLineage'
    <3>. SUFFICES ASSUME Len(trail') = 1 PROVE ChildrenShareLineage'
      BY DEF ChildrenShareLineage
    <3>1. trail = <<>> /\ trail'[1] = index
      BY <1>5, <2>1
    <3>2. base = xpub /\ base' = base
      BY <1>1, <3>1 DEF IInv, PublicTypes
    <3>3. PrivQuestion(base, index) = q
      BY <1>5, <2>1, <3>2, KeysAssumption DEF PrivQuestion, Point
    <3>. HIDE DEF q
    <3>. DEFINE c == PrivChild(base, index, r)
    <3>4. xpub' = [c EXCEPT !.secret = xpub'.secret]
      <4>. HIDE DEF child, r
      <4>. QED
        BY <2>1, <3>2 DEF PrivChild, Point
    <3>. QED
      BY <2>2, <3>1, <3>2, <3>3, <3>4 DEF ChildrenShareLineage
  <2>. QED
    BY <1>2, <1>3, <1>4, <2>5, <2>6 DEF IInv
<1>. QED
  BY <1>6, <1>7

(***************************************************************************)
(* The theorems.                                                           *)
(***************************************************************************)
\* At first there is no key and no question.
LEMMA Initially == KeysInit => IInv
<1>. SUFFICES ASSUME KeysInit PROVE IInv
  OBVIOUS
<1>1. hmac = <<>> /\ DOMAIN hmac = {}
  BY DEF KeysInit
<1>2. Oracle
  BY <1>1, FS_EmptySet DEF Oracle
<1>3. Types /\ FoundAlong /\ WalkAlong /\ PublicTypes /\ ChildrenShareLineage
  BY DEF KeysInit, Types, FoundAlong, WalkAlong, PublicTypes, ChildrenShareLineage
<1>. QED
  BY <1>2, <1>3 DEF IInv

\* Every step of a caller keeps the invariant, and the other jobs do not touch the keys.
LEMMA Step == IInv /\ [Next]_vars => IInv'
<1>. SUFFICES ASSUME IInv, [Next]_vars PROVE IInv'
  OBVIOUS
<1>1. CASE KeysNext
  BY <1>1, NewMasterKeeps, DerivePathKeeps, PathStepKeeps, PathErrorKeeps, BackToMasterKeeps,
     PublicKeyKeeps, PubChildKeeps DEF KeysNext
<1>2. CASE UNCHANGED keysVars
  <2>1. UNCHANGED <<hmac, key, master, text, path, walk, found, xpub, base, trail>>
    BY <1>2 DEF keysVars
  <2>2. Oracle' /\ Grown
    BY <2>1, OracleStays DEF IInv
  <2>3. Types' /\ PublicTypes'
    BY <2>1 DEF IInv, Types, PublicTypes, Keys
  <2>4. FoundAlong' /\ WalkAlong' /\ ChildrenShareLineage'
    BY <2>1, <2>2, FoundStays, WalkStays, LineageStays DEF IInv
  <2>. QED
    BY <2>2, <2>3, <2>4 DEF IInv
<1>. QED
  BY <1>1, <1>2 DEF Next, vars

\* Keys, their ways and the oracle stay as described.
THEOREM Invariance == Spec => []IInv
<1>1. Init => IInv
  BY Initially DEF Init
<1>. QED
  BY <1>1, Step, PTL DEF Spec

\* derive_path gives two callers the same key exactly if they spelled the same indices,
\* whatever the oracle answers and however long the paths are.
THEOREM PathsAreNames == Spec => []PathsNameKeys
BY Invariance, FoundAreNamed, PTL

\* derive_pub_child carries on the lineage that derive_priv_child would.
THEOREM LineageIsShared == Spec => []ChildrenShareLineage
<1>1. IInv => ChildrenShareLineage
  BY DEF IInv
<1>. QED
  BY Invariance, <1>1, PTL

\* A key is never the zero scalar nor one from the order on, whatever the oracle
\* answers, and carries a chain code that was answered.
THEOREM KeysAreScalars == Spec => []KeysTypeOK
<1>1. IInv => KeysTypeOK
  BY DEF IInv, Oracle, Types, PublicTypes, KeysTypeOK, Keys, Scalar
<1>. QED
  BY Invariance, <1>1, PTL

\* Every step of the codecs keeps theirs.
THEOREM CodecsKeep == Spec => []CodecInv
<1>1. Init => CodecInv
  BY CodecBegins DEF Init
<1>2. CodecInv /\ [Next]_vars => CodecInv'
  BY CodecStep DEF Next, vars
<1>. QED
  BY <1>1, <1>2, PTL DEF Spec

\* encode_check loses no byte: what it has pushed, in reverse, and what is left to
\* divide are the number the bytes are, and in the end the text is that number.
THEOREM Base58IsTheNumber == Spec => []Base58KeepsValue
BY CodecsKeep, CodecFollows, PTL

\* No digit of encode_check finds its vector full, if that is as long as the bytes
\* need; RealSizesFit says that 112 digits are, for 82 bytes.
THEOREM Base58Fits == Spec => []DigitsFit
BY CodecsKeep, CodecFollows, PTL

\* The words of a mnemonic are the bits of its entropy and checksum, in order, none
\* left out.
THEOREM WordsAreTheEntropy == Spec => []WordsSpellEntropy
BY CodecsKeep, CodecFollows, PTL

\* Every step of the parser and of the host keeps the parser's invariant.
THEOREM PreviewsKeep == Spec => []PsbtInv
<1>1. Init => PsbtInv
  BY PsbtBegins DEF Init
<1>2. PsbtInv /\ [Next]_vars => PsbtInv'
  BY PsbtStep DEF Next, vars
<1>. QED
  BY <1>1, <1>2, PTL DEF Spec

\* The fee on the screen is what the inputs' maps hold less what the transaction pays,
\* of a message of any length and in any order, under the conditions stated there.
THEOREM FeeIsHonest == Spec => []FeeIsInputsMinusOutputs
BY PreviewsKeep, PsbtFollows, PTL

\* The three jobs keep their types: offsets in the message, vectors within capacity,
\* digits in range.
THEOREM TypesAreKept == Spec => []TypeOK
<1>1. PsbtTypeOK /\ KeysTypeOK /\ CodecTypeOK => TypeOK
  BY DEF TypeOK
<1>. QED
  BY PreviewsKeep, PsbtFollows, CodecsKeep, CodecFollows, KeysAreScalars, <1>1, PTL

=============================================================================
