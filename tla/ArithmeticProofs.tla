-------------------------- MODULE ArithmeticProofs --------------------------
(***************************************************************************)
(* Induction over the numbers, and what follows from it for any number of  *)
(* values: what the sums of module Sums are, how the members of a set are  *)
(* numbered, and how remainders and means behave.                          *)
(***************************************************************************)
EXTENDS Sums, FiniteSetTheorems, TLAPS, WellFoundedInduction

----------------------------------------------------------------------------
(* A set that holds 0 and is closed under +1 holds every number, since
   the least one it left out would have a predecessor in it. *)
LEMMA SetInduction ==
    ASSUME NEW S, 0 \in S, \A n \in Nat : n \in S => n + 1 \in S
    PROVE  Nat \subseteq S
<1> DEFINE Below == {pair \in Nat \X Nat : pair[1] < pair[2]}
<1>1. IsWellFoundedOn(Below, Nat)
  BY NatLessThanWellFounded, SMT DEF OpToRel
<1>2. CASE Nat \ S # {}
  <2> HIDE DEF Below
  <2>1. PICK x \in Nat \ S : \A y \in Nat \ S : <<y, x>> \notin Below
    BY <1>1, <1>2, WFMin
  <2>2. x \in Nat /\ x # 0 /\ x - 1 \in Nat /\ (x - 1) + 1 = x
    BY <2>1
  <2>3. <<x - 1, x>> \in Below
    BY <2>2 DEF Below
  <2> QED BY <2>1, <2>2, <2>3
<1> QED BY <1>2

(* The running sums of the first n values. *)
Running(sum, values, n) ==
    sum = [k \in 0..n |-> IF k = 0 THEN 0 ELSE sum[k - 1] + values[k - 1]]

(* There are such sums, so SumOf is defined by them. *)
LEMMA RunningExists ==
    ASSUME NEW values, NEW n \in Nat
    PROVE  \E sum : Running(sum, values, n)
<1> DEFINE S == {m \in Nat : \E sum : Running(sum, values, m)}
<1>1. 0 \in S
  <2>1. Running([k \in 0..0 |-> 0], values, 0)
    BY DEF Running
  <2> QED BY <2>1
<1>2. ASSUME NEW m \in Nat, m \in S PROVE m + 1 \in S
  <2>1. PICK sum : Running(sum, values, m)
    BY <1>2
  <2> DEFINE next == [k \in 0..(m + 1) |-> IF k = m + 1 THEN sum[m] + values[m] ELSE sum[k]]
  <2>2. ASSUME NEW k \in 0..(m + 1)
        PROVE  next[k] = IF k = 0 THEN 0 ELSE next[k - 1] + values[k - 1]
    <3>1. CASE k = m + 1
      BY <3>1
    <3>2. CASE k # m + 1
      BY <3>2, <2>1 DEF Running
    <3> QED BY <3>1, <3>2
  <2>3. Running(next, values, m + 1)
    BY <2>2 DEF Running
  <2> QED BY <2>3
<1> QED
  <2> HIDE DEF S
  <2>1. n \in S
    BY <1>1, <1>2, SetInduction
  <2> QED BY <2>1 DEF S

LEMMA SumIsRunning ==
    ASSUME NEW values, NEW n \in Nat
    PROVE  \E sum : Running(sum, values, n) /\ SumOf(values, n) = sum[n]
  BY RunningExists DEF Running, SumOf

(* They depend on the values alone. *)
LEMMA RunningUnique ==
    ASSUME NEW v, NEW w, NEW m \in Nat, NEW n \in Nat, m <= n,
           \A k \in 0..(m - 1) : v[k] = w[k],
           NEW f, Running(f, v, m), NEW g, Running(g, w, n)
    PROVE  f[m] = g[m]
<1> DEFINE S == {k \in Nat : k <= m => f[k] = g[k]}
<1>1. 0 \in S
  BY DEF Running
<1>2. ASSUME NEW k \in Nat, k \in S PROVE k + 1 \in S
  <2>1. CASE k + 1 <= m
    <3>1. f[k] = g[k] /\ v[k] = w[k]
      BY <1>2, <2>1
    <3>2. f[k + 1] = f[k] + v[k]
      BY <2>1 DEF Running
    <3>3. g[k + 1] = g[k] + w[k]
      BY <2>1 DEF Running
    <3> QED BY <3>1, <3>2, <3>3
  <2> QED BY <2>1
<1> QED
  <2> HIDE DEF S
  <2>1. m \in S
    BY <1>1, <1>2, SetInduction
  <2> QED BY <2>1 DEF S

LEMMA SumOfNone == ASSUME NEW v PROVE SumOf(v, 0) = 0
<1>1. PICK f : Running(f, v, 0) /\ SumOf(v, 0) = f[0]
  BY SumIsRunning
<1> QED BY <1>1 DEF Running

LEMMA SumOfNext ==
    ASSUME NEW v, NEW n \in Nat PROVE SumOf(v, n + 1) = SumOf(v, n) + v[n]
<1>1. PICK f : Running(f, v, n) /\ SumOf(v, n) = f[n]
  BY SumIsRunning
<1>2. PICK g : Running(g, v, n + 1) /\ SumOf(v, n + 1) = g[n + 1]
  BY SumIsRunning
<1>3. f[n] = g[n]
  <2>1. ASSUME NEW w, w = v PROVE f[n] = g[n]
    <3>1. Running(g, w, n + 1) /\ n + 1 \in Nat /\ n <= n + 1
      BY <1>2, <2>1
    <3>2. \A k \in 0..(n - 1) : v[k] = w[k]
      BY <2>1
    <3> HIDE <2>1
    <3> QED BY <1>1, <3>1, <3>2, RunningUnique
  <2> QED BY <2>1
<1>4. g[n + 1] = g[n] + v[n]
  BY <1>2 DEF Running
<1> QED BY <1>1, <1>2, <1>3, <1>4

LEMMA SumOfSame ==
    ASSUME NEW v, NEW w, NEW n \in Nat, \A k \in 0..(n - 1) : v[k] = w[k]
    PROVE  SumOf(v, n) = SumOf(w, n)
<1>1. PICK f : Running(f, v, n) /\ SumOf(v, n) = f[n]
  BY SumIsRunning
<1>2. PICK g : Running(g, w, n) /\ SumOf(w, n) = g[n]
  BY SumIsRunning
<1> QED BY <1>1, <1>2, RunningUnique

(* A sum of integers is one, and of natural numbers. *)
LEMMA SumOfType ==
    ASSUME NEW T \in {Nat, Int}, NEW v, NEW n \in Nat, \A k \in 0..(n - 1) : v[k] \in T
    PROVE  SumOf(v, n) \in T
<1> DEFINE S == {k \in Nat : k <= n => SumOf(v, k) \in T}
<1>1. 0 \in S
  BY SumOfNone
<1>2. ASSUME NEW k \in Nat, k \in S PROVE k + 1 \in S
  <2>1. CASE k + 1 <= n
    <3>1. SumOf(v, k) \in T /\ v[k] \in T
      BY <1>2, <2>1
    <3>2. SumOf(v, k + 1) = SumOf(v, k) + v[k]
      BY SumOfNext
    <3> QED BY <3>1, <3>2
  <2> QED BY <2>1
<1> QED
  <2> HIDE DEF S
  <2>1. n \in S
    BY <1>1, <1>2, SetInduction
  <2> QED BY <2>1 DEF S

(* One value changes. *)
LEMMA SumOfUpdate ==
    ASSUME NEW v, NEW w, NEW n \in Nat, NEW j \in 0..(n - 1),
           \A k \in 0..(n - 1) : v[k] \in Int /\ w[k] \in Int,
           \A k \in 0..(n - 1) : k # j => v[k] = w[k]
    PROVE  SumOf(w, n) = SumOf(v, n) - v[j] + w[j]
<1> DEFINE S == {k \in Nat : k <= n =>
                   SumOf(w, k) = IF k <= j THEN SumOf(v, k) ELSE SumOf(v, k) - v[j] + w[j]}
<1>1. 0 \in S
  BY SumOfNone
<1>2. ASSUME NEW k \in Nat, k \in S PROVE k + 1 \in S
  <2>1. CASE k + 1 <= n
    <3>1. SumOf(v, k) \in Int
      BY <2>1, SumOfType
    <3>2. SumOf(v, k + 1) = SumOf(v, k) + v[k] /\ SumOf(w, k + 1) = SumOf(w, k) + w[k]
      BY SumOfNext
    <3>3. v[k] \in Int /\ w[k] \in Int /\ v[j] \in Int /\ w[j] \in Int
          /\ (k # j => v[k] = w[k])
      BY <2>1
    <3>4. SumOf(w, k) = IF k <= j THEN SumOf(v, k) ELSE SumOf(v, k) - v[j] + w[j]
      BY <1>2, <2>1
    <3> QED BY <3>1, <3>2, <3>3, <3>4
  <2> QED BY <2>1
<1> QED
  <2> HIDE DEF S
  <2>1. n \in S
    BY <1>1, <1>2, SetInduction
  <2> QED BY <2>1 DEF S

(* The first value is left out. *)
LEMMA SumOfTail ==
    ASSUME NEW v, NEW w, NEW n \in Nat,
           \A k \in 0..n : v[k] \in Int,
           \A k \in 0..(n - 1) : w[k] = v[k + 1]
    PROVE  SumOf(w, n) = SumOf(v, n + 1) - v[0]
<1> DEFINE S == {k \in Nat : k <= n => SumOf(w, k) = SumOf(v, k + 1) - v[0]}
<1>1. 0 \in S
  <2>1. SumOf(v, 0 + 1) = SumOf(v, 0) + v[0] /\ SumOf(v, 0) = 0 /\ SumOf(w, 0) = 0
    BY SumOfNone, SumOfNext
  <2> QED BY <2>1
<1>2. ASSUME NEW k \in Nat, k \in S PROVE k + 1 \in S
  <2>1. CASE k + 1 <= n
    <3>1. SumOf(v, k + 1) \in Int
      BY <2>1, SumOfType
    <3>2. SumOf(v, (k + 1) + 1) = SumOf(v, k + 1) + v[k + 1] /\ SumOf(w, k + 1) = SumOf(w, k) + w[k]
      BY SumOfNext
    <3>3. v[k + 1] \in Int /\ v[0] \in Int /\ w[k] = v[k + 1]
      BY <2>1
    <3>4. SumOf(w, k) = SumOf(v, k + 1) - v[0]
      BY <1>2, <2>1
    <3> QED BY <3>1, <3>2, <3>3, <3>4
  <2> QED BY <2>1
<1> QED
  <2> HIDE DEF S
  <2>1. n \in S
    BY <1>1, <1>2, SetInduction
  <2> QED BY <2>1 DEF S

(* Of values on a line. *)
OnLine(w, c, d, v, n) == \A k \in 0..(n - 1) : v[k] \in Int /\ w[k] = c + d * v[k]

LEMMA SumOfLine ==
    ASSUME NEW n \in Nat, NEW c \in Int, NEW d \in Int, NEW v, NEW w, OnLine(w, c, d, v, n)
    PROVE  SumOf(w, n) = n * c + d * SumOf(v, n) /\ SumOf(v, n) \in Int
<1> USE DEF OnLine
<1> DEFINE T == {m \in Nat : m <= n => SumOf(w, m) = m * c + d * SumOf(v, m)}
<1>1. 0 \in T
  <2>1. SumOf(v, 0) = 0 /\ SumOf(w, 0) = 0
    BY SumOfNone
  <2> QED BY <2>1
<1>2. ASSUME NEW m \in Nat, m \in T PROVE m + 1 \in T
  <2> SUFFICES ASSUME m + 1 <= n
               PROVE  SumOf(w, m + 1) = (m + 1) * c + d * SumOf(v, m + 1)
    OBVIOUS
  <2>1. m \in 0..(n - 1) /\ \A k \in 0..(m - 1) : v[k] \in Int
    OBVIOUS
  <2>2. SumOf(v, m) \in Int
    BY <2>1, SumOfType
  <2>3. SumOf(v, m + 1) = SumOf(v, m) + v[m] /\ SumOf(w, m + 1) = SumOf(w, m) + w[m]
    BY SumOfNext
  <2>4. SumOf(w, m) = m * c + d * SumOf(v, m)
    BY <1>2, <2>1
  <2>5. v[m] \in Int /\ w[m] = c + d * v[m]
    BY <2>1
  <2> DEFINE x == v[m]
             s == SumOf(v, m)
  <2> HIDE DEF x, s
  <2>6. x \in Int /\ s \in Int
    BY <2>2, <2>5 DEF x, s
  <2>7. m * c + d * s + (c + d * x) = (m + 1) * c + d * (s + x)
    BY <2>6
  <2> QED BY <2>3, <2>4, <2>5, <2>7 DEF x, s
<1> HIDE DEF T
<1>3. n \in T
  BY <1>1, <1>2, SetInduction
<1>4. SumOf(v, n) \in Int
  BY SumOfType
<1> QED BY <1>3, <1>4 DEF T

(* Of values none of which is negative. *)
LEMMA SumOfPositive ==
    ASSUME NEW n \in Nat, NEW v, \A k \in 0..(n - 1) : v[k] \in Nat,
           NEW l \in 0..(n - 1), v[l] > 0
    PROVE  SumOf(v, n) > 0
<1> DEFINE T == {m \in Nat : m <= n /\ l < m => SumOf(v, m) > 0}
<1>1. 0 \in T
  OBVIOUS
<1>2. ASSUME NEW m \in Nat, m \in T PROVE m + 1 \in T
  <2> SUFFICES ASSUME m + 1 <= n, l < m + 1 PROVE SumOf(v, m + 1) > 0
    OBVIOUS
  <2>1. m \in 0..(n - 1) /\ \A k \in 0..(m - 1) : v[k] \in Nat
    OBVIOUS
  <2>2. SumOf(v, m) \in Nat
    BY <2>1, SumOfType
  <2>3. SumOf(v, m + 1) = SumOf(v, m) + v[m]
    BY SumOfNext
  <2>4. CASE l < m
    <3>1. SumOf(v, m) > 0
      BY <1>2, <2>1, <2>4
    <3> QED BY <2>1, <2>2, <2>3, <3>1
  <2>5. CASE l = m
    BY <2>1, <2>2, <2>3, <2>5
  <2> QED BY <2>4, <2>5
<1> HIDE DEF T
<1>3. n \in T
  BY <1>1, <1>2, SetInduction
<1> QED BY <1>3 DEF T

----------------------------------------------------------------------------
(* How many members of a set come before a number, which numbers them. *)

Ordinal(S, p) == Cardinality({q \in S : q < p})

LEMMA OrdinalType ==
    ASSUME NEW n \in Nat, NEW S \in SUBSET (0..(n - 1)), NEW p \in 0..n
    PROVE  /\ IsFiniteSet({q \in S : q < p})
           /\ Ordinal(S, p) \in 0..n /\ Ordinal(S, 0) = 0
<1>0. \A q \in S : q \in 0..(n - 1)
  OBVIOUS
<1>1. IsFiniteSet(0..(n - 1)) /\ Cardinality(0..(n - 1)) = n
  <2>1. 0 \in Int /\ n - 1 \in Int
    OBVIOUS
  <2>2. IsFiniteSet(0..(n - 1))
        /\ Cardinality(0..(n - 1)) = IF 0 > n - 1 THEN 0 ELSE (n - 1) - 0 + 1
    BY <2>1, FS_Interval
  <2> QED BY <2>2
<1>2. {q \in S : q < p} \subseteq 0..(n - 1)
  OBVIOUS
<1>3. /\ IsFiniteSet({q \in S : q < p})
      /\ Cardinality({q \in S : q < p}) <= Cardinality(0..(n - 1))
  BY <1>1, <1>2, FS_Subset
<1>4. Cardinality({q \in S : q < p}) \in Nat
  BY <1>3, FS_CardinalityType
<1>5. {q \in S : q < 0} = {}
  <2>1. \A q \in S : ~(q < 0)
    BY <1>0
  <2> QED BY <2>1
<1>6. Ordinal(S, 0) = 0
  BY <1>5, FS_EmptySet DEF Ordinal
<1>7. Ordinal(S, p) \in 0..n
  BY <1>1, <1>3, <1>4 DEF Ordinal
<1> QED BY <1>3, <1>6, <1>7

LEMMA OrdinalNext ==
    ASSUME NEW n \in Nat, NEW S \in SUBSET (0..(n - 1)), NEW p \in 0..(n - 1)
    PROVE  Ordinal(S, p + 1) = IF p \in S THEN Ordinal(S, p) + 1 ELSE Ordinal(S, p)
<1>0. \A q \in S : q \in 0..(n - 1)
  OBVIOUS
<1>1. IsFiniteSet({q \in S : q < p})
  <2>1. p \in 0..n
    OBVIOUS
  <2> QED BY <2>1, OrdinalType
<1>2. p \notin {q \in S : q < p}
  OBVIOUS
<1>3. CASE p \in S
  <2>1. {q \in S : q < p + 1} = {q \in S : q < p} \cup {p}
    <3>1. \A q \in S : q < p + 1 <=> q < p \/ q = p
      BY <1>0
    <3> QED BY <1>3, <3>1
  <2> QED BY <1>1, <1>2, <1>3, <2>1, FS_AddElement DEF Ordinal
<1>4. CASE p \notin S
  <2>1. {q \in S : q < p + 1} = {q \in S : q < p}
    <3>1. \A q \in S : q < p + 1 <=> q < p
      BY <1>0, <1>4
    <3> QED BY <3>1
  <2> QED BY <1>4, <2>1 DEF Ordinal
<1> QED BY <1>3, <1>4

LEMMA OrdinalLess ==
    ASSUME NEW n \in Nat, NEW S \in SUBSET (0..(n - 1)), NEW p \in S, NEW q \in 0..n, p < q
    PROVE  Ordinal(S, p) < Ordinal(S, q)
<1>0. \A k \in S : k \in 0..(n - 1)
  OBVIOUS
<1>1. p \in 0..(n - 1) /\ p \in 0..n /\ p + 1 \in 0..n
  OBVIOUS
<1>2. Ordinal(S, p + 1) = Ordinal(S, p) + 1
  BY <1>1, OrdinalNext
<1>3. {k \in S : k < p + 1} \subseteq {k \in S : k < q} /\ IsFiniteSet({k \in S : k < q})
  <2>1. IsFiniteSet({k \in S : k < q})
    BY OrdinalType
  <2>2. \A k \in S : k < p + 1 => k < q
    BY <1>0, <1>1
  <2> QED BY <2>1, <2>2
<1>4. Ordinal(S, p + 1) <= Ordinal(S, q)
  BY <1>3, FS_Subset DEF Ordinal
<1>5. Ordinal(S, p) \in 0..n /\ Ordinal(S, q) \in 0..n
  BY <1>1, OrdinalType
<1> QED BY <1>2, <1>4, <1>5

(* The numbers of two members are not the same. *)
LEMMA OrdinalDiffers ==
    ASSUME NEW n \in Nat, NEW S \in SUBSET (0..(n - 1)), NEW p \in S, NEW q \in S, p # q
    PROVE  Ordinal(S, p) # Ordinal(S, q)
<1>1. p \in 0..n /\ q \in 0..n
  OBVIOUS
<1>2. Ordinal(S, p) \in 0..n /\ Ordinal(S, q) \in 0..n
  BY <1>1, OrdinalType
<1>3. CASE p < q
  BY <1>1, <1>2, <1>3, OrdinalLess
<1>4. CASE q < p
  BY <1>1, <1>2, <1>4, OrdinalLess
<1> QED BY <1>1, <1>3, <1>4

(* Every number is taken. *)
LEMMA OrdinalOnto ==
    ASSUME NEW n \in Nat, NEW S \in SUBSET (0..(n - 1)), NEW q \in 0..n,
           NEW k \in Nat, k < Ordinal(S, q)
    PROVE  \E p \in S : p < q /\ Ordinal(S, p) = k
<1> DEFINE T == {m \in Nat : m <= n /\ k < Ordinal(S, m) => \E p \in S : p < m /\ Ordinal(S, p) = k}
<1>1. 0 \in T
  <2>1. Ordinal(S, 0) = 0
    BY OrdinalType
  <2> QED BY <2>1
<1>2. ASSUME NEW m \in Nat, m \in T PROVE m + 1 \in T
  <2> SUFFICES ASSUME m + 1 <= n, k < Ordinal(S, m + 1)
               PROVE  \E p \in S : p < m + 1 /\ Ordinal(S, p) = k
    OBVIOUS
  <2>1. m \in 0..(n - 1) /\ m \in 0..n
    OBVIOUS
  <2>2. Ordinal(S, m + 1) = IF m \in S THEN Ordinal(S, m) + 1 ELSE Ordinal(S, m)
    BY <2>1, OrdinalNext
  <2>5. Ordinal(S, m) \in 0..n
    BY <2>1, OrdinalType
  <2>3. CASE k < Ordinal(S, m)
    <3>1. PICK p \in S : p < m /\ Ordinal(S, p) = k
      BY <1>2, <2>1, <2>3
    <3>2. p < m + 1
      BY <3>1
    <3> QED BY <3>1, <3>2
  <2>4. CASE ~(k < Ordinal(S, m))
    <3>1. m \in S /\ Ordinal(S, m) = k /\ m < m + 1
      BY <2>2, <2>4, <2>5
    <3> QED BY <3>1
  <2> QED BY <2>3, <2>4
<1> HIDE DEF T
<1>3. q \in T
  BY <1>1, <1>2, SetInduction
<1> QED BY <1>3 DEF T

(* The members are numbered without gaps. *)
LEMMA OrdinalPlace ==
    ASSUME NEW n \in Nat, NEW S \in SUBSET (0..(n - 1)), NEW p \in S
    PROVE  Ordinal(S, p) \in 0..(n - 1)
<1>1. p \in 0..n /\ n \in 0..n /\ p < n
  OBVIOUS
<1>2. Ordinal(S, p) \in 0..n /\ Ordinal(S, n) \in 0..n /\ Ordinal(S, p) < Ordinal(S, n)
  BY <1>1, OrdinalType, OrdinalLess
<1> QED BY <1>2

----------------------------------------------------------------------------
(* Division with remainder. *)
LEMMA ModDef ==
    ASSUME NEW m \in Nat \ {0}, NEW a \in Int
    PROVE  /\ a % m \in 0..(m - 1) /\ a \div m \in Int
           /\ a = m * (a \div m) + (a % m)
  OBVIOUS

LEMMA ModUnique ==
    ASSUME NEW m \in Nat \ {0}, NEW q \in Int, NEW r \in 0..(m - 1), NEW a, a = m * q + r
    PROVE  a % m = r
<1> DEFINE d == a \div m
           s == a % m
<1>1. a \in Int /\ m * q \in Int
  OBVIOUS
<1>2. s \in 0..(m - 1) /\ d \in Int /\ a = m * d + s
  BY <1>1, ModDef
<1> HIDE DEF d, s
<1>3. m * d = m * q + (r - s) /\ m * d \in Int /\ r - s < m /\ s - r < m
  BY <1>1, <1>2
<1>4. CASE d > q
  <2>1. PICK k \in Nat : d = q + 1 + k
    <3>1. d - q - 1 \in Nat /\ d = q + 1 + (d - q - 1)
      BY <1>2, <1>4
    <3> QED BY <3>1
  <2>2. m * d = m * q + m + m * k /\ m * k >= 0 /\ m * k \in Int
    BY <1>1, <2>1
  <2> QED BY <1>1, <1>2, <1>3, <2>2
<1>5. CASE d < q
  <2>1. PICK k \in Nat : q = d + 1 + k
    <3>1. q - d - 1 \in Nat /\ q = d + 1 + (q - d - 1)
      BY <1>2, <1>5
    <3> QED BY <3>1
  <2>2. m * q = m * d + m + m * k /\ m * k >= 0 /\ m * k \in Int
    BY <1>2, <2>1
  <2> QED BY <1>1, <1>2, <1>3, <2>2
<1>6. CASE d = q
  BY <1>1, <1>2, <1>6 DEF s
<1> QED BY <1>2, <1>4, <1>5, <1>6

LEMMA ModSame ==
    ASSUME NEW m \in Nat \ {0}, NEW a \in Int, NEW k \in Int, NEW b, b = a + m * k
    PROVE  b % m = a % m
<1> DEFINE d == a \div m
           s == a % m
<1>1. s \in 0..(m - 1) /\ d \in Int /\ a = m * d + s
  BY ModDef
<1> HIDE DEF d, s
<1>2. b = m * (d + k) + s
  BY <1>1
<1>3. d + k \in Int
  BY <1>1
<1>4. b % m = s
  BY <1>1, <1>2, <1>3, ModUnique
<1> QED BY <1>4 DEF s

----------------------------------------------------------------------------
(* Means. *)

LEMMA TimesMonotone ==
    ASSUME NEW k \in Nat, NEW x \in Int, NEW y \in Int, x <= y
    PROVE  k * x <= k * y
<1>1. PICK z \in Nat : y = x + z
  <2>1. y - x \in Nat /\ y = x + (y - x)
    OBVIOUS
  <2> QED BY <2>1
<1>2. k * (x + z) = k * x + k * z /\ k * z \in Nat /\ k * x \in Int
  OBVIOUS
<1> QED BY <1>1, <1>2

(* One more value keeps a mean between its bounds. *)
LEMMA MeanBelow ==
    ASSUME NEW k \in Nat, NEW num \in Int, NEW den \in Nat \ {0}, NEW t \in Int, NEW tof \in Int,
           num <= den * t
    PROVE  \E u \in {t, tof} : k * num + tof * den <= (k + 1) * den * u
<1>1. k * num <= k * (den * t)
  <2>1. den * t \in Int
    OBVIOUS
  <2> QED BY <2>1, TimesMonotone
<1>2. (k + 1) * den * t = k * (den * t) + den * t /\ (k + 1) * den * tof = k * (den * tof) + den * tof
      /\ tof * den = den * tof
  OBVIOUS
<1>3. PICK a \in Int, b \in Int, c \in Int, e \in Int, f \in Int :
        a = k * num /\ b = k * (den * t) /\ c = den * t /\ e = k * (den * tof) /\ f = den * tof
  OBVIOUS
<1>4. CASE tof <= t
  <2>1. f <= c
    BY <1>3, <1>4, TimesMonotone
  <2>2. a + f <= b + c
    BY <1>1, <1>3, <2>1
  <2> QED BY <1>2, <1>3, <2>2
<1>5. CASE ~(tof <= t)
  <2>1. c <= f
    BY <1>3, <1>5, TimesMonotone
  <2>2. b <= e
    <3>1. k * c <= k * f
      BY <2>1, TimesMonotone
    <3> QED BY <1>3, <3>1
  <2>3. a + f <= e + f
    BY <1>1, <1>3, <2>2
  <2> QED BY <1>2, <1>3, <2>3
<1> QED BY <1>4, <1>5

LEMMA MeanAbove ==
    ASSUME NEW k \in Nat, NEW num \in Int, NEW den \in Nat \ {0}, NEW t \in Int, NEW tof \in Int,
           num >= den * t
    PROVE  \E u \in {t, tof} : k * num + tof * den >= (k + 1) * den * u
<1>1. k * num >= k * (den * t)
  <2>1. den * t \in Int /\ den * t <= num
    OBVIOUS
  <2>2. k * (den * t) <= k * num
    BY <2>1, TimesMonotone
  <2> QED BY <2>2
<1>2. (k + 1) * den * t = k * (den * t) + den * t /\ (k + 1) * den * tof = k * (den * tof) + den * tof
      /\ tof * den = den * tof
  OBVIOUS
<1>3. PICK a \in Int, b \in Int, c \in Int, e \in Int, f \in Int :
        a = k * num /\ b = k * (den * t) /\ c = den * t /\ e = k * (den * tof) /\ f = den * tof
  OBVIOUS
<1>4. CASE t <= tof
  <2>1. c <= f
    BY <1>3, <1>4, TimesMonotone
  <2>2. a + f >= b + c
    BY <1>1, <1>3, <2>1
  <2> QED BY <1>2, <1>3, <2>2
<1>5. CASE ~(t <= tof)
  <2>1. f <= c
    BY <1>3, <1>5, TimesMonotone
  <2>2. e <= b
    <3>1. k * f <= k * c
      BY <2>1, TimesMonotone
    <3> QED BY <1>3, <3>1
  <2>3. a + f >= e + f
    BY <1>1, <1>3, <2>2
  <2> QED BY <1>2, <1>3, <2>3
<1> QED BY <1>4, <1>5
=============================================================================
