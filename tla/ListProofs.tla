----------------------------- MODULE ListProofs -----------------------------
(***************************************************************************)
(* Lemmas about lists, folds and extremes, for the proofs of the modules   *)
(* that use them: where the elements of a sorted, a filtered and a         *)
(* flattened list are, and that a fold exists and is what its steps make   *)
(* it.                                                                     *)
(***************************************************************************)
EXTENDS Lists, SequencesExt, FiniteSetsExt, FiniteSetTheorems, WellFoundedInduction, TLAPS

-----------------------------------------------------------------------------
(* A set of naturals that is not empty has a smallest element. *)
LEMMA SmallestNumber ==
  ASSUME NEW N, N \subseteq Nat, N # {}
  PROVE  \E n \in N : \A k \in N : ~(k < n)
<1>1. PICK n \in N : \A k \in N : ~(<<k, n>> \in OpToRel(<, Nat))
  BY NatLessThanWellFounded, WFMin
<1>2. \A k \in N : ~(k < n)
  BY <1>1 DEF OpToRel
<1> QED
  BY <1>2

(* What is defined by steps from 0 exists, and has values in V when each   *)
(* step has.                                                               *)
StepChain(g, n, base, R) ==
  g = [i \in 0 .. n |-> IF i = 0 THEN base ELSE R[<<i, g[i - 1]>>]]

LEMMA ChainExists ==
  ASSUME NEW n \in Nat, NEW V, NEW base \in V, NEW R \in [(1 .. n) \X V -> V]
  PROVE  \E g \in [0 .. n -> V] : StepChain(g, n, base, R)
<1> DEFINE N == {k \in 0 .. n : ~\E g \in [0 .. k -> V] : StepChain(g, k, base, R)}
<1> SUFFICES ASSUME N # {} PROVE FALSE
  <2>1. N = {} => n \notin N
    OBVIOUS
  <2> QED
    BY <2>1
<1>1. PICK k \in N : \A j \in N : ~(j < k)
  <2>1. N \subseteq Nat
    OBVIOUS
  <2> HIDE DEF N
  <2> QED
    BY <2>1, SmallestNumber
<1>2. k # 0
  <2>1. ASSUME k = 0 PROVE FALSE
    <3>1. [i \in 0 .. 0 |-> base] \in [0 .. 0 -> V]
      OBVIOUS
    <3>2. StepChain([i \in 0 .. 0 |-> base], 0, base, R)
      BY DEF StepChain
    <3> QED
      BY <2>1, <3>1, <3>2
  <2> QED
    BY <2>1
<1>3. k - 1 \in 0 .. n /\ k \in 1 .. n
  BY <1>2
<1>4. PICK g \in [0 .. k - 1 -> V] : StepChain(g, k - 1, base, R)
  BY <1>1, <1>3
<1>5. PICK h : h = [i \in 0 .. k |-> IF i = k THEN R[<<k, g[k - 1]>>] ELSE g[i]]
  OBVIOUS
<1>6. h \in [0 .. k -> V]
  <2>1. R[<<k, g[k - 1]>>] \in V
    BY <1>3
  <2> QED
    BY <1>3, <1>5, <2>1
<1>7. ASSUME NEW i \in 0 .. k
      PROVE  h[i] = IF i = 0 THEN base ELSE R[<<i, h[i - 1]>>]
  <2>1. CASE i = k
    BY <1>2, <1>3, <1>5, <2>1
  <2>2. CASE i # k
    <3>1. i \in 0 .. k - 1 /\ (i # 0 => i - 1 \in 0 .. k - 1 /\ i - 1 # k)
      BY <2>2
    <3>2. g[i] = IF i = 0 THEN base ELSE R[<<i, g[i - 1]>>]
      BY <1>4, <3>1 DEF StepChain
    <3>3. h[i] = g[i]
      BY <1>5, <2>2
    <3>4. i # 0 => h[i - 1] = g[i - 1]
      BY <1>5, <3>1
    <3> QED
      BY <3>2, <3>3, <3>4
  <2> QED
    BY <2>1, <2>2
<1>8. StepChain(h, k, base, R)
  BY <1>6, <1>7 DEF StepChain
<1> QED
  BY <1>1, <1>6, <1>8

LEMMA ChainStays ==
  ASSUME NEW n \in Nat, NEW V, NEW g, g[0] \in V,
         \A i \in 1 .. n : g[i - 1] \in V => g[i] \in V
  PROVE  g[n] \in V
<1> DEFINE N == {k \in 0 .. n : g[k] \notin V}
<1> SUFFICES ASSUME N # {} PROVE FALSE
  OBVIOUS
<1>1. PICK k \in N : \A j \in N : ~(j < k)
  <2>1. N \subseteq Nat
    OBVIOUS
  <2> HIDE DEF N
  <2> QED
    BY <2>1, SmallestNumber
<1>2. k \in 1 .. n /\ k - 1 \in 0 .. n /\ k - 1 < k
  OBVIOUS
<1>3. g[k - 1] \in V
  BY <1>1, <1>2
<1> QED
  BY <1>2, <1>3

-----------------------------------------------------------------------------
(* The folds over a sequence take the last element first: they recur over  *)
(* sets of indices, by their largest.                                      *)
LEMMA Largest ==
  ASSUME NEW n \in Nat, NEW t \in SUBSET (1 .. n), t # {}
  PROVE  Max(t) \in t /\ \A i \in t : Max(t) >= i
<1> DEFINE N == {n - i : i \in t}
<1>1. N \subseteq Nat /\ N # {}
  <2>1. \A i \in t : n - i \in Nat
    OBVIOUS
  <2> QED
    BY <2>1
<1>2. PICK m \in N : \A k \in N : ~(k < m)
  <2> HIDE DEF N
  <2> QED
    BY <1>1, SmallestNumber
<1>3. PICK i \in t : m = n - i
  OBVIOUS
<1>4. ASSUME NEW j \in t PROVE i >= j
  <2>1. ~(n - j < n - i)
    BY <1>2, <1>3
  <2> QED
    BY <2>1
<1> QED
  BY <1>4 DEF Max

LeftFold(g, n, base, R) ==
  g = [t \in SUBSET (1 .. n) |->
         IF t = {} THEN base ELSE R[<<Max(t), g[t \ {Max(t)}]>>]]

LEMMA LeftExists ==
  ASSUME NEW n \in Nat, NEW V, NEW base \in V, NEW R \in [(1 .. n) \X V -> V]
  PROVE  \E g \in [SUBSET (1 .. n) -> V] : LeftFold(g, n, base, R)
<1> DEFINE N == {k \in 0 .. n : ~\E g \in [SUBSET (1 .. k) -> V] : LeftFold(g, k, base, R)}
<1> SUFFICES ASSUME N # {} PROVE FALSE
  <2>1. N = {} => n \notin N
    OBVIOUS
  <2>2. n \in 0 .. n
    OBVIOUS
  <2> QED
    BY <2>1, <2>2
<1>1. PICK k \in N : \A j \in N : ~(j < k)
  <2>1. N \subseteq Nat
    OBVIOUS
  <2> HIDE DEF N
  <2> QED
    BY <2>1, SmallestNumber
<1>2. k # 0
  <2>1. ASSUME k = 0 PROVE FALSE
    <3>1. 1 .. 0 = {} /\ SUBSET (1 .. 0) = {{}}
      OBVIOUS
    <3>2. [t \in SUBSET (1 .. 0) |-> base] \in [SUBSET (1 .. 0) -> V]
      OBVIOUS
    <3>3. LeftFold([t \in SUBSET (1 .. 0) |-> base], 0, base, R)
      BY <3>1 DEF LeftFold
    <3> QED
      BY <2>1, <3>2, <3>3
  <2> QED
    BY <2>1
<1>3. k - 1 \in 0 .. n /\ k \in 1 .. n /\ k - 1 < k
  BY <1>2
<1>4. PICK g \in [SUBSET (1 .. k - 1) -> V] : LeftFold(g, k - 1, base, R)
  BY <1>1, <1>3
<1>5. PICK h : h = [t \in SUBSET (1 .. k) |->
                      IF k \in t THEN R[<<k, g[t \ {k}]>>] ELSE g[t]]
  OBVIOUS
<1>6. ASSUME NEW t \in SUBSET (1 .. k)
      PROVE  t \ {k} \in SUBSET (1 .. k - 1) /\ (k \notin t => t \in SUBSET (1 .. k - 1))
  <2>1. \A i \in 1 .. k : i # k => i \in 1 .. k - 1
    BY <1>3
  <2> QED
    BY <2>1
<1>7. h \in [SUBSET (1 .. k) -> V]
  <2>1. ASSUME NEW t \in SUBSET (1 .. k) PROVE h[t] \in V
    <3>1. CASE k \in t
      <4>1. <<k, g[t \ {k}]>> \in (1 .. n) \X V
        BY <1>3, <1>4, <1>6
      <4> QED
        BY <1>5, <3>1, <4>1
    <3>2. CASE k \notin t
      BY <1>4, <1>5, <1>6, <3>2
    <3> QED
      BY <3>1, <3>2
  <2> QED
    BY <1>5, <2>1
<1>8. ASSUME NEW t \in SUBSET (1 .. k)
      PROVE  h[t] = IF t = {} THEN base ELSE R[<<Max(t), h[t \ {Max(t)}]>>]
  <2>1. CASE k \in t
    <3>0. k \in Nat /\ t # {}
      BY <1>3, <2>1
    <3>1. Max(t) \in t /\ \A i \in t : Max(t) >= i
      BY <3>0, Largest
    <3>2. Max(t) = k
      <4>1. Max(t) \in 1 .. k /\ Max(t) >= k
        BY <2>1, <3>1
      <4> QED
        BY <1>3, <4>1
    <3>3. h[t] = R[<<k, g[t \ {k}]>>]
      BY <1>5, <2>1
    <3>4. h[t \ {k}] = g[t \ {k}]
      BY <1>5, <1>6
    <3> QED
      BY <2>1, <3>2, <3>3, <3>4
  <2>2. CASE k \notin t
    <3>1. t \in SUBSET (1 .. k - 1) /\ h[t] = g[t]
      BY <1>5, <1>6, <2>2
    <3>2. g[t] = IF t = {} THEN base ELSE R[<<Max(t), g[t \ {Max(t)}]>>]
      BY <1>4, <3>1 DEF LeftFold
    <3>3. h[t \ {Max(t)}] = g[t \ {Max(t)}]
      BY <1>5, <2>2
    <3> QED
      BY <3>1, <3>2, <3>3
  <2> QED
    BY <2>1, <2>2
<1>9. LeftFold(h, k, base, R)
  BY <1>7, <1>8 DEF LeftFold
<1> QED
  BY <1>1, <1>7, <1>9

LEMMA LeftStays ==
  ASSUME NEW n \in Nat, NEW V, NEW g, g[{}] \in V,
         \A t \in SUBSET (1 .. n) : t # {} /\ g[t \ {Max(t)}] \in V => g[t] \in V
  PROVE  g[1 .. n] \in V
<1> DEFINE N == {k \in 0 .. n : g[1 .. k] \notin V}
<1> SUFFICES ASSUME N # {} PROVE FALSE
  <2>1. N = {} => n \notin N
    OBVIOUS
  <2> QED
    BY <2>1
<1>1. PICK k \in N : \A j \in N : ~(j < k)
  <2>1. N \subseteq Nat
    OBVIOUS
  <2> HIDE DEF N
  <2> QED
    BY <2>1, SmallestNumber
<1>2. k # 0
  <2>1. 1 .. 0 = {}
    OBVIOUS
  <2> QED
    BY <2>1
<1>3. k \in 1 .. n /\ k - 1 \in 0 .. n /\ k - 1 < k
  BY <1>2
<1>4. g[1 .. k - 1] \in V
  BY <1>1, <1>3
<1>5. 1 .. k \in SUBSET (1 .. n) /\ 1 .. k # {} /\ k \in 1 .. k
  BY <1>3
<1>6. Max(1 .. k) = k
  <2>1. Max(1 .. k) \in 1 .. k /\ \A i \in 1 .. k : Max(1 .. k) >= i
    BY <1>5, Largest
  <2> QED
    BY <1>5, <2>1
<1>7. (1 .. k) \ {k} = 1 .. k - 1
  BY <1>3
<1> QED
  BY <1>4, <1>5, <1>6, <1>7

-----------------------------------------------------------------------------
(* A strict order of a finite set arranges all of it, each element once,   *)
(* what is before before what is after.                                    *)
Orders(before, S) ==
  /\ \A x \in S : <<x, x>> \notin before
  /\ \A x, y \in S : x # y => <<x, y>> \in before \/ <<y, x>> \in before
  /\ \A x, y, z \in S : <<x, y>> \in before /\ <<y, z>> \in before => <<x, z>> \in before

Arranges(a, S, before) ==
  /\ Cardinality(S) \in Nat /\ a \in [1 .. Cardinality(S) -> S]
  /\ \A x \in S : \E k \in 1 .. Cardinality(S) : a[k] = x
  /\ \A k, l \in 1 .. Cardinality(S) : k < l => <<a[k], a[l]>> \in before
  /\ \A k, l \in 1 .. Cardinality(S) : a[k] = a[l] => k = l

LEMMA ArrangedOrder ==
  ASSUME NEW S, IsFiniteSet(S), NEW before, Orders(before, S)
  PROVE  Arranges(Arranged(S, before), S, before)
<1> DEFINE n == Cardinality(S)
           Ahead(x) == {y \in S : <<y, x>> \in before}
           rank(x) == Cardinality(Ahead(x))
           a == Arranged(S, before)
<1>1. n \in Nat
  BY FS_CardinalityType
<1>2. ASSUME NEW x \in S PROVE rank(x) \in 0 .. n - 1
  <2>1. IsFiniteSet(S \ {x}) /\ Cardinality(S \ {x}) = n - 1
    BY FS_RemoveElement
  <2>2. Ahead(x) \in SUBSET (S \ {x})
    <3>1. <<x, x>> \notin before
      BY DEF Orders
    <3>2. x \notin Ahead(x)
      BY <3>1
    <3>3. Ahead(x) \in SUBSET S
      OBVIOUS
    <3> HIDE DEF Ahead
    <3> QED
      BY <3>2, <3>3
  <2>3. IsFiniteSet(Ahead(x)) /\ rank(x) <= n - 1
    <3> HIDE DEF Ahead, n
    <3>1. IsFiniteSet(Ahead(x)) /\ Cardinality(Ahead(x)) <= Cardinality(S \ {x})
      BY <2>1, <2>2, FS_Subset
    <3> QED
      BY <2>1, <3>1
  <2>4. rank(x) \in Nat
    BY <2>3, FS_CardinalityType
  <2> QED
    BY <1>1, <2>3, <2>4
<1>3. ASSUME NEW x \in S, NEW y \in S, <<x, y>> \in before
      PROVE  rank(x) < rank(y)
  <2>1. Ahead(x) \cup {x} \in SUBSET Ahead(y) /\ x \notin Ahead(x)
    BY <1>3 DEF Orders
  <2>2. IsFiniteSet(Ahead(x)) /\ IsFiniteSet(Ahead(y))
    <3>1. Ahead(x) \in SUBSET S /\ Ahead(y) \in SUBSET S
      OBVIOUS
    <3> QED
      BY <3>1, FS_Subset
  <2>3. Cardinality(Ahead(x) \cup {x}) = rank(x) + 1
    BY <2>1, <2>2, FS_AddElement
  <2>4. Cardinality(Ahead(x) \cup {x}) <= rank(y)
    BY <2>1, <2>2, FS_Subset
  <2> QED
    BY <1>2, <2>3, <2>4
<1>4. a = [k \in 1 .. n |-> CHOOSE x \in S : rank(x) = k - 1]
  BY DEF Arranged
<1> HIDE DEF a, rank, n
<1>5. ASSUME NEW k \in 1 .. n PROVE \E x \in S : rank(x) = k - 1
  <2> DEFINE f == [x \in S |-> rank(x) + 1]
  <2>1. ASSUME NEW x \in S, NEW y \in S, f[x] = f[y] PROVE x = y
    <3>1. rank(x) = rank(y)
      BY <1>1, <1>2, <2>1
    <3>2. ~(<<x, y>> \in before) /\ ~(<<y, x>> \in before)
      BY <1>1, <1>2, <1>3, <3>1
    <3> QED
      BY <3>2 DEF Orders
  <2>2. f \in Injection(S, 1 .. n)
    <3>1. f \in [S -> 1 .. n]
      BY <1>1, <1>2
    <3> QED
      BY <2>1, <3>1 DEF Injection, IsInjective
  <2>3. IsFiniteSet(1 .. n) /\ Cardinality(1 .. n) = n
    BY <1>1, FS_Interval
  <2>4. f \in Surjection(S, 1 .. n)
    <3> HIDE DEF f
    <3> QED
      BY <2>2, <2>3, FS_Injection DEF n
  <2>5. PICK x \in S : f[x] = k
    BY <2>4 DEF Surjection
  <2>6. rank(x) = k - 1
    BY <1>1, <1>2, <2>5
  <2> QED
    BY <2>6
<1>6. ASSUME NEW k \in 1 .. n PROVE a[k] \in S /\ rank(a[k]) = k - 1
  BY <1>4, <1>5
<1>7. a \in [1 .. n -> S]
  BY <1>4, <1>6
<1>8. ASSUME NEW k \in 1 .. n, NEW l \in 1 .. n, a[k] = a[l] PROVE k = l
  BY <1>1, <1>6, <1>8
<1>9. ASSUME NEW k \in 1 .. n, NEW l \in 1 .. n, k < l PROVE <<a[k], a[l]>> \in before
  <2>1. a[k] # a[l]
    BY <1>1, <1>8, <1>9
  <2>2. <<a[l], a[k]>> \notin before
    BY <1>1, <1>3, <1>6, <1>9
  <2> QED
    BY <1>6, <2>1, <2>2 DEF Orders
<1>10. ASSUME NEW x \in S PROVE \E k \in 1 .. n : a[k] = x
  <2>1. rank(x) + 1 \in 1 .. n /\ (rank(x) + 1) - 1 = rank(x)
    BY <1>1, <1>2
  <2>2. a[rank(x) + 1] \in S /\ rank(a[rank(x) + 1]) = rank(x)
    BY <1>6, <2>1
  <2>3. a[rank(x) + 1] = x
    <3>1. <<a[rank(x) + 1], x>> \notin before /\ <<x, a[rank(x) + 1]>> \notin before
      BY <1>1, <1>2, <1>3, <2>2
    <3> QED
      BY <2>2, <3>1 DEF Orders
  <2> QED
    BY <2>1, <2>3
<1> QED
  BY <1>1, <1>7, <1>8, <1>9, <1>10 DEF Arranges, a, n

(* Among finitely many there is one that no other is before.               *)
LEMMA FirstExists ==
  ASSUME NEW S, IsFiniteSet(S), S # {}, NEW before, Orders(before, S)
  PROVE  \E x \in S : \A y \in S \ {x} : <<x, y>> \in before
<1> DEFINE a == Arranged(S, before)
           n == Cardinality(S)
<1>1. Arranges(a, S, before)
  BY ArrangedOrder
<1>2. n \in Nat /\ n # 0
  BY FS_CardinalityType, FS_EmptySet
<1>3. 1 \in 1 .. n
  BY <1>2
<1>4. a[1] \in S
  BY <1>1, <1>3 DEF Arranges
<1>5. ASSUME NEW y \in S \ {a[1]} PROVE <<a[1], y>> \in before
  <2>1. PICK k \in 1 .. n : a[k] = y
    BY <1>1 DEF Arranges
  <2>2. k # 1 /\ 1 < k
    BY <1>2, <2>1
  <2> QED
    BY <1>1, <1>3, <2>1, <2>2 DEF Arranges
<1> QED
  BY <1>4, <1>5

LEMMA AscendingOrder ==
  ASSUME NEW S, IsFiniteSet(S), S \subseteq Int
  PROVE  /\ Arranges(Ascending(S), S, {x \in S \X S : x[1] < x[2]})
         /\ \A k, l \in 1 .. Cardinality(S) : k < l => Ascending(S)[k] < Ascending(S)[l]
<1> DEFINE before == {x \in S \X S : x[1] < x[2]}
<1>1. ASSUME NEW x \in S, NEW y \in S PROVE <<x, y>> \in before <=> x < y
  OBVIOUS
<1> HIDE DEF before
<1>2. Orders(before, S)
  BY <1>1 DEF Orders
<1>3. Arranges(Ascending(S), S, before)
  BY <1>2, ArrangedOrder DEF Ascending, before
<1>4. ASSUME NEW k \in 1 .. Cardinality(S), NEW l \in 1 .. Cardinality(S), k < l
      PROVE  Ascending(S)[k] < Ascending(S)[l]
  BY <1>1, <1>3, <1>4 DEF Arranges
<1> QED
  BY <1>3, <1>4 DEF before

(* The extremes of a finite set of integers are in it.                     *)
LEMMA FiniteExtremes ==
  ASSUME NEW S, IsFiniteSet(S), S \subseteq Int, S # {}
  PROVE  /\ Min(S) \in S /\ \A x \in S : Min(S) <= x
         /\ Max(S) \in S /\ \A x \in S : Max(S) >= x
<1> DEFINE up == {x \in S \X S : x[1] < x[2]}
           down == {x \in S \X S : x[2] < x[1]}
<1>1. ASSUME NEW x \in S, NEW y \in S
      PROVE  (<<x, y>> \in up <=> x < y) /\ (<<x, y>> \in down <=> y < x)
  OBVIOUS
<1> HIDE DEF up, down
<1>2. Orders(up, S) /\ Orders(down, S)
  BY <1>1 DEF Orders
<1>3. PICK low \in S : \A y \in S \ {low} : <<low, y>> \in up
  BY <1>2, FirstExists
<1>4. PICK high \in S : \A y \in S \ {high} : <<high, y>> \in down
  BY <1>2, FirstExists
<1>5. (\A x \in S : low <= x) /\ (\A x \in S : high >= x)
  <2>1. ASSUME NEW x \in S PROVE low <= x /\ high >= x
    <3>1. low \in Int /\ high \in Int /\ x \in Int
      OBVIOUS
    <3>2. x = low \/ low < x
      BY <1>1, <1>3
    <3>3. x = high \/ x < high
      BY <1>1, <1>4
    <3> QED
      BY <3>1, <3>2, <3>3
  <2> QED
    BY <2>1
<1> QED
  BY <1>5 DEF Min, Max

(* The smaller and the larger of two. *)
LEMMA OfTwo ==
  \A a, b \in Int : /\ Min({a, b}) \in {a, b} /\ Min({a, b}) <= a /\ Min({a, b}) <= b
                    /\ Max({a, b}) \in {a, b} /\ Max({a, b}) >= a /\ Max({a, b}) >= b
<1> TAKE a, b \in Int
<1>1. IsFiniteSet({a, b}) /\ {a, b} \subseteq Int /\ {a, b} # {}
  <2>1. IsFiniteSet({a}) /\ {a} \cup {b} = {a, b}
    BY FS_Singleton
  <2>2. IsFiniteSet({a} \cup {b})
    BY <2>1, FS_AddElement
  <2> QED
    BY <2>1, <2>2
<1> QED
  BY <1>1, FiniteExtremes

(* A list is one of elements of X when each of its entries is. *)
LEMMA ListOf ==
  ASSUME NEW X, NEW n \in Nat, NEW s, s = [i \in 1 .. n |-> s[i]], \A i \in 1 .. n : s[i] \in X
  PROVE  s \in Seq(X) /\ Len(s) = n /\ DOMAIN s = 1 .. n
OBVIOUS

(* The entries of a list at some places are just those, in their order.    *)
Selects(e, s, I, at) ==
  /\ at \in [DOMAIN e -> I]
  /\ \A k \in DOMAIN e : e[k] = s[at[k]]
  /\ \A i \in I : \E k \in DOMAIN e : at[k] = i
  /\ \A k, l \in DOMAIN e : k < l => at[k] < at[l]
  /\ \A k, l \in DOMAIN e : at[k] = at[l] => k = l

LEMMA EntriesAt ==
  ASSUME NEW X, NEW s \in Seq(X), NEW I \in SUBSET DOMAIN s
  PROVE  /\ IsFiniteSet(I) /\ Entries(s, I) \in Seq(X) /\ Len(Entries(s, I)) = Cardinality(I)
         /\ \E at : Selects(Entries(s, I), s, I, at)
<1> DEFINE at == Ascending(I)
           n == Cardinality(I)
<1>1. DOMAIN s = 1 .. Len(s) /\ Len(s) \in Nat
  OBVIOUS
<1>2. IsFiniteSet(I) /\ I \subseteq Int
  <2>1. IsFiniteSet(1 .. Len(s)) /\ I \in SUBSET (1 .. Len(s))
    BY <1>1, FS_Interval
  <2> QED
    BY <2>1, FS_Subset
<1>3. /\ Arranges(at, I, {x \in I \X I : x[1] < x[2]})
      /\ \A k, l \in 1 .. n : k < l => at[k] < at[l]
  BY <1>2, AscendingOrder
<1>4. n \in Nat /\ at \in [1 .. n -> I]
  BY <1>3 DEF Arranges
<1>5. Entries(s, I) = [k \in 1 .. n |-> s[at[k]]]
  BY <1>4 DEF Entries
<1> HIDE DEF at, n
<1>6. \A k \in 1 .. n : s[at[k]] \in X
  BY <1>1, <1>4
<1>7. Entries(s, I) \in Seq(X) /\ Len(Entries(s, I)) = n
  BY <1>4, <1>5, <1>6
<1>8. /\ \A i \in I : \E k \in 1 .. n : at[k] = i
      /\ \A k, l \in 1 .. n : at[k] = at[l] => k = l
  BY <1>3 DEF Arranges, n
<1>9. DOMAIN Entries(s, I) = 1 .. n /\ \A k \in 1 .. n : Entries(s, I)[k] = s[at[k]]
  BY <1>5
<1>10. Selects(Entries(s, I), s, I, at)
  BY <1>3, <1>4, <1>8, <1>9 DEF Selects
<1> QED
  BY <1>2, <1>7, <1>10 DEF n


-----------------------------------------------------------------------------
(* The elements of a list of lists, one list after the other: each is at   *)
(* one place of the result, and the first list opens it.  The element at   *)
(* place j is the one at col[j] of the list row[j].                        *)
Flattens(f, ss, row, col) ==
  /\ \A j \in DOMAIN f :
       row[j] \in DOMAIN ss /\ col[j] \in DOMAIN ss[row[j]] /\ f[j] = ss[row[j]][col[j]]
  /\ \A i \in DOMAIN ss : \A k \in DOMAIN ss[i] : \E j \in DOMAIN f : row[j] = i /\ col[j] = k
  /\ \A i, j \in DOMAIN f : row[i] = row[j] /\ col[i] = col[j] => i = j
  /\ DOMAIN ss # {} => \A j \in DOMAIN ss[1] : j \in DOMAIN f /\ row[j] = 1 /\ col[j] = j

LEMMA MaxInterval ==
  ASSUME NEW n \in Nat, NEW k \in 1 .. n
  PROVE  1 .. k \in SUBSET (1 .. n) /\ 1 .. k # {} /\ Max(1 .. k) = k /\ (1 .. k) \ {k} = 1 .. k - 1
<1>1. 1 .. k \in SUBSET (1 .. n) /\ 1 .. k # {} /\ k \in 1 .. k
  OBVIOUS
<1>2. Max(1 .. k) \in 1 .. k /\ \A i \in 1 .. k : Max(1 .. k) >= i
  BY <1>1, Largest
<1>3. Max(1 .. k) = k
  BY <1>1, <1>2
<1> QED
  BY <1>1, <1>3

LEMMA FlattenOne ==
  ASSUME NEW X, NEW ss, NEW n \in Nat, DOMAIN ss = 1 .. n, NEW m \in 1 .. n,
         \A i \in 1 .. n : ss[i] \in Seq(X), NEW f \in Seq(X), NEW row, NEW col,
         Flattens(f, [i \in 1 .. m - 1 |-> ss[i]], row, col), m > 1
  PROVE  \E r, c : Flattens(f \o ss[m], [i \in 1 .. m |-> ss[i]], r, c)
<1> DEFINE s == ss[m]
           h == f \o s
           total == Len(f) + Len(s)
           old == [i \in 1 .. m - 1 |-> ss[i]]
           now == [i \in 1 .. m |-> ss[i]]
           r == [j \in 1 .. total |-> IF j <= Len(f) THEN row[j] ELSE m]
           c == [j \in 1 .. total |-> IF j <= Len(f) THEN col[j] ELSE j - Len(f)]
<1>1. /\ s \in Seq(X) /\ DOMAIN s = 1 .. Len(s) /\ Len(s) \in Nat
      /\ DOMAIN f = 1 .. Len(f) /\ Len(f) \in Nat
      /\ DOMAIN h = 1 .. total
      /\ \A j \in 1 .. Len(f) : h[j] = f[j]
      /\ \A j \in 1 .. total : ~(j <= Len(f)) => h[j] = s[j - Len(f)]
  OBVIOUS
<1>2. /\ DOMAIN old = 1 .. m - 1 /\ DOMAIN now = 1 .. m /\ now[m] = s
      /\ \A i \in 1 .. m - 1 : i \in 1 .. m /\ i # m /\ old[i] = ss[i] /\ now[i] = ss[i]
      /\ \A i \in 1 .. m : i # m => i \in 1 .. m - 1
      /\ 1 \in 1 .. m - 1
  OBVIOUS
<1> HIDE DEF old, now
<1>3. /\ \A j \in 1 .. Len(f) :
           row[j] \in 1 .. m - 1 /\ col[j] \in DOMAIN ss[row[j]] /\ f[j] = ss[row[j]][col[j]]
      /\ \A i \in 1 .. m - 1 : \A k \in DOMAIN ss[i] :
           \E j \in 1 .. Len(f) : row[j] = i /\ col[j] = k
      /\ \A i, j \in 1 .. Len(f) : row[i] = row[j] /\ col[i] = col[j] => i = j
      /\ \A j \in DOMAIN ss[1] : j \in 1 .. Len(f) /\ row[j] = 1 /\ col[j] = j
  <2>1. Flattens(f, old, row, col)
    BY DEF old
  <2>2. \A j \in DOMAIN f :
          row[j] \in 1 .. m - 1 /\ col[j] \in DOMAIN old[row[j]] /\ f[j] = old[row[j]][col[j]]
    BY <1>2, <2>1 DEF Flattens
  <2>3. \A i \in 1 .. m - 1 : \A k \in DOMAIN old[i] :
          \E j \in DOMAIN f : row[j] = i /\ col[j] = k
    BY <1>2, <2>1 DEF Flattens
  <2>4. \A i, j \in DOMAIN f : row[i] = row[j] /\ col[i] = col[j] => i = j
    BY <2>1 DEF Flattens
  <2>5. \A j \in DOMAIN old[1] : j \in DOMAIN f /\ row[j] = 1 /\ col[j] = j
    BY <1>2, <2>1 DEF Flattens
  <2>6. DOMAIN f = 1 .. Len(f)
    BY <1>1
  <2>7. \A i \in 1 .. m - 1 : old[i] = ss[i]
    BY <1>2
  <2>8. ASSUME NEW j \in 1 .. Len(f)
        PROVE  row[j] \in 1 .. m - 1 /\ col[j] \in DOMAIN ss[row[j]] /\ f[j] = ss[row[j]][col[j]]
    BY <2>2, <2>6, <2>7
  <2>9. ASSUME NEW i \in 1 .. m - 1, NEW k \in DOMAIN ss[i]
        PROVE  \E j \in 1 .. Len(f) : row[j] = i /\ col[j] = k
    <3>1. k \in DOMAIN old[i]
      BY <2>7
    <3>2. PICK j \in DOMAIN f : row[j] = i /\ col[j] = k
      BY <2>3, <3>1
    <3> QED
      BY <2>6, <3>2
  <2>10. \A j \in DOMAIN ss[1] : j \in 1 .. Len(f) /\ row[j] = 1 /\ col[j] = j
    BY <1>2, <2>5, <2>6, <2>7
  <2>11. \A i, j \in 1 .. Len(f) : row[i] = row[j] /\ col[i] = col[j] => i = j
    BY <2>4, <2>6
  <2> QED
    BY <2>8, <2>9, <2>10, <2>11, Zenon
<1>4. ASSUME NEW j \in 1 .. total
      PROVE  \/ j \in 1 .. Len(f) /\ r[j] = row[j] /\ c[j] = col[j]
             \/ j - Len(f) \in 1 .. Len(s) /\ ~(j <= Len(f)) /\ r[j] = m /\ c[j] = j - Len(f)
  BY <1>1
<1>5. ASSUME NEW k \in 1 .. Len(s)
      PROVE  /\ Len(f) + k \in 1 .. total /\ ~(Len(f) + k <= Len(f))
             /\ (Len(f) + k) - Len(f) = k
  BY <1>1
<1>6. ASSUME NEW k \in 1 .. Len(s) PROVE r[Len(f) + k] = m /\ c[Len(f) + k] = k
  BY <1>5
<1>7. ASSUME NEW j \in 1 .. Len(f) PROVE j \in 1 .. total /\ r[j] = row[j] /\ c[j] = col[j]
  BY <1>1
<1>8. \A j \in 1 .. total : ~(j \in 1 .. Len(f)) <=> ~(j <= Len(f))
  BY <1>1
<1> HIDE DEF r, c, s, h
<1>9. ASSUME NEW j \in 1 .. total
      PROVE  r[j] \in 1 .. m /\ c[j] \in DOMAIN now[r[j]] /\ h[j] = now[r[j]][c[j]]
  <2>1. CASE j \in 1 .. Len(f) /\ r[j] = row[j] /\ c[j] = col[j]
    <3>1. row[j] \in 1 .. m - 1 /\ col[j] \in DOMAIN ss[row[j]] /\ f[j] = ss[row[j]][col[j]]
      BY <1>3, <2>1
    <3>2. row[j] \in 1 .. m /\ now[row[j]] = ss[row[j]]
      BY <1>2, <3>1
    <3>3. h[j] = f[j]
      BY <1>1, <2>1
    <3> QED
      BY <2>1, <3>1, <3>2, <3>3, Zenon
  <2>2. CASE j - Len(f) \in 1 .. Len(s) /\ ~(j <= Len(f)) /\ r[j] = m /\ c[j] = j - Len(f)
    BY <1>1, <1>2, <2>2
  <2> QED
    BY <1>4, <2>1, <2>2
<1>10. ASSUME NEW i \in 1 .. m, NEW k \in DOMAIN now[i]
       PROVE  \E j \in 1 .. total : r[j] = i /\ c[j] = k
  <2>1. CASE i = m
    BY <1>1, <1>2, <1>5, <1>6, <2>1
  <2>2. CASE i # m
    <3>1. i \in 1 .. m - 1 /\ k \in DOMAIN ss[i]
      BY <1>2, <2>2
    <3>2. \A q \in DOMAIN ss[i] : \E j \in 1 .. Len(f) : row[j] = i /\ col[j] = q
      <4>1. \A p \in 1 .. m - 1 : \A q \in DOMAIN ss[p] : \E j \in 1 .. Len(f) : row[j] = p /\ col[j] = q
        BY <1>3
      <4> QED
        BY <3>1, <4>1, Zenon
    <3>3. PICK j \in 1 .. Len(f) : row[j] = i /\ col[j] = k
      BY <3>1, <3>2, Zenon
    <3> QED
      BY <1>7, <3>3
  <2> QED
    BY <2>1, <2>2
<1>11. ASSUME NEW i \in 1 .. total, NEW j \in 1 .. total, r[i] = r[j], c[i] = c[j]
       PROVE  i = j
  <2>1. \A x \in 1 .. Len(f) : row[x] # m
    BY <1>2, <1>3
  <2>2. CASE r[i] = m
    <3>1. c[i] = i - Len(f) /\ c[j] = j - Len(f)
      BY <1>4, <1>11, <2>1, <2>2
    <3>2. i \in Int /\ j \in Int /\ Len(f) \in Int
      BY <1>1
    <3>3. i - Len(f) = j - Len(f)
      BY <1>11, <3>1
    <3> QED
      BY <3>2, <3>3
  <2>3. CASE r[i] # m
    <3>1. i \in 1 .. Len(f) /\ j \in 1 .. Len(f) /\ row[i] = row[j] /\ col[i] = col[j]
      BY <1>4, <1>11, <2>3
    <3> QED
      BY <1>3, <3>1
  <2> QED
    BY <2>2, <2>3
<1>12. ASSUME NEW j \in DOMAIN now[1] PROVE j \in 1 .. total /\ r[j] = 1 /\ c[j] = j
  <2>1. j \in 1 .. Len(f) /\ row[j] = 1 /\ col[j] = j
    BY <1>2, <1>3
  <2> QED
    BY <1>7, <2>1
<1>13. Flattens(h, now, r, c)
  <2>1. DOMAIN h = 1 .. total /\ DOMAIN now = 1 .. m
    BY <1>1, <1>2
  <2> HIDE DEF total
  <2>2. \A j \in DOMAIN h :
          r[j] \in DOMAIN now /\ c[j] \in DOMAIN now[r[j]] /\ h[j] = now[r[j]][c[j]]
    BY <1>9, <2>1
  <2>3. \A i \in DOMAIN now : \A k \in DOMAIN now[i] : \E j \in DOMAIN h : r[j] = i /\ c[j] = k
    <3> TAKE i \in DOMAIN now
    <3> TAKE k \in DOMAIN now[i]
    <3>1. PICK j \in 1 .. total : r[j] = i /\ c[j] = k
      BY <1>10, <2>1
    <3> QED
      BY <2>1, <3>1
  <2>4. \A i, j \in DOMAIN h : r[i] = r[j] /\ c[i] = c[j] => i = j
    BY <1>11, <2>1, Zenon
  <2>5. \A j \in DOMAIN now[1] : j \in DOMAIN h /\ r[j] = 1 /\ c[j] = j
    BY <1>12, <2>1, Zenon
  <2> QED
    BY <2>2, <2>3, <2>4, <2>5, Zenon DEF Flattens
<1> QED
  BY <1>13 DEF s, h, now

LEMMA FlattenAt ==
  ASSUME NEW X, NEW ss \in Seq(Seq(X))
  PROVE  /\ FlattenSeq(ss) \in Seq(X)
         /\ \E row, col : Flattens(FlattenSeq(ss), ss, row, col)
<1> DEFINE n == Len(ss)
           V == Seq(X)
<1>1. n \in Nat /\ DOMAIN ss = 1 .. n /\ \A i \in 1 .. n : ss[i] \in V
  OBVIOUS
<1>2. CASE n = 0
  <2>1. ss = <<>> /\ FlattenSeq(ss) = <<>> /\ DOMAIN ss = {}
    BY <1>1, <1>2 DEF FlattenSeq
  <2>2. DOMAIN <<>> = {} /\ <<>> \in Seq(X)
    OBVIOUS
  <2>3. Flattens(FlattenSeq(ss), ss, <<>>, <<>>)
    BY <2>1, <2>2 DEF Flattens
  <2> QED
    BY <2>1, <2>2, <2>3, Zenon
<1>3. CASE n # 0
  <2> DEFINE Fold(g) == g = [i \in 1 .. n |-> IF i = 1 THEN ss[i] ELSE g[i - 1] \o ss[i]]
             R == [p \in (1 .. n - 1) \X V |-> p[2] \o ss[p[1] + 1]]
  <2>1. n - 1 \in Nat /\ ss[1] \in V /\ R \in [(1 .. n - 1) \X V -> V]
    <3>1. \A i \in 1 .. n - 1 : ss[i + 1] \in V
      BY <1>1
    <3> QED
      BY <1>1, <1>3, <3>1
  <2> HIDE DEF R
  <2>2. PICK m \in [0 .. n - 1 -> V] : StepChain(m, n - 1, ss[1], R)
    <3> HIDE DEF n, V
    <3> QED
      BY <2>1, ChainExists
  <2>3. PICK h : h = [i \in 1 .. n |-> m[i - 1]]
    OBVIOUS
  <2>4. Fold(h)
    <3>1. ASSUME NEW i \in 1 .. n
          PROVE  h[i] = IF i = 1 THEN ss[i] ELSE h[i - 1] \o ss[i]
      <4>1. i - 1 \in 0 .. n - 1 /\ h[i] = m[i - 1]
        BY <1>1, <2>3
      <4>2. m[i - 1] = IF i - 1 = 0 THEN ss[1] ELSE R[<<i - 1, m[(i - 1) - 1]>>]
        BY <2>2, <4>1 DEF StepChain
      <4>3. CASE i = 1
        BY <4>1, <4>2, <4>3
      <4>4. CASE i # 1
        <5>1. /\ i - 1 \in 1 .. n /\ i - 1 # 0 /\ i - 1 \in 1 .. n - 1
              /\ (i - 1) - 1 \in 0 .. n - 1 /\ (i - 1) + 1 = i
          BY <1>1, <4>4
        <5>2. h[i - 1] = m[(i - 1) - 1] /\ m[(i - 1) - 1] \in V
          BY <2>2, <2>3, <5>1
        <5>3. R[<<i - 1, m[(i - 1) - 1]>>] = m[(i - 1) - 1] \o ss[i]
          BY <5>1, <5>2 DEF R
        <5> QED
          BY <4>1, <4>2, <4>4, <5>1, <5>2, <5>3
      <4> QED
        BY <4>3, <4>4
    <3> QED
      BY <2>3, <3>1
  <2>5. PICK g : g = CHOOSE k : Fold(k)
    OBVIOUS
  <2>6. Fold(g)
    BY <2>4, <2>5
  <2>7. FlattenSeq(ss) = g[n]
    BY <1>1, <1>3, <2>5 DEF FlattenSeq
  <2> DEFINE Prefix(i) == [k \in 1 .. i |-> ss[k]]
             Good == {i \in 1 .. n : g[i] \in V /\ \E row, col : Flattens(g[i], Prefix(i), row, col)}
  <2>8. \A i \in 1 .. n : g[i] = IF i = 1 THEN ss[i] ELSE g[i - 1] \o ss[i]
    BY <2>6
  <2> HIDE DEF Fold
  <2>9. 1 \in Good
    <3>1. 1 \in 1 .. n /\ g[1] = ss[1] /\ ss[1] \in Seq(X)
      BY <1>1, <1>3, <2>8
    <3>2. PICK row, col : /\ row = [j \in DOMAIN ss[1] |-> 1]
                          /\ col = [j \in DOMAIN ss[1] |-> j]
      OBVIOUS
    <3>3. DOMAIN Prefix(1) = {1} /\ Prefix(1)[1] = ss[1]
      BY <3>1
    <3>4. Flattens(ss[1], Prefix(1), row, col)
      <4> HIDE DEF Prefix
      <4> QED
        BY <3>2, <3>3 DEF Flattens
    <3> QED
      BY <3>1, <3>4
  <2>10. ASSUME NEW i \in 2 .. n, i - 1 \in Good PROVE i \in Good
    <3>1. i \in 1 .. n /\ i > 1 /\ i # 1
      BY <1>1
    <3>2. g[i] = g[i - 1] \o ss[i]
      BY <2>8, <3>1
    <3>3. g[i - 1] \in Seq(X)
      BY <2>10
    <3>4. PICK row, col : Flattens(g[i - 1], Prefix(i - 1), row, col)
      BY <2>10
    <3>5. \E row2, col2 : Flattens(g[i - 1] \o ss[i], Prefix(i), row2, col2)
      <4> HIDE DEF n
      <4> QED
        BY <1>1, <3>1, <3>3, <3>4, FlattenOne
    <3>6. g[i] \in V
      BY <1>1, <3>1, <3>2, <3>3
    <3> QED
      BY <3>1, <3>2, <3>5, <3>6
  <2> HIDE DEF Good
  <2>11. n \in Good
    <3> DEFINE v == [i \in 0 .. n - 1 |-> i + 1]
    <3>1. v[0] \in Good
      BY <1>1, <1>3, <2>9
    <3>2. \A i \in 1 .. n - 1 : v[i - 1] \in Good => v[i] \in Good
      <4>1. ASSUME NEW i \in 1 .. n - 1, v[i - 1] \in Good PROVE v[i] \in Good
        <5>1. i + 1 \in 2 .. n /\ (i + 1) - 1 = i /\ v[i] = i + 1 /\ v[i - 1] = i
          BY <1>1
        <5> QED
          BY <2>10, <4>1, <5>1
      <4> QED
        BY <4>1
    <3> HIDE DEF v
    <3>3. v[n - 1] \in Good
      BY <2>1, <3>1, <3>2, ChainStays
    <3> QED
      BY <1>1, <1>3, <3>3 DEF v
  <2>12. g[n] \in V /\ \E row, col : Flattens(g[n], Prefix(n), row, col)
    BY <2>11 DEF Good
  <2>13. Prefix(n) = ss
    BY <1>1
  <2> QED
    BY <2>7, <2>12, <2>13
<1> QED
  BY <1>2, <1>3

(* The values of a function on a finite set are finitely many, and as many *)
(* as the arguments when no two arguments share one.                       *)
LEMMA FiniteImage ==
  ASSUME NEW S, IsFiniteSet(S), NEW f
  PROVE  /\ IsFiniteSet({f[x] : x \in S}) /\ Cardinality({f[x] : x \in S}) <= Cardinality(S)
         /\ (\A x, y \in S : f[x] = f[y] => x = y) => Cardinality({f[x] : x \in S}) = Cardinality(S)
<1> DEFINE T == {f[x] : x \in S}
           g == [x \in S |-> f[x]]
<1>1. g \in Surjection(S, T)
  BY DEF Surjection
<1>2. (\A x, y \in S : f[x] = f[y] => x = y) => g \in Injection(S, T)
  BY DEF Injection, IsInjective
<1> HIDE DEF g
<1>3. /\ IsFiniteSet(T) /\ Cardinality(T) <= Cardinality(S)
      /\ Cardinality(T) = Cardinality(S) <=> g \in Injection(S, T)
  <2> HIDE DEF T
  <2> QED
    BY <1>1, FS_Surjection
<1> QED
  BY <1>2, <1>3

(* What holds at 0, and at each number when it holds before, holds for all. *)
LEMMA Climbs ==
  ASSUME NEW n \in Nat, NEW G, 0 \in G, \A i \in 1 .. n : i - 1 \in G => i \in G
  PROVE  \A k \in 0 .. n : k \in G
<1> SUFFICES ASSUME NEW k \in 0 .. n PROVE k \in G
  OBVIOUS
<1>1. PICK g : g = [i \in 0 .. k |-> i]
  OBVIOUS
<1>2. k \in Nat /\ 0 \in 0 .. k /\ k \in 0 .. k
  OBVIOUS
<1>3. g[0] \in G
  BY <1>1, <1>2
<1>4. \A i \in 1 .. k : g[i - 1] \in G => g[i] \in G
  <2> SUFFICES ASSUME NEW i \in 1 .. k, g[i - 1] \in G PROVE g[i] \in G
    OBVIOUS
  <2>1. i \in 0 .. k /\ i - 1 \in 0 .. k /\ i \in 1 .. n
    OBVIOUS
  <2> QED
    BY <1>1, <2>1
<1>5. g[k] \in G
  BY <1>2, <1>3, <1>4, ChainStays
<1> QED
  BY <1>1, <1>2, <1>5

(* Of finitely many elements one is best by three numbers, one after the   *)
(* other.                                                                  *)
LEMMA Foremost ==
  ASSUME NEW S, IsFiniteSet(S), S # {}, NEW f, \A x \in S : f[x] \in Int
  PROVE  \E T \in SUBSET S : /\ IsFiniteSet(T) /\ T # {}
                             /\ \A x \in T, y \in S : f[x] >= f[y] /\ (y \notin T => f[x] > f[y])
<1> DEFINE I == {f[x] : x \in S}
           T == {x \in S : f[x] = Max(I)}
<1>1. IsFiniteSet(I)
  BY FiniteImage
<1>2. I \subseteq Int /\ I # {}
  OBVIOUS
<1>3. Max(I) \in I /\ \A v \in I : Max(I) >= v
  <2> HIDE DEF I
  <2> QED
    BY <1>1, <1>2, FiniteExtremes
<1>4. T \in SUBSET S /\ T # {}
  BY <1>3
<1>5. IsFiniteSet(T)
  <2> HIDE DEF T
  <2> QED
    BY <1>4, FS_Subset
<1>6. \A x \in T, y \in S : f[x] >= f[y] /\ (y \notin T => f[x] > f[y])
  <2> TAKE x \in T, y \in S
  <2>1. f[x] = Max(I) /\ f[y] \in I
    OBVIOUS
  <2>2. Max(I) >= f[y] /\ Max(I) \in Int /\ f[y] \in Int
    BY <1>2, <1>3, <2>1
  <2>3. y \notin T => f[y] # Max(I)
    OBVIOUS
  <2> HIDE DEF T, I
  <2> QED
    BY <2>1, <2>2, <2>3
<1> QED
  BY <1>4, <1>5, <1>6

LEMMA BestOf ==
  ASSUME NEW S, IsFiniteSet(S), S # {}, NEW a, NEW b, NEW c,
         \A x \in S : a[x] \in Int /\ b[x] \in Int /\ c[x] \in Int
  PROVE  \E x \in S : \A y \in S :
           \/ a[x] > a[y]
           \/ a[x] = a[y] /\ b[x] > b[y]
           \/ a[x] = a[y] /\ b[x] = b[y] /\ c[x] >= c[y]
<1>1. PICK T \in SUBSET S : /\ IsFiniteSet(T) /\ T # {}
                            /\ \A x \in T, y \in S : a[x] >= a[y] /\ (y \notin T => a[x] > a[y])
  BY Foremost
<1>2. PICK U \in SUBSET T : /\ IsFiniteSet(U) /\ U # {}
                            /\ \A x \in U, y \in T : b[x] >= b[y] /\ (y \notin U => b[x] > b[y])
  <2>1. \A x \in T : b[x] \in Int
    BY <1>1
  <2> QED
    BY <1>1, <2>1, Foremost
<1>3. PICK R \in SUBSET U : /\ IsFiniteSet(R) /\ R # {}
                            /\ \A x \in R, y \in U : c[x] >= c[y] /\ (y \notin R => c[x] > c[y])
  <2>1. \A x \in U : c[x] \in Int
    BY <1>1, <1>2
  <2> QED
    BY <1>2, <2>1, Foremost
<1>4. PICK x \in R : TRUE
  BY <1>3
<1>5. x \in S /\ x \in T /\ x \in U
  BY <1>1, <1>2, <1>3, <1>4
<1>6. ASSUME NEW y \in S
      PROVE  \/ a[x] > a[y]
             \/ a[x] = a[y] /\ b[x] > b[y]
             \/ a[x] = a[y] /\ b[x] = b[y] /\ c[x] >= c[y]
  <2>1. /\ a[x] \in Int /\ a[y] \in Int /\ b[x] \in Int /\ b[y] \in Int
        /\ a[x] >= a[y] /\ (y \notin T => a[x] > a[y])
    BY <1>1, <1>5
  <2>2. CASE y \notin T
    BY <2>1, <2>2
  <2>3. CASE y \in T /\ y \notin U
    <3>1. b[x] > b[y] /\ a[y] >= a[x]
      BY <1>1, <1>2, <1>5, <2>3
    <3> QED
      BY <2>1, <3>1
  <2>4. CASE y \in U
    <3>1. b[x] >= b[y] /\ b[y] >= b[x] /\ a[y] >= a[x] /\ c[x] >= c[y]
      BY <1>1, <1>2, <1>3, <1>4, <1>5, <2>4
    <3> QED
      BY <2>1, <3>1
  <2> QED
    BY <2>2, <2>3, <2>4
<1> QED
  BY <1>5, <1>6

LEMMA NotEmpty ==
  ASSUME NEW X, NEW s \in Seq(X), s # <<>>
  PROVE  Len(s) \in Nat \ {0} /\ 1 \in DOMAIN s /\ DOMAIN s # {}
<1>1. Len(s) \in Nat /\ DOMAIN s = 1 .. Len(s) /\ s = [i \in 1 .. Len(s) |-> s[i]]
  OBVIOUS
<1>2. Len(s) # 0
  OBVIOUS
<1>3. 1 \in 1 .. Len(s)
  BY <1>1, <1>2
<1> QED
  BY <1>1, <1>2, <1>3

LEMMA Joined ==
  ASSUME NEW X, NEW u \in Seq(X), NEW w \in Seq(X)
  PROVE  /\ u \o w \in Seq(X) /\ Len(u \o w) = Len(u) + Len(w)
         /\ DOMAIN (u \o w) = 1 .. Len(u \o w)
         /\ \A l \in 1 .. Len(u) : (u \o w)[l] = u[l]
         /\ \A l \in 1 .. Len(w) : (u \o w)[Len(u) + l] = w[l]
<1>1. Len(u) \in Nat /\ Len(w) \in Nat
  OBVIOUS
<1>2. u \o w \in Seq(X) /\ Len(u \o w) = Len(u) + Len(w)
  OBVIOUS
<1>3. DOMAIN (u \o w) = 1 .. Len(u \o w)
  BY <1>2
<1>4. \A l \in 1 .. Len(u) : (u \o w)[l] = u[l]
  BY <1>1
<1>5. ASSUME NEW l \in 1 .. Len(w) PROVE (u \o w)[Len(u) + l] = w[l]
  <2>1. Len(u) + l \in 1 .. Len(u) + Len(w) /\ ~(Len(u) + l <= Len(u)) /\ Len(u) + l - Len(u) = l
    BY <1>1
  <2> QED
    BY <2>1
<1> QED
  BY <1>2, <1>3, <1>4, <1>5

(* A list without one of its entries. *)
LEMMA WithoutOne ==
  ASSUME NEW X, NEW s \in Seq(X), NEW i \in DOMAIN s
  PROVE  /\ RemoveAt(s, i) \in Seq(X) /\ Len(RemoveAt(s, i)) = Len(s) - 1
         /\ \A k \in DOMAIN s \ {i} : \E l \in DOMAIN RemoveAt(s, i) : RemoveAt(s, i)[l] = s[k]
         /\ \A l \in DOMAIN RemoveAt(s, i) : \E k \in DOMAIN s \ {i} : RemoveAt(s, i)[l] = s[k]
<1> DEFINE t == RemoveAt(s, i)
<1>1. t = SubSeq(s, 1, i - 1) \o SubSeq(s, i + 1, Len(s))
  BY DEF RemoveAt
<1>2. Len(s) \in Nat /\ DOMAIN s = 1 .. Len(s) /\ i \in 1 .. Len(s)
  OBVIOUS
<1>3. /\ SubSeq(s, 1, i - 1) \in Seq(X) /\ Len(SubSeq(s, 1, i - 1)) = i - 1
      /\ \A l \in 1 .. i - 1 : SubSeq(s, 1, i - 1)[l] = s[l]
  BY <1>2
<1>4. /\ SubSeq(s, i + 1, Len(s)) \in Seq(X) /\ Len(SubSeq(s, i + 1, Len(s))) = Len(s) - i
      /\ \A l \in 1 .. Len(s) - i : SubSeq(s, i + 1, Len(s))[l] = s[l + i]
  BY <1>2
<1>5. /\ t \in Seq(X) /\ Len(t) = Len(s) - 1 /\ DOMAIN t = 1 .. Len(s) - 1
      /\ \A l \in 1 .. Len(s) - 1 : t[l] = IF l < i THEN s[l] ELSE s[l + 1]
  <2>1. PICK u \in Seq(X) : u = SubSeq(s, 1, i - 1)
    BY <1>3
  <2>2. PICK w \in Seq(X) : w = SubSeq(s, i + 1, Len(s))
    BY <1>4
  <2>3. /\ Len(u) = i - 1 /\ Len(w) = Len(s) - i
        /\ \A l \in 1 .. i - 1 : u[l] = s[l]
        /\ \A l \in 1 .. Len(s) - i : w[l] = s[l + i]
    BY <1>3, <1>4, <2>1, <2>2
  <2>4. t = u \o w
    BY <1>1, <2>1, <2>2
  <2> HIDE DEF t
  <2>5. /\ t \in Seq(X) /\ Len(t) = Len(u) + Len(w) /\ DOMAIN t = 1 .. Len(t)
        /\ \A l \in 1 .. Len(u) : t[l] = u[l]
        /\ \A l \in 1 .. Len(w) : t[Len(u) + l] = w[l]
    BY <2>4, Joined
  <2>6. Len(t) = Len(s) - 1
    BY <1>2, <2>3, <2>5
  <2>7. ASSUME NEW l \in 1 .. Len(s) - 1 PROVE t[l] = IF l < i THEN s[l] ELSE s[l + 1]
    <3>1. CASE l < i
      <4>1. l \in 1 .. i - 1 /\ l \in 1 .. Len(u)
        BY <1>2, <2>3, <3>1
      <4>2. t[l] = u[l] /\ u[l] = s[l]
        BY <2>3, <2>5, <4>1
      <4> QED
        BY <3>1, <4>2
    <3>2. CASE ~(l < i)
      <4>1. PICK m \in 1 .. Len(s) - i : m = l - i + 1
        BY <1>2, <3>2
      <4>2. i - 1 + m = l /\ m + i = l + 1
        BY <1>2, <4>1
      <4>3. t[i - 1 + m] = w[m] /\ w[m] = s[m + i]
        BY <1>2, <2>3, <2>5
      <4> QED
        BY <3>2, <4>2, <4>3
    <3> QED
      BY <3>1, <3>2
  <2> QED
    BY <2>5, <2>6, <2>7
<1> HIDE DEF t
<1>6. ASSUME NEW k \in DOMAIN s \ {i} PROVE \E l \in DOMAIN t : t[l] = s[k]
  <2>1. CASE k < i
    <3>1. k \in DOMAIN t /\ t[k] = s[k]
      BY <1>2, <1>5, <2>1
    <3> QED
      BY <3>1
  <2>2. CASE k > i
    <3>1. k - 1 \in DOMAIN t /\ t[k - 1] = s[k - 1 + 1] /\ k - 1 + 1 = k
      BY <1>2, <1>5, <2>2
    <3> QED
      BY <3>1
  <2> QED
    BY <1>2, <2>1, <2>2
<1>7. ASSUME NEW l \in DOMAIN t PROVE \E k \in DOMAIN s \ {i} : t[l] = s[k]
  <2>1. CASE l < i
    <3>1. l \in DOMAIN s \ {i} /\ t[l] = s[l]
      BY <1>2, <1>5, <2>1
    <3> QED
      BY <3>1
  <2>2. CASE ~(l < i)
    <3>1. l + 1 \in DOMAIN s \ {i} /\ t[l] = s[l + 1]
      BY <1>2, <1>5, <2>2
    <3> QED
      BY <3>1
  <2> QED
    BY <2>1, <2>2
<1> QED
  BY <1>5, <1>6, <1>7 DEF t

(* The places with the greatest number: the first of them, and the last.   *)
LEMMA BestPlaced ==
  ASSUME NEW S, IsFiniteSet(S), S # {}, S \subseteq Int, NEW f, \A x \in S : f[x] \in Int
  PROVE  /\ \E x \in S : \A y \in S : f[x] > f[y] \/ (f[x] = f[y] /\ x <= y)
         /\ \E x \in S : \A y \in S : f[x] > f[y] \/ (f[x] = f[y] /\ x >= y)
<1>1. PICK up : up = [x \in S |-> x]
  OBVIOUS
<1>2. PICK down : down = [x \in S |-> -x]
  OBVIOUS
<1>3. \A x \in S : f[x] \in Int /\ up[x] \in Int /\ down[x] \in Int
  BY <1>1, <1>2
<1>4. PICK x \in S : \A y \in S : \/ f[x] > f[y]
                                  \/ f[x] = f[y] /\ f[x] > f[y]
                                  \/ f[x] = f[y] /\ f[x] = f[y] /\ down[x] >= down[y]
  BY <1>3, BestOf
<1>5. PICK z \in S : \A y \in S : \/ f[z] > f[y]
                                  \/ f[z] = f[y] /\ f[z] > f[y]
                                  \/ f[z] = f[y] /\ f[z] = f[y] /\ up[z] >= up[y]
  BY <1>3, BestOf
<1>6. \A y \in S : f[x] > f[y] \/ (f[x] = f[y] /\ x <= y)
  <2> TAKE y \in S
  <2>1. x \in Int /\ y \in Int /\ down[x] = -x /\ down[y] = -y
    BY <1>2
  <2> QED
    BY <1>4, <2>1
<1>7. \A y \in S : f[z] > f[y] \/ (f[z] = f[y] /\ z >= y)
  BY <1>1, <1>5
<1> QED
  BY <1>6, <1>7

(* The greatest of some fractions, compared as the code compares them but  *)
(* without dividing.                                                       *)
LEMMA FractionsCompare ==
  ASSUME NEW a \in Nat, NEW b \in Nat \ {0}, NEW c \in Nat, NEW d \in Nat \ {0},
         NEW e \in Nat, NEW f \in Nat \ {0}, a * d > c * b, c * f >= e * d
  PROVE  a * f > e * b
<1>1. (a * d) * f > (c * b) * f
  <2>1. a * d \in Int /\ c * b \in Int
    OBVIOUS
  <2>2. \A u, w \in Int : u > w => u * f > w * f
    OBVIOUS
  <2> QED
    BY <2>1, <2>2
<1>2. (c * f) * b >= (e * d) * b
  <2>1. c * f \in Int /\ e * d \in Int
    OBVIOUS
  <2>2. \A u, w \in Int : u >= w => u * b >= w * b
    OBVIOUS
  <2> QED
    BY <2>1, <2>2
<1>3. (a * d) * f = (a * f) * d /\ (c * b) * f = (c * f) * b /\ (e * d) * b = (e * b) * d
  OBVIOUS
<1>4. (a * f) * d > (e * b) * d
  <2>1. (a * f) * d \in Int /\ (c * f) * b \in Int /\ (e * b) * d \in Int
    OBVIOUS
  <2> QED
    BY <1>1, <1>2, <1>3, <2>1
<1>5. a * f \in Int /\ e * b \in Int
  OBVIOUS
<1>6. \A u, w \in Int : u * d > w * d => u > w
  OBVIOUS
<1> QED
  BY <1>4, <1>5, <1>6

LEMMA FractionBest ==
  ASSUME NEW n \in Nat \ {0}, NEW a, NEW b, \A i \in 1 .. n : a[i] \in Nat /\ b[i] \in Nat \ {0}
  PROVE  \E i \in 1 .. n : \A j \in 1 .. n :
           a[i] * b[j] > a[j] * b[i] \/ (a[i] * b[j] = a[j] * b[i] /\ i <= j)
<1> DEFINE Before(i, j) == a[i] * b[j] > a[j] * b[i] \/ (a[i] * b[j] = a[j] * b[i] /\ i <= j)
           Best(i, m) == \A j \in 1 .. m : Before(i, j)
           G == {m \in 0 .. n : m = 0 \/ \E i \in 1 .. m : Best(i, m)}
<1>1. 0 \in G
  OBVIOUS
<1>2. ASSUME NEW m \in 1 .. n, m - 1 \in G PROVE m \in G
  <2>1. CASE m = 1
    <3>1. Before(1, 1) /\ 1 .. 1 = {1}
      OBVIOUS
    <3> HIDE DEF Before
    <3>2. Best(1, m) /\ 1 \in 1 .. m /\ m \in 0 .. n
      BY <2>1, <3>1
    <3> QED
      BY <3>2
  <2>2. CASE m > 1
    <3>1. PICK i \in 1 .. m - 1 : Best(i, m - 1)
      BY <1>2, <2>2
    <3>2. /\ i \in 1 .. n /\ i \in 1 .. m /\ i < m /\ m \in 1 .. n /\ m \in 0 .. n /\ m \in 1 .. m
          /\ \A j \in 1 .. m : j = m \/ j \in 1 .. m - 1
          /\ \A j \in 1 .. m : j \in 1 .. n
      OBVIOUS
    <3>3. a[i] \in Nat /\ b[i] \in Nat \ {0} /\ a[m] \in Nat /\ b[m] \in Nat \ {0}
      BY <3>2
    <3>4. a[m] * b[i] \in Int /\ a[i] * b[m] \in Int
      BY <3>3
    <3>5. CASE a[m] * b[i] > a[i] * b[m]
      <4>1. ASSUME NEW j \in 1 .. m PROVE Before(m, j)
        <5>1. CASE j = m
          BY <3>3, <5>1
        <5>2. CASE j \in 1 .. m - 1
          <6>1. a[j] \in Nat /\ b[j] \in Nat \ {0}
            BY <3>2
          <6>2. a[i] * b[j] >= a[j] * b[i]
            <7>1. Before(i, j) /\ a[i] * b[j] \in Int /\ a[j] * b[i] \in Int
              BY <3>1, <3>3, <5>2, <6>1
            <7> QED
              BY <7>1
          <6>3. a[m] * b[j] > a[j] * b[m]
            BY <3>3, <3>5, <6>1, <6>2, FractionsCompare
          <6> QED
            BY <6>3
        <5> QED
          BY <3>2, <5>1, <5>2
      <4> HIDE DEF Before
      <4> QED
        BY <3>2, <4>1
    <3>6. CASE ~(a[m] * b[i] > a[i] * b[m])
      <4>1. Before(i, m)
        BY <3>2, <3>4, <3>6
      <4> HIDE DEF Before
      <4> QED
        BY <3>1, <3>2, <4>1
    <3> QED
      BY <3>5, <3>6
  <2> QED
    BY <2>1, <2>2
<1> HIDE DEF G
<1>3. \A m \in 0 .. n : m \in G
  BY <1>1, <1>2, Climbs
<1>4. n \in G /\ n # 0
  BY <1>3
<1> QED
  BY <1>4 DEF G

(* Places by one number, or by two, and then as they come.                 *)
LEMMA OrderByOne ==
  ASSUME NEW S, S \subseteq Int, NEW f, \A x \in S : f[x] \in Int,
         NEW before, before = {x \in S \X S : \/ f[x[1]] > f[x[2]]
                                              \/ f[x[1]] = f[x[2]] /\ x[1] < x[2]}
  PROVE  Orders(before, S)
<1>1. ASSUME NEW x \in S, NEW y \in S
      PROVE  <<x, y>> \in before <=> f[x] > f[y] \/ (f[x] = f[y] /\ x < y)
  OBVIOUS
<1>2. \A x \in S : x \in Int /\ f[x] \in Int
  OBVIOUS
<1>3. \A x \in S : <<x, x>> \notin before
  BY <1>1, <1>2
<1>4. \A x, y \in S : x # y => <<x, y>> \in before \/ <<y, x>> \in before
  <2> TAKE x, y \in S
  <2>1. <<x, y>> \in before <=> f[x] > f[y] \/ (f[x] = f[y] /\ x < y)
    BY <1>1
  <2>2. <<y, x>> \in before <=> f[y] > f[x] \/ (f[y] = f[x] /\ y < x)
    BY <1>1
  <2> QED
    BY <1>2, <2>1, <2>2
<1>5. ASSUME NEW x \in S, NEW y \in S, NEW z \in S, <<x, y>> \in before, <<y, z>> \in before
      PROVE  <<x, z>> \in before
  <2>1. (f[x] > f[y] \/ (f[x] = f[y] /\ x < y)) /\ (f[y] > f[z] \/ (f[y] = f[z] /\ y < z))
    BY <1>1, <1>5
  <2>2. f[x] > f[z] \/ (f[x] = f[z] /\ x < z)
    BY <1>2, <2>1
  <2> QED
    BY <1>1, <2>2
<1> QED
  BY <1>3, <1>4, <1>5 DEF Orders

ByTwo(before, S, f, g) ==
  before = {x \in S \X S : \/ f[x[1]] > f[x[2]]
                           \/ f[x[1]] = f[x[2]] /\ g[x[1]] > g[x[2]]
                           \/ f[x[1]] = f[x[2]] /\ g[x[1]] = g[x[2]] /\ x[1] < x[2]}

LEMMA OrderByTwo ==
  ASSUME NEW S, S \subseteq Int, NEW f, NEW g, \A x \in S : f[x] \in Int /\ g[x] \in Int,
         NEW before, ByTwo(before, S, f, g)
  PROVE  Orders(before, S)
<1> DEFINE Before(x, y) == \/ f[x] > f[y]
                           \/ f[x] = f[y] /\ g[x] > g[y]
                           \/ f[x] = f[y] /\ g[x] = g[y] /\ x < y
<1>1. ASSUME NEW x \in S, NEW y \in S PROVE <<x, y>> \in before <=> Before(x, y)
  BY DEF ByTwo
<1>2. \A x \in S : x \in Int /\ f[x] \in Int /\ g[x] \in Int
  OBVIOUS
<1>3. \A x \in S : <<x, x>> \notin before
  BY <1>1, <1>2
<1>4. \A x, y \in S : x # y => <<x, y>> \in before \/ <<y, x>> \in before
  <2> TAKE x, y \in S
  <2>1. (<<x, y>> \in before <=> Before(x, y)) /\ (<<y, x>> \in before <=> Before(y, x))
    BY <1>1
  <2>2. x # y => Before(x, y) \/ Before(y, x)
    BY <1>2
  <2> QED
    BY <2>1, <2>2
<1>5. ASSUME NEW x \in S, NEW y \in S, NEW z \in S, <<x, y>> \in before, <<y, z>> \in before
      PROVE  <<x, z>> \in before
  <2>1. Before(x, y) /\ Before(y, z)
    BY <1>1, <1>5
  <2>2. Before(x, z)
    BY <1>2, <2>1
  <2> QED
    BY <1>1, <2>2
<1> QED
  BY <1>3, <1>4, <1>5 DEF Orders
=============================================================================
