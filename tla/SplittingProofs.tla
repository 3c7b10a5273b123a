--------------------------- MODULE SplittingProofs ---------------------------
(***************************************************************************)
(* What the recursive functions of Splitting compute, for every number of   *)
(* runs, every set of integers, every slack and runs of every length.       *)
(*                                                                          *)
(* Induction is carried out on sets of natural numbers (NatSetInduction),   *)
(* and a recursive function is shown to satisfy its definition by a         *)
(* fixpoint that a measure of the argument builds (MeasuredRecursion).  On  *)
(* these rest, from the bottom up: sums over packets, counting positions of *)
(* a sequence, std::sort, partitionPivot, quickselect, median_split,        *)
(* reduce_split (ReduceSplitCorrect, ReductionEnds, ReduceSplitReturns,     *)
(* SlackSuffices, SlackIsNeeded) and multiwaymerge (MultiwaymergeCorrect).  *)
(***************************************************************************)
EXTENDS Splitting, FiniteSetTheorems, SequenceTheorems, TLAPS

-----------------------------------------------------------------------------
(* Induction and recursion. *)

\* Induction over the natural numbers, on a set: what holds of 0 and is passed
\* on from k to k + 1 holds of every natural number.
LEMMA NatSetInduction ==
  ASSUME NEW S, 0 \in S, \A k \in Nat : k \in S => k + 1 \in S
  PROVE  Nat \subseteq S
<1> DEFINE T == Nat \ S
<1>1. SUFFICES ASSUME T # {} PROVE FALSE
  OBVIOUS
<1>2. PICK x \in T : \A y \in T : ~(<<y, x>> \in OpToRel(<, Nat))
  BY <1>1, NatLessThanWellFounded, WFMin
<1>3. x \in Nat /\ x # 0
  OBVIOUS
<1>4. x - 1 \in Nat
  BY <1>3
<1>5. <<x - 1, x>> \in OpToRel(<, Nat)
  <2>1. x - 1 < x
    BY <1>3
  <2> QED BY <2>1, <1>3, <1>4, Zenon DEF OpToRel
<1>6. x - 1 \notin T
  BY <1>2, <1>5, Zenon
<1>7. x - 1 \in S
  BY <1>4, <1>6
<1>8. (x - 1) + 1 \in S
  BY <1>4, <1>7
<1>9. (x - 1) + 1 = x
  BY <1>3
<1> QED BY <1>8, <1>9

\* Of some natural numbers one is the least.
LEMMA LeastNatural ==
  ASSUME NEW M \in SUBSET Nat, M # {}
  PROVE  \E n \in M : \A m \in M : n <= m
<1>1. PICK n \in M : \A m \in M : ~(<<m, n>> \in OpToRel(<, Nat))
  BY NatLessThanWellFounded, WFMin
<1>2. ASSUME NEW m \in M PROVE n <= m
  <2>1. SUFFICES ASSUME m < n PROVE FALSE
    OBVIOUS
  <2>2. m \in Nat /\ n \in Nat
    OBVIOUS
  <2>3. <<m, n>> \in OpToRel(<, Nat)
    BY <2>1, <2>2, Zenon DEF OpToRel
  <2> QED BY <2>3, <1>1, Zenon
<1> QED BY <1>1, <1>2

\* The functional G makes functions from D to V of such functions, and its value
\* at x depends only on the values at arguments of smaller measure.
Contracts(G, m, D, V) ==
  /\ m \in [D -> Nat]
  /\ G \in [[D -> V] -> [D -> V]]
  /\ \A f, g \in [D -> V], x \in D :
       (\A y \in D : m[y] < m[x] => f[y] = g[y]) => G[f][x] = G[g][x]

HasFixpoint(G, D, V) == \E f \in [D -> V] : f = G[f]

\* A recursive function exists.
LEMMA MeasuredRecursion ==
  ASSUME NEW D, NEW V, NEW m, NEW G, V # {}, Contracts(G, m, D, V)
  PROVE  HasFixpoint(G, D, V)
<1> USE DEF Contracts, HasFixpoint
<1> DEFINE Solves(f, k) == \A x \in D : m[x] < k => f[x] = G[f][x]
<1> DEFINE S == {k \in Nat : \E f \in [D -> V] : Solves(f, k)}
<1>1. 0 \in S
  <2>1. PICK v : v \in V
    OBVIOUS
  <2>2. [x \in D |-> v] \in [D -> V]
    BY <2>1
  <2>3. \A f \in [D -> V] : Solves(f, 0)
    OBVIOUS
  <2> QED BY <2>2, <2>3
<1>2. ASSUME NEW k \in Nat, k \in S PROVE k + 1 \in S
  <2>1. PICK f \in [D -> V] : Solves(f, k)
    BY <1>2
  <2>2. G[f] \in [D -> V]
    OBVIOUS
  <2>3. ASSUME NEW x \in D, m[x] < k + 1 PROVE G[f][x] = G[G[f]][x]
    <3>1. \A y \in D : m[y] < m[x] => m[y] < k
      BY <2>3
    <3>2. \A y \in D : m[y] < m[x] => f[y] = G[f][y]
      BY <3>1, <2>1
    <3> QED BY <3>2, <2>2
  <2> QED BY <2>2, <2>3
<1>3. Nat \subseteq S
  <2> HIDE DEF S
  <2> QED BY <1>1, <1>2, NatSetInduction
<1> DEFINE F == [k \in Nat |-> CHOOSE f \in [D -> V] : Solves(f, k)]
<1>4. \A k \in Nat : F[k] \in [D -> V] /\ Solves(F[k], k)
  BY <1>3
<1> HIDE DEF F
<1>5. ASSUME NEW k \in Nat, NEW l \in Nat, k <= l
      PROVE  \A x \in D : m[x] < k => F[k][x] = F[l][x]
  <2> DEFINE A == {j \in Nat : \A x \in D : m[x] < k /\ m[x] < j => F[k][x] = F[l][x]}
  <2>1. 0 \in A
    OBVIOUS
  <2>2. ASSUME NEW j \in Nat, j \in A PROVE j + 1 \in A
    <3>1. SUFFICES ASSUME NEW x \in D, m[x] < k, m[x] < j + 1 PROVE F[k][x] = F[l][x]
      OBVIOUS
    <3>2. \A y \in D : m[y] < m[x] => m[y] < k /\ m[y] < j
      BY <3>1
    <3>3. \A y \in D : m[y] < m[x] => F[k][y] = F[l][y]
      BY <3>2, <2>2
    <3>4. G[F[k]][x] = G[F[l]][x]
      BY <3>3, <1>4
    <3>5. m[x] < l
      BY <3>1, <1>5
    <3> QED BY <3>1, <3>4, <3>5, <1>4
  <2>3. Nat \subseteq A
    <3> HIDE DEF A
    <3> QED BY <2>1, <2>2, NatSetInduction
  <2> QED BY <2>3
<1> DEFINE h == [x \in D |-> F[m[x] + 1][x]]
<1>6. h \in [D -> V]
  BY <1>4
<1>7. ASSUME NEW x \in D PROVE h[x] = G[h][x]
  <2>1. m[x] + 1 \in Nat
    OBVIOUS
  <2>2. \A y \in D : m[y] < m[x] => h[y] = F[m[x] + 1][y]
    <3>1. SUFFICES ASSUME NEW y \in D, m[y] < m[x] PROVE F[m[y] + 1][y] = F[m[x] + 1][y]
      OBVIOUS
    <3>2. m[y] + 1 \in Nat /\ m[y] + 1 <= m[x] + 1 /\ m[y] < m[y] + 1
      BY <3>1
    <3> QED BY <3>2, <2>1, <1>5
  <2>3. G[h][x] = G[F[m[x] + 1]][x]
    BY <2>1, <2>2, <1>4, <1>6
  <2>4. F[m[x] + 1][x] = G[F[m[x] + 1]][x]
    BY <2>1, <1>4
  <2> QED BY <2>3, <2>4
<1>8. h = G[h]
  <2>1. G[h] \in [D -> V]
    BY <1>6
  <2> HIDE DEF h
  <2> QED BY <1>6, <1>7, <2>1
<1> QED BY <1>6, <1>8

-----------------------------------------------------------------------------
(* Sums of rows. *)

Differences == [Pakets -> Int]

\* The packets are 0, ..., num_of_pakets - 1, and there is one.
LEMMA PaketsType ==
  /\ num_of_pakets \in Nat /\ num_of_pakets >= 1
  /\ Pakets = 0 .. num_of_pakets - 1
  /\ \A j : j \in Pakets <=> j \in Nat /\ j < num_of_pakets
BY SplittingAssumption DEF Pakets

\* What Sums computes.
LEMMA SumsDef ==
  ASSUME NEW row \in Differences
  PROVE  /\ Sums(row) \in [0 .. num_of_pakets -> Int]
         /\ Sums(row)[0] = 0
         /\ \A l \in Pakets : Sums(row)[l + 1] = Sums(row)[l] + row[l]
<1> DEFINE D == 0 .. num_of_pakets
<1> DEFINE m == [l \in D |-> l]
<1> DEFINE G == [f \in [D -> Int] |-> [l \in D |-> IF l = 0 THEN 0 ELSE f[l - 1] + row[l - 1]]]
<1>0. \A l \in D : l # 0 => l - 1 \in D /\ l - 1 \in Pakets /\ row[l - 1] \in Int
  BY PaketsType DEF Differences
<1>1. m \in [D -> Nat]
  OBVIOUS
<1>2. G \in [[D -> Int] -> [D -> Int]]
  <2>1. ASSUME NEW f \in [D -> Int], NEW l \in D
        PROVE  (IF l = 0 THEN 0 ELSE f[l - 1] + row[l - 1]) \in Int
    BY <1>0
  <2> QED BY <2>1
<1>3. Int # {}
  OBVIOUS
<1>4. ASSUME NEW f \in [D -> Int], NEW g \in [D -> Int], NEW x \in D,
             \A y \in D : m[y] < m[x] => f[y] = g[y]
      PROVE  G[f][x] = G[g][x]
  <2>1. CASE x = 0
    BY <2>1
  <2>2. CASE x # 0
    <3>1. x - 1 \in D /\ m[x - 1] < m[x]
      BY <1>0, <2>2
    <3> QED BY <2>2, <3>1, <1>4
  <2> QED BY <2>1, <2>2
<1>5. \E f \in [D -> Int] : f = G[f]
  <2>1. Contracts(G, m, D, Int)
    <3> HIDE DEF D, m, G
    <3> QED BY <1>1, <1>2, <1>4 DEF Contracts
  <2>2. HasFixpoint(G, D, Int)
    <3> HIDE DEF D, m, G
    <3> QED BY <2>1, <1>3, MeasuredRecursion
  <2> QED BY <2>2 DEF HasFixpoint
<1>6. PICK f \in [D -> Int] : f = [l \in D |-> IF l = 0 THEN 0 ELSE f[l - 1] + row[l - 1]]
  BY <1>5
<1>7. Sums(row) = [l \in D |-> IF l = 0 THEN 0 ELSE Sums(row)[l - 1] + row[l - 1]]
  BY <1>6 DEF Sums
<1>8. \A l \in Pakets : Sums(row)[l + 1] = Sums(row)[l] + row[l]
  <2>1. SUFFICES ASSUME NEW l \in Pakets PROVE Sums(row)[l + 1] = Sums(row)[l] + row[l]
    OBVIOUS
  <2>2. l \in Nat /\ l + 1 \in D /\ l + 1 # 0 /\ (l + 1) - 1 = l
    BY PaketsType
  <2> QED BY <1>7, <2>2
<1>9. Sums(row)[0] = 0
  BY <1>7, PaketsType
<1>10. ASSUME NEW l \in D PROVE Sums(row)[l] \in Int
  <2> DEFINE A == {k \in Nat : k \in D => Sums(row)[k] \in Int}
  <2>1. 0 \in A
    BY <1>9
  <2>2. ASSUME NEW k \in Nat, k \in A PROVE k + 1 \in A
    <3>1. SUFFICES ASSUME k + 1 \in D PROVE Sums(row)[k + 1] \in Int
      OBVIOUS
    <3>2. k \in Pakets /\ k \in D
      BY <3>1, PaketsType
    <3>3. row[k] \in Int
      BY <3>2 DEF Differences
    <3> QED BY <3>2, <3>3, <2>2, <1>8
  <2>3. Nat \subseteq A
    <3> HIDE DEF A
    <3> QED BY <2>1, <2>2, NatSetInduction
  <2> QED BY <2>3
<1> QED
  <2>1. DOMAIN Sums(row) = D
    BY <1>7, Zenon
  <2>2. Sums(row) \in [D -> Int]
    BY <1>7, <1>10
  <2> QED BY <2>2, <1>8, <1>9

\* The induction that goes with it.
LEMMA PaketsInduction ==
  ASSUME NEW S, 0 \in S, \A l \in Pakets : l \in S => l + 1 \in S
  PROVE  0 .. num_of_pakets \subseteq S
<1> DEFINE A == {k \in Nat : k <= num_of_pakets => k \in S}
<1>1. 0 \in A
  OBVIOUS
<1>2. ASSUME NEW k \in Nat, k \in A PROVE k + 1 \in A
  <2>1. SUFFICES ASSUME k + 1 <= num_of_pakets PROVE k + 1 \in S
    OBVIOUS
  <2>2. k \in Pakets /\ k <= num_of_pakets
    BY <2>1, PaketsType
  <2> QED BY <2>2, <1>2
<1>3. Nat \subseteq A
  <2> HIDE DEF A
  <2> QED BY <1>1, <1>2, NatSetInduction
<1> QED BY <1>3, PaketsType

\* Sums of numbers that are not negative do not decrease.
LEMMA SumsMonotone ==
  ASSUME NEW row \in Row
  PROVE  /\ \A l \in 0 .. num_of_pakets : Sums(row)[l] \in Nat
         /\ \A k, l \in 0 .. num_of_pakets : k <= l => Sums(row)[k] <= Sums(row)[l]
<1>1. row \in Differences /\ \A j \in Pakets : row[j] \in Nat
  BY DEF Row, Differences
<1>2. \A l \in Pakets : Sums(row)[l + 1] = Sums(row)[l] + row[l]
  BY <1>1, SumsDef
<1>3. Sums(row)[0] = 0 /\ \A l \in 0 .. num_of_pakets : Sums(row)[l] \in Int
  BY <1>1, SumsDef
<1> DEFINE A == {l \in 0 .. num_of_pakets :
                   \A k \in 0 .. num_of_pakets : k <= l => Sums(row)[k] <= Sums(row)[l]}
<1>4. 0 \in A
  BY <1>3, PaketsType
<1>5. ASSUME NEW l \in Pakets, l \in A PROVE l + 1 \in A
  <2>1. l + 1 \in 0 .. num_of_pakets /\ l \in 0 .. num_of_pakets
    BY PaketsType
  <2>2. ASSUME NEW k \in 0 .. num_of_pakets, k <= l + 1 PROVE Sums(row)[k] <= Sums(row)[l + 1]
    <3>1. Sums(row)[l] <= Sums(row)[l + 1]
      BY <1>1, <1>2, <1>3, <2>1
    <3>2. CASE k <= l
      BY <3>1, <3>2, <1>3, <1>5, <2>1
    <3>3. CASE k = l + 1
      BY <3>3, <1>3, <2>1
    <3> QED BY <3>2, <3>3, <2>1, <2>2
  <2> QED BY <2>1, <2>2
<1>6. 0 .. num_of_pakets \subseteq A
  <2> HIDE DEF A
  <2> QED BY <1>4, <1>5, PaketsInduction
<1>7. \A l \in 0 .. num_of_pakets : Sums(row)[0] <= Sums(row)[l]
  BY <1>6, PaketsType
<1> QED BY <1>3, <1>6, <1>7

\* Sums are additive.
LEMMA SumsAdd ==
  ASSUME NEW r \in Differences, NEW s \in Differences, NEW t \in Differences,
         \A j \in Pakets : t[j] = r[j] + s[j]
  PROVE  \A l \in 0 .. num_of_pakets : Sums(t)[l] = Sums(r)[l] + Sums(s)[l]
<1>1. \A l \in Pakets : /\ Sums(r)[l + 1] = Sums(r)[l] + r[l]
                        /\ Sums(s)[l + 1] = Sums(s)[l] + s[l]
                        /\ Sums(t)[l + 1] = Sums(t)[l] + t[l]
  BY SumsDef
<1>2. \A l \in 0 .. num_of_pakets : Sums(r)[l] \in Int /\ Sums(s)[l] \in Int /\ Sums(t)[l] \in Int
  BY SumsDef
<1>3. \A j \in Pakets : r[j] \in Int /\ s[j] \in Int
  BY DEF Differences
<1> DEFINE A == {l \in 0 .. num_of_pakets : Sums(t)[l] = Sums(r)[l] + Sums(s)[l]}
<1>4. 0 \in A
  BY SumsDef, PaketsType
<1>5. ASSUME NEW l \in Pakets, l \in A PROVE l + 1 \in A
  <2>1. l + 1 \in 0 .. num_of_pakets /\ l \in 0 .. num_of_pakets
    BY PaketsType
  <2> QED BY <2>1, <1>1, <1>2, <1>3, <1>5
<1>6. 0 .. num_of_pakets \subseteq A
  <2> HIDE DEF A
  <2> QED BY <1>4, <1>5, PaketsInduction
<1> QED BY <1>6

\* Sums compare where the rows do.
LEMMA SumsLeq ==
  ASSUME NEW r \in Differences, NEW s \in Differences, \A j \in Pakets : r[j] <= s[j]
  PROVE  \A l \in 0 .. num_of_pakets : Sums(r)[l] <= Sums(s)[l]
<1> DEFINE d == [j \in Pakets |-> s[j] - r[j]]
<1>1. d \in Row /\ d \in Differences
  BY DEF Row, Differences
<1>2. \A j \in Pakets : s[j] = r[j] + d[j]
  BY DEF Differences
<1>3. \A l \in 0 .. num_of_pakets : Sums(s)[l] = Sums(r)[l] + Sums(d)[l]
  <2> HIDE DEF d
  <2> QED BY <1>1, <1>2, SumsAdd
<1>4. \A l \in 0 .. num_of_pakets : Sums(d)[l] \in Nat
  <2> HIDE DEF d
  <2> QED BY <1>1, SumsMonotone
<1>5. \A l \in 0 .. num_of_pakets : Sums(r)[l] \in Int
  BY SumsDef
<1> HIDE DEF d
<1> QED BY <1>3, <1>4, <1>5

\* A row of nothing adds up to nothing.
LEMMA SumsZero ==
  ASSUME NEW r \in Differences, \A j \in Pakets : r[j] = 0
  PROVE  \A l \in 0 .. num_of_pakets : Sums(r)[l] = 0
<1>1. \A j \in Pakets : r[j] = r[j] + r[j]
  OBVIOUS
<1>2. \A l \in 0 .. num_of_pakets : Sums(r)[l] = Sums(r)[l] + Sums(r)[l]
  BY <1>1, SumsAdd
<1>3. \A l \in 0 .. num_of_pakets : Sums(r)[l] \in Int
  BY SumsDef
<1> QED BY <1>2, <1>3

\* One more in one place is one more in all.
LEMMA TotalIncrement ==
  ASSUME NEW r \in Differences, NEW k \in Pakets
  PROVE  /\ [r EXCEPT ![k] = @ + 1] \in Differences
         /\ Total([r EXCEPT ![k] = @ + 1]) = Total(r) + 1
<1> DEFINE t == [r EXCEPT ![k] = @ + 1]
<1>1. t \in Differences /\ \A j \in Pakets : t[j] = IF j = k THEN r[j] + 1 ELSE r[j]
  BY DEF Differences
<1> HIDE DEF t
<1>2. \A l \in Pakets : /\ Sums(r)[l + 1] = Sums(r)[l] + r[l]
                        /\ Sums(t)[l + 1] = Sums(t)[l] + t[l]
  BY <1>1, SumsDef
<1>3. \A l \in 0 .. num_of_pakets : Sums(r)[l] \in Int /\ Sums(t)[l] \in Int
  BY <1>1, SumsDef
<1>4. \A j \in Pakets : r[j] \in Int
  BY DEF Differences
<1> DEFINE A == {l \in 0 .. num_of_pakets : Sums(t)[l] = Sums(r)[l] + IF k < l THEN 1 ELSE 0}
<1>5. 0 \in A
  BY <1>1, SumsDef, PaketsType
<1>6. ASSUME NEW l \in Pakets, l \in A PROVE l + 1 \in A
  <2>1. l + 1 \in 0 .. num_of_pakets /\ l \in 0 .. num_of_pakets /\ l \in Int /\ k \in Int
    BY PaketsType
  <2>2. CASE l < k
    BY <2>1, <2>2, <1>1, <1>2, <1>3, <1>4, <1>6
  <2>3. CASE l = k
    BY <2>1, <2>3, <1>1, <1>2, <1>3, <1>4, <1>6
  <2>4. CASE l > k
    BY <2>1, <2>4, <1>1, <1>2, <1>3, <1>4, <1>6
  <2> QED BY <2>1, <2>2, <2>3, <2>4
<1>7. 0 .. num_of_pakets \subseteq A
  <2> HIDE DEF A
  <2> QED BY <1>5, <1>6, PaketsInduction
<1>8. Total(t) = Total(r) + 1
  BY <1>7, PaketsType DEF Total
<1> QED BY <1>1, <1>8 DEF t

\* Where the i-th of all lies: after those of the rows before it.
LEMMA SumsLocate ==
  ASSUME NEW row \in Row, NEW i \in 1 .. Total(row)
  PROVE  /\ \E j \in Pakets : Sums(row)[j] < i /\ i <= Sums(row)[j + 1]
         /\ \A j, k \in Pakets : /\ Sums(row)[j] < i /\ i <= Sums(row)[j + 1]
                                 /\ Sums(row)[k] < i /\ i <= Sums(row)[k + 1]
                                 => j = k
<1>1. row \in Differences
  BY DEF Row, Differences
<1>2. Sums(row)[0] = 0 /\ \A l \in 0 .. num_of_pakets : Sums(row)[l] \in Nat
  BY <1>1, SumsDef, SumsMonotone
<1>3. \E j \in Pakets : Sums(row)[j] < i /\ i <= Sums(row)[j + 1]
  <2> SUFFICES ASSUME \A j \in Pakets : ~(Sums(row)[j] < i /\ i <= Sums(row)[j + 1]) PROVE FALSE
    OBVIOUS
  <2> DEFINE A == {l \in 0 .. num_of_pakets : Sums(row)[l] < i}
  <2>1. 0 \in A
    BY <1>2, PaketsType
  <2>2. ASSUME NEW l \in Pakets, l \in A PROVE l + 1 \in A
    <3>1. l + 1 \in 0 .. num_of_pakets
      BY PaketsType
    <3> QED BY <3>1, <1>2, <2>2
  <2>3. 0 .. num_of_pakets \subseteq A
    <3> HIDE DEF A
    <3> QED BY <2>1, <2>2, PaketsInduction
  <2> QED BY <2>3, <1>2, PaketsType DEF Total
<1>4. ASSUME NEW j \in Pakets, NEW k \in Pakets, Sums(row)[j] < i, i <= Sums(row)[j + 1],
             Sums(row)[k] < i, i <= Sums(row)[k + 1]
      PROVE  j = k
  <2>1. /\ j \in 0 .. num_of_pakets /\ j + 1 \in 0 .. num_of_pakets
        /\ k \in 0 .. num_of_pakets /\ k + 1 \in 0 .. num_of_pakets
    BY PaketsType
  <2>2. j + 1 <= k => Sums(row)[j + 1] <= Sums(row)[k]
    BY <2>1, SumsMonotone
  <2>3. k + 1 <= j => Sums(row)[k + 1] <= Sums(row)[j]
    BY <2>1, SumsMonotone
  <2> QED BY <2>1, <2>2, <2>3, <1>2, <1>4
<1> QED BY <1>3, <1>4

-----------------------------------------------------------------------------
(* Counting positions. *)

\* A set of positions is finite and has at most as many members as there are
\* positions; larger sets count more.
LEMMA CountPositions ==
  ASSUME NEW k \in Nat, NEW S \in SUBSET (1 .. k)
  PROVE  /\ IsFiniteSet(S)
         /\ Cardinality(S) \in Nat
         /\ Cardinality(S) <= k
         /\ S # {} => Cardinality(S) >= 1
         /\ S = {} => Cardinality(S) = 0
         /\ S = 1 .. k => Cardinality(S) = k
         /\ Cardinality(S) = k => S = 1 .. k
<1>1. IsFiniteSet(1 .. k) /\ Cardinality(1 .. k) = k
  BY FS_Interval
<1>2. IsFiniteSet(S) /\ Cardinality(S) <= k /\ (Cardinality(S) = k => S = 1 .. k)
  BY <1>1, FS_Subset
<1>3. Cardinality(S) \in Nat
  BY <1>2, FS_CardinalityType
<1>4. Cardinality(S) = 0 <=> S = {}
  BY <1>2, FS_EmptySet
<1>5. S # {} => Cardinality(S) >= 1
  <2>1. S # {} => Cardinality(S) # 0
    BY <1>4, Zenon
  <2>2. Cardinality(S) # 0 => Cardinality(S) >= 1
    BY <1>3
  <2> QED BY <2>1, <2>2, Zenon
<1>6. S = 1 .. k => Cardinality(S) = k
  BY <1>1
<1> QED BY <1>2, <1>3, <1>4, <1>5, <1>6

\* A subset of a set of positions has no more elements, a proper one fewer.
LEMMA CountMonotone ==
  ASSUME NEW k \in Nat, NEW S \in SUBSET (1 .. k), NEW T \in SUBSET S
  PROVE  /\ Cardinality(T) \in Nat /\ Cardinality(S) \in Nat
         /\ Cardinality(T) <= Cardinality(S)
         /\ T # S => Cardinality(T) < Cardinality(S)
<1>1. IsFiniteSet(S) /\ Cardinality(S) \in Nat
  BY CountPositions
<1>2. T \in SUBSET (1 .. k)
  OBVIOUS
<1>3. Cardinality(T) \in Nat
  BY <1>2, CountPositions
<1>4. Cardinality(T) <= Cardinality(S) /\ (Cardinality(S) = Cardinality(T) => S = T)
  BY <1>1, FS_Subset
<1> QED BY <1>1, <1>3, <1>4

\* Among finitely many positions there is one with the least value.
LEMMA LeastPosition ==
  ASSUME NEW k \in Nat, NEW S \in SUBSET (1 .. k), S # {},
         NEW s, \A x \in S : s[x] \in Int
  PROVE  \E x \in S : \A y \in S : s[x] <= s[y]
<1> DEFINE A == {l \in Nat : \A T \in SUBSET S : T # {} /\ T \subseteq 1 .. l
                               => \E x \in T : \A y \in T : s[x] <= s[y]}
<1>1. 0 \in A
  <2>1. \A T : T \subseteq 1 .. 0 => T = {}
    OBVIOUS
  <2> QED BY <2>1
<1>2. ASSUME NEW l \in Nat, l \in A PROVE l + 1 \in A
  <2>1. SUFFICES ASSUME NEW T \in SUBSET S, T # {}, T \subseteq 1 .. l + 1
                 PROVE  \E x \in T : \A y \in T : s[x] <= s[y]
    OBVIOUS
  <2>2. CASE l + 1 \notin T
    <3>1. T \subseteq 1 .. l
      BY <2>1, <2>2
    <3> QED BY <3>1, <1>2, <2>1
  <2>3. CASE T = {l + 1}
    BY <2>3
  <2>4. CASE l + 1 \in T /\ T # {l + 1}
    <3> DEFINE U == T \ {l + 1}
    <3>1. U \in SUBSET S /\ U # {} /\ U \subseteq 1 .. l
      BY <2>1, <2>4
    <3>2. PICK x \in U : \A y \in U : s[x] <= s[y]
      BY <3>1, <1>2
    <3>3. s[x] \in Int /\ s[l + 1] \in Int /\ \A y \in U : s[y] \in Int
      BY <2>4, <3>1, <3>2
    <3>4. CASE s[x] <= s[l + 1]
      BY <3>2, <3>4
    <3>5. CASE s[l + 1] < s[x]
      <4>1. \A y \in U : s[l + 1] <= s[y]
        BY <3>2, <3>3, <3>5
      <4> QED BY <4>1, <2>4, <3>3
    <3> QED BY <3>3, <3>4, <3>5
  <2> QED BY <2>2, <2>3, <2>4
<1>3. Nat \subseteq A
  <2> HIDE DEF A
  <2> QED BY <1>1, <1>2, NatSetInduction
<1> QED BY <1>3

\* ... and one with a greatest value.
LEMMA GreatestPosition ==
  ASSUME NEW k \in Nat, NEW S \in SUBSET (1 .. k), S # {},
         NEW s, \A x \in S : s[x] \in Int
  PROVE  \E x \in S : \A y \in S : s[y] <= s[x]
<1> DEFINE r == [x \in S |-> 0 - s[x]]
<1>1. \A x \in S : r[x] \in Int /\ r[x] = 0 - s[x]
  OBVIOUS
<1>2. \E x \in S : \A y \in S : r[x] <= r[y]
  <2> HIDE DEF r
  <2> QED BY <1>1, LeastPosition
<1> HIDE DEF r
<1> QED BY <1>1, <1>2

-----------------------------------------------------------------------------
(* Sorting. *)

Leq(s, v) == {x \in 1 .. Len(s) : s[x] <= v}
Less(s, v) == {x \in 1 .. Len(s) : s[x] < v}

\* The counts of small elements are natural and grow with the bound.
LEMMA LeqLess ==
  ASSUME NEW s \in Seq(Int), NEW v \in Int, NEW w \in Int
  PROVE  /\ Cardinality(Leq(s, v)) \in Nat /\ Cardinality(Leq(s, v)) <= Len(s)
         /\ Cardinality(Less(s, v)) \in Nat /\ Cardinality(Less(s, v)) <= Len(s)
         /\ Cardinality(Less(s, v)) <= Cardinality(Leq(s, v))
         /\ v < w => Cardinality(Leq(s, v)) <= Cardinality(Less(s, w))
         /\ v <= w => Cardinality(Leq(s, v)) <= Cardinality(Leq(s, w))
<1>1. Len(s) \in Nat /\ \A x \in 1 .. Len(s) : s[x] \in Int
  OBVIOUS
<1>2. Leq(s, v) \in SUBSET (1 .. Len(s)) /\ Less(s, v) \in SUBSET (1 .. Len(s))
  BY DEF Leq, Less
<1>3. Leq(s, w) \in SUBSET (1 .. Len(s)) /\ Less(s, w) \in SUBSET (1 .. Len(s))
  BY DEF Leq, Less
<1>4. Less(s, v) \in SUBSET Leq(s, v)
  BY <1>1 DEF Leq, Less
<1>5. v < w => Leq(s, v) \in SUBSET Less(s, w)
  BY <1>1 DEF Leq, Less
<1>6. v <= w => Leq(s, v) \in SUBSET Leq(s, w)
  BY <1>1 DEF Leq
<1>7. Cardinality(Leq(s, v)) \in Nat /\ Cardinality(Leq(s, v)) <= Len(s)
  BY <1>1, <1>2, CountPositions
<1>8. Cardinality(Less(s, v)) \in Nat /\ Cardinality(Less(s, v)) <= Len(s)
  BY <1>1, <1>2, CountPositions
<1>9. Cardinality(Less(s, v)) <= Cardinality(Leq(s, v))
  BY <1>1, <1>2, <1>4, CountMonotone
<1>10. v < w => Cardinality(Leq(s, v)) <= Cardinality(Less(s, w))
  BY <1>1, <1>3, <1>5, CountMonotone
<1>11. v <= w => Cardinality(Leq(s, v)) <= Cardinality(Leq(s, w))
  BY <1>1, <1>3, <1>6, CountMonotone
<1> QED BY <1>7, <1>8, <1>9, <1>10, <1>11

LEMMA IntSequence ==
  ASSUME NEW V \in SUBSET Int, NEW s \in Seq(V)
  PROVE  s \in Seq(Int) /\ Len(s) \in Nat /\ \A x \in 1 .. Len(s) : s[x] \in V
<1>1. Len(s) \in Nat /\ s \in [1 .. Len(s) -> V]
  BY LenProperties
<1>2. s \in [1 .. Len(s) -> Int]
  BY <1>1
<1> QED BY <1>1, <1>2

\* There is a value of every rank.
LEMMA RankExists ==
  ASSUME NEW s \in Seq(Int), NEW k \in 1 .. Len(s)
  PROVE  \E x \in 1 .. Len(s) : Cardinality(Less(s, s[x])) < k /\ k <= Cardinality(Leq(s, s[x]))
<1>1. Len(s) \in Nat /\ 1 .. Len(s) # {} /\ \A x \in 1 .. Len(s) : s[x] \in Int
  OBVIOUS
<1>2. \A x \in 1 .. Len(s) : /\ Cardinality(Less(s, s[x])) \in Nat
                             /\ Cardinality(Leq(s, s[x])) \in Nat
  BY <1>1, LeqLess
<1> DEFINE A == {x \in 1 .. Len(s) : k <= Cardinality(Leq(s, s[x]))}
<1>3. A # {}
  <2>1. PICK x \in 1 .. Len(s) : \A y \in 1 .. Len(s) : s[y] <= s[x]
    BY <1>1, GreatestPosition
  <2>2. Leq(s, s[x]) = 1 .. Len(s)
    BY <2>1 DEF Leq
  <2>3. Cardinality(Leq(s, s[x])) = Len(s)
    BY <1>1, <2>2, CountPositions
  <2> QED BY <2>3
<1>4. PICK x \in A : \A y \in A : s[x] <= s[y]
  BY <1>1, <1>3, LeastPosition
<1>5. Cardinality(Less(s, s[x])) < k
  <2>1. SUFFICES ASSUME Cardinality(Less(s, s[x])) >= k PROVE FALSE
    BY <1>2
  <2>2. Less(s, s[x]) \in SUBSET (1 .. Len(s)) /\ Less(s, s[x]) # {}
    <3>1. Less(s, s[x]) \in SUBSET (1 .. Len(s))
      BY DEF Less
    <3>2. Cardinality(Less(s, s[x])) # 0
      BY <1>2, <2>1
    <3> QED BY <1>1, <3>1, <3>2, CountPositions
  <2>3. PICK y \in Less(s, s[x]) : \A z \in Less(s, s[x]) : s[z] <= s[y]
    BY <1>1, <2>2, GreatestPosition
  <2>4. s[y] \in Int /\ s[y] < s[x] /\ y \in 1 .. Len(s)
    BY <1>1, <2>3 DEF Less
  <2>5. Less(s, s[x]) \subseteq Leq(s, s[y])
    BY <2>2, <2>3 DEF Leq
  <2>6. Leq(s, s[y]) \subseteq Less(s, s[x])
    BY <1>1, <2>4, SMTT(30) DEF Leq, Less
  <2>7. y \in A
    <3>1. Less(s, s[x]) = Leq(s, s[y])
      BY <2>5, <2>6
    <3>2. Cardinality(Less(s, s[x])) = Cardinality(Leq(s, s[y]))
      BY <3>1
    <3> QED BY <2>1, <2>4, <3>2
  <2> QED BY <2>4, <2>7, <1>1, <1>4
<1> QED BY <1>4, <1>5

\* What Sort computes: a sequence of the same length over the same values, with
\* every value at its rank.
LEMMA SortDef ==
  ASSUME NEW V \in SUBSET Int, NEW s \in Seq(V)
  PROVE  /\ Sort(s) \in Seq(V)
         /\ Len(Sort(s)) = Len(s)
         /\ \A k \in 1 .. Len(s) : /\ Sort(s)[k] \in Int
                                   /\ Cardinality(Less(s, Sort(s)[k])) < k
                                   /\ k <= Cardinality(Leq(s, Sort(s)[k]))
<1>1. s \in Seq(Int) /\ Len(s) \in Nat /\ \A x \in 1 .. Len(s) : s[x] \in V
  BY IntSequence
<1> DEFINE R == {s[x] : x \in 1 .. Len(s)}
<1> DEFINE Ranked(v, k) == Cardinality(Less(s, v)) < k /\ k <= Cardinality(Leq(s, v))
<1>2. Sort(s) = [k \in 1 .. Len(s) |-> CHOOSE v \in R : Ranked(v, k)]
  BY Zenon DEF Sort, Less, Leq
<1>3. ASSUME NEW k \in 1 .. Len(s)
      PROVE  /\ (CHOOSE v \in R : Ranked(v, k)) \in V
             /\ Ranked(CHOOSE v \in R : Ranked(v, k), k)
  <2>1. PICK x \in 1 .. Len(s) : Ranked(s[x], k)
    BY <1>1, RankExists
  <2>2. \E v \in R : Ranked(v, k)
    BY <2>1
  <2> HIDE DEF Ranked
  <2>3. (CHOOSE v \in R : Ranked(v, k)) \in R /\ Ranked(CHOOSE v \in R : Ranked(v, k), k)
    BY <2>2
  <2> HIDE DEF R
  <2>4. R \subseteq V
    BY <1>1 DEF R
  <2> QED BY <2>3, <2>4
<1> HIDE DEF Ranked, R
<1>4. Sort(s) \in [1 .. Len(s) -> V]
  BY <1>2, <1>3
<1>5. Sort(s) \in Seq(V) /\ Len(Sort(s)) = Len(s)
  BY <1>1, <1>4
<1>6. \A k \in 1 .. Len(s) : Sort(s)[k] \in V /\ Ranked(Sort(s)[k], k)
  BY <1>2, <1>3
<1> QED BY <1>5, <1>6 DEF Ranked

\* A sequence that does not decrease.
Ascending(s) == \A k, l \in 1 .. Len(s) : k <= l => s[k] <= s[l]

\* std::sort leaves the elements in ascending order.
LEMMA SortAscends ==
  ASSUME NEW V \in SUBSET Int, NEW s \in Seq(V)
  PROVE  Ascending(Sort(s))
<1>1. s \in Seq(Int) /\ Len(s) \in Nat /\ Len(Sort(s)) = Len(s)
  BY SortDef, IntSequence
<1>2. SUFFICES ASSUME NEW k \in 1 .. Len(s), NEW l \in 1 .. Len(s), k <= l,
                      Sort(s)[l] < Sort(s)[k]
               PROVE  FALSE
  <2>1. \A k \in 1 .. Len(s) : Sort(s)[k] \in Int
    BY SortDef
  <2> QED BY <1>1, <2>1 DEF Ascending
<1>3. Sort(s)[k] \in Int /\ Sort(s)[l] \in Int
  BY SortDef
<1>4. Cardinality(Less(s, Sort(s)[k])) < k /\ l <= Cardinality(Leq(s, Sort(s)[l]))
  BY SortDef
<1>5. /\ Cardinality(Leq(s, Sort(s)[l])) \in Nat /\ Cardinality(Less(s, Sort(s)[k])) \in Nat
      /\ Cardinality(Leq(s, Sort(s)[l])) <= Cardinality(Less(s, Sort(s)[k]))
  BY <1>1, <1>2, <1>3, LeqLess
<1> QED BY <1>2, <1>4, <1>5

\* Sorting keeps how many values there are up to each.
LEMMA SortCounts ==
  ASSUME NEW V \in SUBSET Int, NEW s \in Seq(V), NEW v \in Int
  PROVE  Cardinality(Leq(Sort(s), v)) = Cardinality(Leq(s, v))
<1> DEFINE c == Cardinality(Leq(s, v))
<1>1. s \in Seq(Int) /\ Len(s) \in Nat /\ Len(Sort(s)) = Len(s)
  BY SortDef, IntSequence
<1>2. c \in Nat /\ c <= Len(s)
  BY <1>1, LeqLess
<1>3. ASSUME NEW k \in 1 .. Len(s) PROVE Sort(s)[k] <= v <=> k <= c
  <2>1. /\ Sort(s)[k] \in Int
        /\ Cardinality(Less(s, Sort(s)[k])) < k
        /\ k <= Cardinality(Leq(s, Sort(s)[k]))
    BY SortDef
  <2>2. /\ Cardinality(Less(s, Sort(s)[k])) \in Nat
        /\ Cardinality(Leq(s, Sort(s)[k])) \in Nat
        /\ v < Sort(s)[k] => c <= Cardinality(Less(s, Sort(s)[k]))
        /\ Sort(s)[k] <= v => Cardinality(Leq(s, Sort(s)[k])) <= c
    BY <1>1, <2>1, LeqLess
  <2> HIDE DEF c
  <2> QED BY <1>2, <2>1, <2>2
<1>4. Leq(Sort(s), v) = 1 .. c
  <2>1. Leq(Sort(s), v) = {k \in 1 .. Len(s) : Sort(s)[k] <= v}
    BY <1>1 DEF Leq
  <2> HIDE DEF c
  <2> QED BY <1>1, <1>2, <1>3, <2>1
<1>5. Cardinality(1 .. c) = c
  BY <1>2, CountPositions
<1> QED BY <1>4, <1>5

\* Two values of the same rank are the same.
LEMMA RankUnique ==
  ASSUME NEW s \in Seq(Int), NEW v \in Int, NEW w \in Int, NEW k \in Int,
         Cardinality(Less(s, v)) < k, k <= Cardinality(Leq(s, v)),
         Cardinality(Less(s, w)) < k, k <= Cardinality(Leq(s, w))
  PROVE  v = w
<1>1. /\ Cardinality(Less(s, v)) \in Nat /\ Cardinality(Leq(s, v)) \in Nat
      /\ Cardinality(Less(s, w)) \in Nat /\ Cardinality(Leq(s, w)) \in Nat
      /\ v < w => Cardinality(Leq(s, v)) <= Cardinality(Less(s, w))
      /\ w < v => Cardinality(Leq(s, w)) <= Cardinality(Less(s, v))
  BY LeqLess
<1> QED BY <1>1

LEMMA MinPosition ==
  ASSUME NEW k \in Nat, NEW S \in SUBSET (1 .. k), S # {}
  PROVE  Min(S) \in S /\ \A y \in S : Min(S) <= y
<1> DEFINE s == [x \in S |-> x]
<1>1. \A x \in S : s[x] \in Int /\ s[x] = x
  OBVIOUS
<1>2. \E x \in S : \A y \in S : s[x] <= s[y]
  <2> HIDE DEF s
  <2> QED BY <1>1, LeastPosition
<1>3. \E x \in S : \A y \in S : x <= y
  BY <1>1, <1>2
<1> QED BY <1>3 DEF Min

LEMMA MaxPosition ==
  ASSUME NEW k \in Nat, NEW S \in SUBSET (1 .. k), S # {}
  PROVE  Max(S) \in S /\ \A y \in S : y <= Max(S)
<1> DEFINE s == [x \in S |-> x]
<1>1. \A x \in S : s[x] \in Int /\ s[x] = x
  OBVIOUS
<1>2. \E x \in S : \A y \in S : s[y] <= s[x]
  <2> HIDE DEF s
  <2> QED BY <1>1, GreatestPosition
<1>3. \E x \in S : \A y \in S : x >= y
  BY <1>1, <1>2
<1>4. Max(S) \in S /\ \A y \in S : Max(S) >= y
  BY <1>3 DEF Max
<1> QED BY <1>4

-----------------------------------------------------------------------------
(* Rearranging a sequence of elements. *)

Elements == Seq(PartitionElement)

\* t has the elements of s in another order, and those outside b .. e-1 where
\* they were; f says where each came from.
Rearranges(f, s, t, b, e) ==
  /\ f \in [1 .. Len(s) -> 1 .. Len(s)]
  /\ \A x, y \in 1 .. Len(s) : f[x] = f[y] => x = y
  /\ \A x \in 1 .. Len(s) : t[x] = s[f[x]] /\ (x < b \/ e <= x => f[x] = x)

Rearranged(s, t, b, e) ==
  /\ t \in Elements
  /\ Len(t) = Len(s)
  /\ \E f \in [1 .. Len(s) -> 1 .. Len(s)] : Rearranges(f, s, t, b, e)

LEMMA ElementsType ==
  ASSUME NEW s \in Elements
  PROVE  /\ Len(s) \in Nat
         /\ \A x \in 1 .. Len(s) : /\ s[x] \in PartitionElement
                                   /\ s[x].value \in Values /\ s[x].value \in Int
                                   /\ s[x].paket \in Pakets
<1>1. s \in Seq(PartitionElement)
  BY DEF Elements
<1>2. Len(s) \in Nat /\ \A x \in 1 .. Len(s) : s[x] \in PartitionElement
  BY <1>1
<1>3. \A y \in PartitionElement : y.value \in Values /\ y.value \in Int /\ y.paket \in Pakets
  BY SplittingAssumption DEF PartitionElement
<1> QED BY <1>2, <1>3

LEMMA RearrangedReflexive ==
  ASSUME NEW s \in Elements, NEW b \in Int, NEW e \in Int
  PROVE  Rearranged(s, s, b, e)
<1> DEFINE f == [x \in 1 .. Len(s) |-> x]
<1>1. f \in [1 .. Len(s) -> 1 .. Len(s)] /\ Rearranges(f, s, s, b, e)
  BY DEF Rearranges
<1> HIDE DEF f
<1> QED BY <1>1 DEF Rearranged

\* Rearranging a part of what was rearranged rearranges the whole.
LEMMA RearrangedTransitive ==
  ASSUME NEW s \in Elements, NEW t, NEW u, NEW b \in Int, NEW e \in Int,
         NEW c \in Int, NEW d \in Int, b <= c, d <= e,
         Rearranged(s, t, b, e), Rearranged(t, u, c, d)
  PROVE  Rearranged(s, u, b, e)
<1>1. Len(s) \in Nat /\ Len(t) = Len(s) /\ Len(u) = Len(s) /\ u \in Elements
  BY ElementsType DEF Rearranged
<1>2. PICK f \in [1 .. Len(s) -> 1 .. Len(s)] : Rearranges(f, s, t, b, e)
  BY DEF Rearranged
<1>3. PICK g \in [1 .. Len(s) -> 1 .. Len(s)] : Rearranges(g, t, u, c, d)
  BY <1>1 DEF Rearranged
<1> DEFINE h == [x \in 1 .. Len(s) |-> f[g[x]]]
<1>4. h \in [1 .. Len(s) -> 1 .. Len(s)]
  BY <1>2, <1>3
<1>5. ASSUME NEW x \in 1 .. Len(s), NEW y \in 1 .. Len(s), h[x] = h[y] PROVE x = y
  <2>1. g[x] = g[y]
    BY <1>2, <1>5 DEF Rearranges
  <2> QED BY <1>1, <1>3, <2>1 DEF Rearranges
<1>6. ASSUME NEW x \in 1 .. Len(s)
      PROVE  u[x] = s[h[x]] /\ (x < b \/ e <= x => h[x] = x)
  <2>1. u[x] = t[g[x]] /\ (x < c \/ d <= x => g[x] = x)
    BY <1>1, <1>3 DEF Rearranges
  <2>2. t[g[x]] = s[f[g[x]]]
    BY <1>2, <1>3 DEF Rearranges
  <2>3. ASSUME x < b \/ e <= x PROVE g[x] = x /\ f[x] = x
    <3>1. x < c \/ d <= x
      BY <2>3, <1>1
    <3> QED BY <2>1, <2>3, <3>1, <1>2 DEF Rearranges
  <2> QED BY <2>1, <2>2, <2>3
<1>7. Rearranges(h, s, u, b, e)
  <2> HIDE DEF h
  <2> QED BY <1>4, <1>5, <1>6 DEF Rearranges
<1> HIDE DEF h
<1> QED BY <1>1, <1>4, <1>7 DEF Rearranged

\* One exchange of partitionPivot.
LEMMA RearrangedSwap ==
  ASSUME NEW s \in Elements, NEW b \in Int, NEW e \in Int,
         NEW l \in 1 .. Len(s), NEW r \in 1 .. Len(s), b <= l, l < r, r < e
  PROVE  /\ Rearranged(s, SwapAt(s, l, r), b, e)
         /\ SwapAt(s, l, r)[l] = s[r]
         /\ SwapAt(s, l, r)[r] = s[l]
         /\ \A x \in 1 .. Len(s) : x # l /\ x # r => SwapAt(s, l, r)[x] = s[x]
<1> DEFINE t == SwapAt(s, l, r)
<1> DEFINE f == [x \in 1 .. Len(s) |-> IF x = l THEN r ELSE IF x = r THEN l ELSE x]
<1>1. Len(s) \in Nat /\ s \in [1 .. Len(s) -> PartitionElement] /\ s \in Seq(PartitionElement)
  BY ElementsType DEF Elements
<1>2. t \in [1 .. Len(s) -> PartitionElement]
  BY <1>1 DEF SwapAt
<1>3. t \in Elements /\ Len(t) = Len(s)
  BY <1>1, <1>2 DEF Elements
<1>4. t[l] = s[r] /\ t[r] = s[l] /\ \A x \in 1 .. Len(s) : x # l /\ x # r => t[x] = s[x]
  BY <1>1 DEF SwapAt
<1> HIDE DEF t
<1>5. f \in [1 .. Len(s) -> 1 .. Len(s)]
  OBVIOUS
<1>6. \A x, y \in 1 .. Len(s) : f[x] = f[y] => x = y
  OBVIOUS
<1>7. \A x \in 1 .. Len(s) : t[x] = s[f[x]] /\ (x < b \/ e <= x => f[x] = x)
  BY <1>4
<1>8. Rearranges(f, s, t, b, e)
  <2> HIDE DEF f
  <2> QED BY <1>5, <1>6, <1>7 DEF Rearranges
<1>9. Rearranged(s, t, b, e)
  <2> HIDE DEF f
  <2> QED BY <1>3, <1>5, <1>8 DEF Rearranged
<1> QED BY <1>4, <1>9 DEF t

\* What is between b and e stays there.
LEMMA RearrangedInside ==
  ASSUME NEW s \in Elements, NEW t, NEW b \in Int, NEW e \in Int, Rearranged(s, t, b, e),
         NEW x \in 1 .. Len(s)
  PROVE  /\ x < b \/ e <= x => t[x] = s[x]
         /\ b <= x /\ x < e => \E y \in 1 .. Len(s) : b <= y /\ y < e /\ t[x] = s[y]
<1>1. PICK f \in [1 .. Len(s) -> 1 .. Len(s)] : Rearranges(f, s, t, b, e)
  BY DEF Rearranged
<1>2. x < b \/ e <= x => t[x] = s[x]
  BY <1>1 DEF Rearranges
<1>3. ASSUME b <= x, x < e PROVE b <= f[x] /\ f[x] < e
  <2>1. SUFFICES ASSUME f[x] < b \/ e <= f[x] PROVE FALSE
    OBVIOUS
  <2>2. f[f[x]] = f[x] /\ f[x] \in 1 .. Len(s)
    BY <1>1, <2>1 DEF Rearranges
  <2>3. f[x] = x
    BY <1>1, <2>2 DEF Rearranges
  <2> QED BY <2>1, <2>3, <1>3
<1> QED BY <1>1, <1>2, <1>3 DEF Rearranges

-----------------------------------------------------------------------------
(* partitionPivot. *)

\* A call of partitionPivot, its scans and the call after the swap.
Left(c) == Min({i \in c.b .. Len(c.s) : ~(c.s[i].value < c.pivot)})
Right(c) == Max({i \in 1 .. c.e - 1 : ~(c.pivot < c.s[i].value)})
Rest(c) == [s |-> SwapAt(c.s, Left(c), Right(c)), b |-> Left(c) + 1, e |-> Right(c), pivot |-> c.pivot]

LEMMA PartitionCallType ==
  ASSUME NEW c \in PartitionCall
  PROVE  /\ c.s \in Elements /\ Len(c.s) \in Nat
         /\ c.b \in Nat /\ 1 <= c.b /\ c.e \in Nat /\ c.b <= c.e /\ c.e <= Len(c.s) + 1
         /\ c.pivot \in Values /\ c.pivot \in Int
         /\ \A i \in 1 .. Len(c.s) : c.s[i].value \in Int
<1>1. /\ c.s \in Elements /\ c.b \in Nat \ {0} /\ c.e \in Nat /\ c.pivot \in Values
      /\ c.e <= Len(c.s) + 1
      /\ \E i \in c.b .. c.e : i <= Len(c.s)
  BY DEF PartitionCall, Elements
<1>2. Len(c.s) \in Nat /\ \A i \in 1 .. Len(c.s) : c.s[i].value \in Int
  BY <1>1, ElementsType
<1>3. c.pivot \in Int
  BY <1>1, SplittingAssumption
<1>4. c.b <= c.e
  BY <1>1
<1> QED BY <1>1, <1>2, <1>3, <1>4

\* The scans stop where they should.
LEMMA Scans ==
  ASSUME NEW c \in PartitionCall
  PROVE  /\ Left(c) \in c.b .. c.e /\ Left(c) \in 1 .. Len(c.s)
         /\ c.pivot <= c.s[Left(c)].value
         /\ \A i \in c.b .. Left(c) - 1 : c.s[i].value < c.pivot
         /\ \A i \in c.b .. c.e : i <= Len(c.s) /\ c.pivot <= c.s[i].value => Left(c) <= i
         /\ Right(c) \in c.b - 1 .. c.e - 1 /\ Right(c) \in 1 .. Len(c.s)
         /\ c.s[Right(c)].value <= c.pivot
         /\ \A i \in Right(c) + 1 .. c.e - 1 : c.pivot < c.s[i].value
<1> DEFINE L == {i \in c.b .. Len(c.s) : ~(c.s[i].value < c.pivot)}
<1> DEFINE R == {i \in 1 .. c.e - 1 : ~(c.pivot < c.s[i].value)}
<1>1. /\ c.s \in Elements /\ Len(c.s) \in Nat
      /\ c.b \in Nat /\ 1 <= c.b /\ c.e \in Nat /\ c.b <= c.e /\ c.e <= Len(c.s) + 1
      /\ c.pivot \in Int
      /\ \A i \in 1 .. Len(c.s) : c.s[i].value \in Int
  BY PartitionCallType
<1>2. PICK p \in c.b .. c.e : p <= Len(c.s) /\ ~(c.s[p].value < c.pivot)
  BY DEF PartitionCall
<1>3. PICK q \in c.b - 1 .. c.e - 1 : 1 <= q /\ ~(c.pivot < c.s[q].value)
  BY DEF PartitionCall
<1>4. p \in L /\ L \in SUBSET (1 .. Len(c.s))
  BY <1>1, <1>2
<1>5. q \in R /\ R \in SUBSET (1 .. Len(c.s))
  BY <1>1, <1>3
<1>6. Left(c) \in L /\ \A y \in L : Left(c) <= y
  <2> HIDE DEF L
  <2>1. Min(L) \in L /\ \A y \in L : Min(L) <= y
    BY <1>1, <1>4, MinPosition
  <2> QED BY <2>1 DEF Left, L
<1>7. Right(c) \in R /\ \A y \in R : y <= Right(c)
  <2> HIDE DEF R
  <2>1. Max(R) \in R /\ \A y \in R : y <= Max(R)
    BY <1>1, <1>5, MaxPosition
  <2> QED BY <2>1 DEF Right, R
<1>8. Left(c) \in c.b .. c.e /\ Left(c) \in 1 .. Len(c.s) /\ c.pivot <= c.s[Left(c)].value
  BY <1>1, <1>2, <1>4, <1>6, SMTT(30)
<1>9. Right(c) \in c.b - 1 .. c.e - 1 /\ Right(c) \in 1 .. Len(c.s) /\ c.s[Right(c)].value <= c.pivot
  BY <1>1, <1>3, <1>5, <1>7, SMTT(30)
<1>10. ASSUME NEW i \in c.b .. Left(c) - 1 PROVE c.s[i].value < c.pivot
  <2>1. i \in c.b .. Len(c.s) /\ i < Left(c)
    BY <1>1, <1>8, SMTT(30)
  <2> QED BY <2>1, <1>1, <1>6, <1>8
<1>11. ASSUME NEW i \in Right(c) + 1 .. c.e - 1 PROVE c.pivot < c.s[i].value
  <2>1. i \in 1 .. c.e - 1 /\ Right(c) < i
    BY <1>1, <1>9
  <2> QED BY <2>1, <1>1, <1>7, <1>9
<1>12. ASSUME NEW i \in c.b .. c.e, i <= Len(c.s), c.pivot <= c.s[i].value PROVE Left(c) <= i
  <2>1. i \in L
    BY <1>1, <1>12, SMTT(30)
  <2> QED BY <2>1, <1>6
<1> QED BY <1>8, <1>9, <1>10, <1>11, <1>12

\* When they have not met, the rest is a call that stops, on less.
LEMMA RestIsCall ==
  ASSUME NEW c \in PartitionCall, Left(c) < Right(c)
  PROVE  /\ Rest(c) \in PartitionCall
         /\ Rest(c).e - Rest(c).b < c.e - c.b
         /\ Rest(c).s = SwapAt(c.s, Left(c), Right(c))
         /\ Rest(c).b = Left(c) + 1 /\ Rest(c).e = Right(c) /\ Rest(c).pivot = c.pivot
         /\ Rest(c).s \in Elements /\ Len(Rest(c).s) = Len(c.s)
         /\ Rearranged(c.s, Rest(c).s, c.b, c.e)
         /\ Rest(c).s[Left(c)] = c.s[Right(c)] /\ Rest(c).s[Right(c)] = c.s[Left(c)]
         /\ \A i \in 1 .. Len(c.s) : i # Left(c) /\ i # Right(c) => Rest(c).s[i] = c.s[i]
<1> DEFINE l == Left(c)
<1> DEFINE r == Right(c)
<1> DEFINE t == SwapAt(c.s, l, r)
<1>1. /\ c.s \in Elements /\ Len(c.s) \in Nat
      /\ c.b \in Nat /\ 1 <= c.b /\ c.e \in Nat /\ c.b <= c.e /\ c.e <= Len(c.s) + 1
      /\ c.pivot \in Values /\ c.pivot \in Int
      /\ \A i \in 1 .. Len(c.s) : c.s[i].value \in Int
  BY PartitionCallType
<1>2. /\ l \in c.b .. c.e /\ l \in 1 .. Len(c.s) /\ c.pivot <= c.s[l].value
      /\ r \in c.b - 1 .. c.e - 1 /\ r \in 1 .. Len(c.s) /\ c.s[r].value <= c.pivot
  BY Scans
<1>3. l < r
  OBVIOUS
<1>4. /\ Rest(c).s = t /\ Rest(c).b = l + 1 /\ Rest(c).e = r /\ Rest(c).pivot = c.pivot
      /\ Rest(c) = [s |-> t, b |-> l + 1, e |-> r, pivot |-> c.pivot]
  BY DEF Rest
<1> HIDE DEF l, r
<1>5. /\ Rearranged(c.s, t, c.b, c.e) /\ t[l] = c.s[r] /\ t[r] = c.s[l]
      /\ \A i \in 1 .. Len(c.s) : i # l /\ i # r => t[i] = c.s[i]
  <2>1. c.b <= l /\ r < c.e /\ c.b \in Int /\ c.e \in Int
    BY <1>1, <1>2
  <2>2. /\ Rearranged(c.s, SwapAt(c.s, l, r), c.b, c.e)
        /\ SwapAt(c.s, l, r)[l] = c.s[r]
        /\ SwapAt(c.s, l, r)[r] = c.s[l]
        /\ \A x \in 1 .. Len(c.s) : x # l /\ x # r => SwapAt(c.s, l, r)[x] = c.s[x]
    <3> HIDE DEF t
    <3>1. c.s \in Elements /\ l \in 1 .. Len(c.s) /\ r \in 1 .. Len(c.s)
      BY <1>1, <1>2
    <3> QED BY <2>1, <3>1, <1>3, RearrangedSwap, SMTT(30)
  <2> QED BY <2>2
<1> HIDE DEF t
<1>6. t \in Elements /\ Len(t) = Len(c.s)
  BY <1>5 DEF Rearranged
<1>7. r - (l + 1) < c.e - c.b
  BY <1>1, <1>2, <1>3
<1>8. [s |-> t, b |-> l + 1, e |-> r, pivot |-> c.pivot] \in PartitionCall
  <2>1. [s |-> t, b |-> l + 1, e |-> r, pivot |-> c.pivot]
          \in [s : Seq(PartitionElement), b : Nat \ {0}, e : Nat, pivot : Values]
    BY <1>1, <1>2, <1>6 DEF Elements
  <2>2. r <= Len(t) + 1 /\ r \in l + 1 .. r /\ r <= Len(t) /\ ~(t[r].value < c.pivot)
    BY <1>1, <1>2, <1>3, <1>5, <1>6
  <2>3. l \in (l + 1) - 1 .. r - 1 /\ 1 <= l /\ ~(c.pivot < t[l].value)
    BY <1>1, <1>2, <1>3, <1>5, SMTT(30)
  <2> QED BY <2>1, <2>2, <2>3 DEF PartitionCall
<1>9. Rest(c) \in PartitionCall
  BY <1>4, <1>8
<1>10. Rest(c).e - Rest(c).b < c.e - c.b
  BY <1>4, <1>7
<1>11. /\ Rest(c).s = SwapAt(c.s, Left(c), Right(c))
       /\ Rest(c).b = Left(c) + 1 /\ Rest(c).e = Right(c) /\ Rest(c).pivot = c.pivot
  BY DEF Rest
<1>12. Rearranged(c.s, Rest(c).s, c.b, c.e) /\ Rest(c).s \in Elements /\ Len(Rest(c).s) = Len(c.s)
  BY <1>4, <1>5, <1>6, Zenon
<1>13. /\ Rest(c).s[l] = c.s[r] /\ Rest(c).s[r] = c.s[l]
       /\ \A i \in 1 .. Len(c.s) : i # l /\ i # r => Rest(c).s[i] = c.s[i]
  BY <1>4, <1>5, Zenon
<1> QED BY <1>9, <1>10, <1>11, <1>12, <1>13, Zenon DEF l, r

PartitionResult == [s : Seq(PartitionElement), cut : Nat]

\* partitionPivot is what its definition says.
LEMMA PartitionDef ==
  ASSUME NEW c \in PartitionCall
  PROVE  partitionPivot[c] =
           IF Left(c) < Right(c) THEN partitionPivot[Rest(c)] ELSE [s |-> c.s, cut |-> Left(c)]
<1> DEFINE body(f, d) == IF Left(d) < Right(d) THEN f[Rest(d)] ELSE [s |-> d.s, cut |-> Left(d)]
<1> DEFINE D == PartitionCall
<1> DEFINE m == [d \in D |-> d.e - d.b]
<1> DEFINE G == [f \in [D -> PartitionResult] |-> [d \in D |-> body(f, d)]]
<1>1. m \in [D -> Nat]
  <2>1. \A d \in D : d.e - d.b \in Nat
    BY PartitionCallType
  <2> QED BY <2>1
<1>2. ASSUME NEW f \in [D -> PartitionResult], NEW d \in D PROVE body(f, d) \in PartitionResult
  <2>1. CASE Left(d) < Right(d)
    BY <2>1, RestIsCall
  <2>2. CASE ~(Left(d) < Right(d))
    <3>1. Left(d) \in Nat
      <4>1. Left(d) \in 1 .. Len(d.s)
        BY Scans
      <4> QED BY <4>1
    <3>2. d.s \in Seq(PartitionElement)
      BY PartitionCallType DEF Elements
    <3> QED BY <2>2, <3>1, <3>2 DEF PartitionResult
  <2> QED BY <2>1, <2>2
<1>3. G \in [[D -> PartitionResult] -> [D -> PartitionResult]]
  <2> HIDE DEF body, D
  <2> QED BY <1>2
<1>4. ASSUME NEW f \in [D -> PartitionResult], NEW g \in [D -> PartitionResult], NEW d \in D,
             \A y \in D : m[y] < m[d] => f[y] = g[y]
      PROVE  G[f][d] = G[g][d]
  <2>1. CASE Left(d) < Right(d)
    <3>1. Rest(d) \in D /\ Rest(d).e - Rest(d).b < d.e - d.b
      BY <2>1, RestIsCall
    <3>2. m[Rest(d)] < m[d]
      BY <3>1
    <3>3. f[Rest(d)] = g[Rest(d)]
      BY <3>1, <3>2, <1>4
    <3> QED BY <2>1, <3>3
  <2>2. CASE ~(Left(d) < Right(d))
    BY <2>2
  <2> QED BY <2>1, <2>2
<1>5. Contracts(G, m, D, PartitionResult)
  <2> HIDE DEF D, m, G
  <2> QED BY <1>1, <1>3, <1>4 DEF Contracts
<1>6. PartitionResult # {}
  <2>1. [s |-> <<>>, cut |-> 0] \in PartitionResult
    BY DEF PartitionResult
  <2> QED BY <2>1
<1>7. HasFixpoint(G, D, PartitionResult)
  <2> HIDE DEF D, m, G
  <2> QED BY <1>5, <1>6, MeasuredRecursion
<1>8. PICK f \in [D -> PartitionResult] : f = [d \in D |-> body(f, d)]
  BY <1>7 DEF HasFixpoint
<1>9. partitionPivot = [d \in D |-> body(partitionPivot, d)]
  BY <1>8 DEF partitionPivot, Left, Right, Rest
<1> QED BY <1>9

\* What partitionPivot does: it rearranges b .. e-1 into a part up to the pivot and
\* a part from it on, and both are shorter than the whole unless the lower one is
\* empty.
Partitions(c, result) ==
  /\ Rearranged(c.s, result.s, c.b, c.e)
  /\ result.cut \in c.b .. c.e
  /\ \A i \in c.b .. result.cut - 1 : result.s[i].value <= c.pivot
  /\ \A i \in result.cut .. c.e - 1 : c.pivot <= result.s[i].value
  /\ (\E i \in c.b .. c.e - 1 : c.pivot <= c.s[i].value) => result.cut < c.e

\* partitionPivot rearranges its range so that nothing below the cut is greater
\* than the pivot and nothing from it on is less; unless all is less than the
\* pivot the cut is below the end.
LEMMA PartitionCorrect ==
  ASSUME NEW c \in PartitionCall
  PROVE  Partitions(c, partitionPivot[c])
<1> DEFINE A == {k \in Nat : \A d \in PartitionCall : d.e - d.b < k => Partitions(d, partitionPivot[d])}
<1>1. 0 \in A
  <2>1. ASSUME NEW d \in PartitionCall PROVE ~(d.e - d.b < 0)
    BY PartitionCallType
  <2> QED BY <2>1
<1>2. ASSUME NEW k \in Nat, k \in A PROVE k + 1 \in A
  <2>1. SUFFICES ASSUME NEW d \in PartitionCall, d.e - d.b < k + 1
                 PROVE  Partitions(d, partitionPivot[d])
    OBVIOUS
  <2>2. /\ d.s \in Elements /\ Len(d.s) \in Nat
        /\ d.b \in Nat /\ 1 <= d.b /\ d.e \in Nat /\ d.b <= d.e /\ d.e <= Len(d.s) + 1
        /\ d.pivot \in Int
        /\ \A i \in 1 .. Len(d.s) : d.s[i].value \in Int
    BY PartitionCallType
  <2>3. /\ Left(d) \in d.b .. d.e /\ Left(d) \in 1 .. Len(d.s)
        /\ d.pivot <= d.s[Left(d)].value
        /\ \A i \in d.b .. Left(d) - 1 : d.s[i].value < d.pivot
        /\ \A i \in d.b .. d.e : i <= Len(d.s) /\ d.pivot <= d.s[i].value => Left(d) <= i
        /\ Right(d) \in d.b - 1 .. d.e - 1 /\ Right(d) \in 1 .. Len(d.s)
        /\ d.s[Right(d)].value <= d.pivot
        /\ \A i \in Right(d) + 1 .. d.e - 1 : d.pivot < d.s[i].value
    BY Scans
  <2>4. CASE ~(Left(d) < Right(d))
    <3> DEFINE res == [s |-> d.s, cut |-> Left(d)]
    <3>1. partitionPivot[d] = res /\ res.s = d.s /\ res.cut = Left(d)
      BY <2>4, PartitionDef
    <3>2. Rearranged(d.s, d.s, d.b, d.e)
      BY <2>2, RearrangedReflexive
    <3>3. ASSUME NEW i \in d.b .. Left(d) - 1 PROVE d.s[i].value <= d.pivot
      <4>1. i \in 1 .. Len(d.s)
        BY <2>2, <2>3
      <4> QED BY <4>1, <2>2, <2>3, SMTT(30)
    <3>4. ASSUME NEW i \in Left(d) .. d.e - 1 PROVE d.pivot <= d.s[i].value
      <4>1. i \in 1 .. Len(d.s) /\ (i = Left(d) \/ i \in Right(d) + 1 .. d.e - 1)
        BY <2>2, <2>3, <2>4, SMTT(30)
      <4> QED BY <4>1, <2>2, <2>3, SMTT(30)
    <3>5. ASSUME NEW i \in d.b .. d.e - 1, d.pivot <= d.s[i].value PROVE Left(d) < d.e
      <4>1. i \in d.b .. d.e /\ i <= Len(d.s)
        BY <2>2
      <4>2. Left(d) <= i
        BY <4>1, <2>3, <3>5
      <4> QED BY <4>2, <2>2, <2>3
    <3> HIDE DEF res
    <3> QED BY <2>3, <3>1, <3>2, <3>3, <3>4, <3>5 DEF Partitions
  <2>5. CASE Left(d) < Right(d)
    <3> DEFINE r == Rest(d)
    <3> DEFINE res == partitionPivot[r]
    <3>1. /\ r \in PartitionCall /\ r.e - r.b < d.e - d.b
          /\ r.b = Left(d) + 1 /\ r.e = Right(d) /\ r.pivot = d.pivot
          /\ r.s \in Elements /\ Len(r.s) = Len(d.s)
          /\ Rearranged(d.s, r.s, d.b, d.e)
          /\ r.s[Left(d)] = d.s[Right(d)] /\ r.s[Right(d)] = d.s[Left(d)]
          /\ \A i \in 1 .. Len(d.s) : i # Left(d) /\ i # Right(d) => r.s[i] = d.s[i]
      BY <2>5, RestIsCall
    <3>2. partitionPivot[d] = res
      BY <2>5, PartitionDef
    <3> HIDE DEF r
    <3>3. r.e \in Int /\ r.b \in Int
      BY <2>3, <3>1
    <3>4. r.e - r.b < k
      BY <2>1, <2>2, <3>1, <3>3, SMTT(30)
    <3>5. Partitions(r, res)
      BY <1>2, <3>1, <3>4
    <3> HIDE DEF res
    <3>6. /\ Rearranged(r.s, res.s, Left(d) + 1, Right(d))
          /\ res.cut \in Left(d) + 1 .. Right(d)
          /\ \A i \in Left(d) + 1 .. res.cut - 1 : res.s[i].value <= d.pivot
          /\ \A i \in res.cut .. Right(d) - 1 : d.pivot <= res.s[i].value
      BY <3>1, <3>5 DEF Partitions
    <3>7. Rearranged(d.s, res.s, d.b, d.e)
      <4>1. d.b <= Left(d) + 1 /\ Right(d) <= d.e /\ Left(d) + 1 \in Int /\ Right(d) \in Int
        BY <2>2, <2>3
      <4> QED BY <4>1, <2>2, <3>1, <3>6, RearrangedTransitive, SMTT(30)
    <3>8. \A i \in 1 .. Len(d.s) : i < Left(d) + 1 \/ Right(d) <= i => res.s[i] = r.s[i]
      BY <2>3, <3>1, <3>6, RearrangedInside, SMTT(30)
    <3>9. ASSUME NEW i \in d.b .. res.cut - 1 PROVE res.s[i].value <= d.pivot
      <4>1. i \in 1 .. Len(d.s) /\ i \in Int
        BY <2>2, <2>3, <3>6, SMTT(30)
      <4>2. CASE i < Left(d)
        <5>1. res.s[i] = r.s[i]
          BY <4>1, <4>2, <3>8, <2>3
        <5>2. r.s[i] = d.s[i]
          <6>1. i # Left(d) /\ i # Right(d)
            BY <4>1, <4>2, <2>3, <2>5
          <6> QED BY <4>1, <6>1, <3>1, Zenon
        <5>3. d.s[i].value < d.pivot
          <6>1. i \in d.b .. Left(d) - 1
            BY <4>1, <4>2, <2>2, <2>3
          <6> QED BY <6>1, <2>3, Zenon
        <5>4. d.s[i].value \in Int
          BY <4>1, <2>2, Zenon
        <5> QED BY <5>1, <5>2, <5>3, <5>4, <2>2
      <4>3. CASE i = Left(d)
        <5>1. res.s[i] = r.s[i]
          BY <4>1, <4>3, <3>8, <2>3
        <5>2. r.s[i] = d.s[Right(d)]
          BY <4>3, <3>1
        <5> QED BY <5>1, <5>2, <2>3
      <4>4. CASE Left(d) < i
        BY <4>1, <4>4, <2>3, <3>6
      <4> QED BY <4>1, <4>2, <4>3, <4>4, <2>3
    <3>10. ASSUME NEW i \in res.cut .. d.e - 1 PROVE d.pivot <= res.s[i].value
      <4>1. i \in 1 .. Len(d.s) /\ i \in Int
        BY <2>2, <2>3, <3>6
      <4>2. CASE i < Right(d)
        BY <4>1, <4>2, <2>3, <3>6
      <4>3. CASE i = Right(d)
        <5>1. res.s[i] = r.s[i]
          BY <4>1, <4>3, <3>8, <2>3
        <5>2. r.s[i] = d.s[Left(d)]
          BY <4>3, <3>1
        <5> QED BY <5>1, <5>2, <2>3
      <4>4. CASE Right(d) < i
        <5>1. res.s[i] = r.s[i]
          BY <4>1, <4>4, <3>8, <2>3
        <5>2. r.s[i] = d.s[i]
          BY <4>1, <4>4, <3>1, <2>3, <2>5
        <5>3. d.pivot < d.s[i].value
          <6>1. i \in Right(d) + 1 .. d.e - 1
            BY <4>1, <4>4, <2>2, <2>3
          <6> QED BY <6>1, <2>3, Zenon
        <5>4. d.s[i].value \in Int
          BY <4>1, <2>2, Zenon
        <5> QED BY <5>1, <5>2, <5>3, <5>4, <2>2
      <4> QED BY <4>1, <4>2, <4>3, <4>4, <2>3
    <3>11. res.cut \in d.b .. d.e /\ res.cut < d.e
      BY <2>2, <2>3, <3>6
    <3> QED BY <3>2, <3>7, <3>9, <3>10, <3>11 DEF Partitions
  <2> QED BY <2>4, <2>5
<1>3. Nat \subseteq A
  <2> HIDE DEF A
  <2> QED BY <1>1, <1>2, NatSetInduction
<1>4. (c.e - c.b) + 1 \in Nat /\ c.e - c.b < (c.e - c.b) + 1
  BY PartitionCallType
<1> QED BY <1>3, <1>4

-----------------------------------------------------------------------------
(* quickselect. *)

\* The call of partitionPivot that quickselect makes with pivot s[i], and what
\* it goes on with.
Pivoted(c, i) == [s |-> c.s, b |-> c.b, e |-> c.e, pivot |-> c.s[i].value]
Parted(c, i) == partitionPivot[Pivoted(c, i)]
Lower(c, i) == [c EXCEPT !.s = Parted(c, i).s, !.e = Parted(c, i).cut]
Upper(c, i) ==
  [c EXCEPT !.s = Parted(c, i).s, !.b = Parted(c, i).cut, !.k = c.k - (Parted(c, i).cut - c.b)]

LEMMA QuickselectCallType ==
  ASSUME NEW c \in QuickselectCall
  PROVE  /\ c.s \in Elements /\ Len(c.s) \in Nat
         /\ c.b \in Nat /\ 1 <= c.b /\ c.e \in Nat /\ c.b <= c.e /\ c.e <= Len(c.s) + 1
         /\ c.k \in Int
<1>1. /\ c.s \in Elements /\ c.b \in Nat \ {0} /\ c.e \in Nat /\ c.k \in Int
      /\ c.b <= c.e /\ c.e <= Len(c.s) + 1
  BY DEF QuickselectCall, Elements
<1>2. Len(c.s) \in Nat
  BY <1>1, ElementsType
<1> QED BY <1>1, <1>2

\* A pivot from the sequence stops both scans, and both parts are calls on less.
LEMMA PivotedIsCall ==
  ASSUME NEW c \in QuickselectCall, NEW i \in c.b .. c.e - 1
  PROVE  /\ Pivoted(c, i) \in PartitionCall
         /\ Rearranged(c.s, Parted(c, i).s, c.b, c.e)
         /\ Parted(c, i).cut \in c.b .. c.e - 1
         /\ \E v \in Int :
              /\ \A x \in c.b .. Parted(c, i).cut - 1 : Parted(c, i).s[x].value <= v
              /\ \A x \in Parted(c, i).cut .. c.e - 1 : v <= Parted(c, i).s[x].value
<1> DEFINE p == Pivoted(c, i)
<1>1. /\ c.s \in Elements /\ Len(c.s) \in Nat
      /\ c.b \in Nat /\ 1 <= c.b /\ c.e \in Nat /\ c.b <= c.e /\ c.e <= Len(c.s) + 1
  BY QuickselectCallType
<1>2. i \in 1 .. Len(c.s) /\ i \in Nat
  BY <1>1
<1>3. c.s[i].value \in Values /\ c.s[i].value \in Int
  BY <1>1, <1>2, ElementsType
<1>4. /\ p = [s |-> c.s, b |-> c.b, e |-> c.e, pivot |-> c.s[i].value]
      /\ p.s = c.s /\ p.b = c.b /\ p.e = c.e /\ p.pivot = c.s[i].value
  BY DEF Pivoted
<1> HIDE DEF p
<1>5. p \in PartitionCall
  <2>1. p \in [s : Seq(PartitionElement), b : Nat \ {0}, e : Nat, pivot : Values]
    BY <1>1, <1>3, <1>4 DEF Elements
  <2>2. p.e <= Len(p.s) + 1
    BY <1>1, <1>4
  <2>3. i \in p.b .. p.e /\ i <= Len(p.s) /\ ~(p.s[i].value < p.pivot)
    BY <1>1, <1>2, <1>3, <1>4
  <2>4. i \in p.b - 1 .. p.e - 1 /\ 1 <= i /\ ~(p.pivot < p.s[i].value)
    BY <1>1, <1>2, <1>3, <1>4
  <2> QED BY <2>1, <2>2, <2>3, <2>4 DEF PartitionCall
<1>6. Partitions(p, Parted(c, i))
  BY <1>5, PartitionCorrect DEF Parted, p
<1>7. \E x \in p.b .. p.e - 1 : p.pivot <= p.s[x].value
  BY <1>3, <1>4
<1>8. Parted(c, i).cut \in p.b .. p.e /\ Parted(c, i).cut < p.e
  BY <1>6, <1>7 DEF Partitions
<1>9. Parted(c, i).cut \in c.b .. c.e - 1
  BY <1>1, <1>4, <1>8
<1>10. /\ \A x \in c.b .. Parted(c, i).cut - 1 : Parted(c, i).s[x].value <= p.pivot
       /\ \A x \in Parted(c, i).cut .. c.e - 1 : p.pivot <= Parted(c, i).s[x].value
  BY <1>4, <1>6 DEF Partitions
<1>11. Rearranged(c.s, Parted(c, i).s, c.b, c.e)
  BY <1>4, <1>6 DEF Partitions
<1>12. p.pivot \in Int
  BY <1>3, <1>4
<1> QED BY <1>5, <1>9, <1>10, <1>11, <1>12 DEF p

\* Both recursive calls of quickselect are about fewer elements.
LEMMA PartsAreCalls ==
  ASSUME NEW c \in QuickselectCall, NEW i \in c.b .. c.e - 1
  PROVE  /\ Lower(c, i) \in QuickselectCall
         /\ Lower(c, i).s = Parted(c, i).s /\ Lower(c, i).b = c.b
         /\ Lower(c, i).e = Parted(c, i).cut /\ Lower(c, i).k = c.k
         /\ Lower(c, i).e - Lower(c, i).b < c.e - c.b
         /\ Upper(c, i) \in QuickselectCall
         /\ Upper(c, i).s = Parted(c, i).s /\ Upper(c, i).b = Parted(c, i).cut
         /\ Upper(c, i).e = c.e /\ Upper(c, i).k = c.k - (Parted(c, i).cut - c.b)
         /\ Parted(c, i).cut # c.b => Upper(c, i).e - Upper(c, i).b < c.e - c.b
<1> DEFINE t == Parted(c, i).s
<1> DEFINE cut == Parted(c, i).cut
<1>1. /\ c.s \in Elements /\ Len(c.s) \in Nat
      /\ c.b \in Nat /\ 1 <= c.b /\ c.e \in Nat /\ c.b <= c.e /\ c.e <= Len(c.s) + 1
      /\ c.k \in Int
  BY QuickselectCallType
<1>2. Rearranged(c.s, t, c.b, c.e) /\ cut \in c.b .. c.e - 1
  BY PivotedIsCall
<1>3. t \in Seq(PartitionElement) /\ Len(t) = Len(c.s)
  BY <1>2 DEF Rearranged, Elements
<1>4. c \in [s : Seq(PartitionElement), b : Nat \ {0}, e : Nat, k : Int]
  BY DEF QuickselectCall
<1>5. /\ Lower(c, i) \in [s : Seq(PartitionElement), b : Nat \ {0}, e : Nat, k : Int]
      /\ Lower(c, i).s = t /\ Lower(c, i).b = c.b /\ Lower(c, i).e = cut /\ Lower(c, i).k = c.k
  <2> HIDE DEF t, cut
  <2>1. cut \in Nat
    BY <1>1, <1>2
  <2>2. Lower(c, i) = [c EXCEPT !.s = t, !.e = cut]
    BY DEF Lower, t, cut
  <2> QED BY <1>3, <1>4, <2>1, <2>2
<1>6. /\ Upper(c, i) \in [s : Seq(PartitionElement), b : Nat \ {0}, e : Nat, k : Int]
      /\ Upper(c, i).s = t /\ Upper(c, i).b = cut /\ Upper(c, i).e = c.e
      /\ Upper(c, i).k = c.k - (cut - c.b)
  <2> HIDE DEF t, cut
  <2>1. cut \in Nat \ {0} /\ c.k - (cut - c.b) \in Int
    BY <1>1, <1>2
  <2>2. Upper(c, i) = [c EXCEPT !.s = t, !.b = cut, !.k = c.k - (cut - c.b)]
    BY DEF Upper, t, cut
  <2> QED BY <1>3, <1>4, <2>1, <2>2
<1> HIDE DEF t, cut
<1>7. Lower(c, i).b <= Lower(c, i).e /\ Lower(c, i).e <= Len(Lower(c, i).s) + 1
  BY <1>1, <1>2, <1>3, <1>5
<1>8. Upper(c, i).b <= Upper(c, i).e /\ Upper(c, i).e <= Len(Upper(c, i).s) + 1
  BY <1>1, <1>2, <1>3, <1>6
<1>9. Lower(c, i) \in QuickselectCall /\ Upper(c, i) \in QuickselectCall
  BY <1>5, <1>6, <1>7, <1>8 DEF QuickselectCall
<1>10. /\ Lower(c, i).e - Lower(c, i).b < c.e - c.b
       /\ cut # c.b => Upper(c, i).e - Upper(c, i).b < c.e - c.b
  BY <1>1, <1>2, <1>5, <1>6
<1> QED BY <1>5, <1>6, <1>9, <1>10 DEF t, cut

\* quickselect is what its definition says.
Selects(f, c, i) ==
  IF Parted(c, i).cut - c.b > c.k THEN f[Lower(c, i)]
  ELSE IF Parted(c, i).cut = c.b THEN {}
  ELSE f[Upper(c, i)]

\* quickselect satisfies its recursive definition.
LEMMA QuickselectDef ==
  ASSUME NEW c \in QuickselectCall
  PROVE  quickselect[c] =
           IF c.e - c.b <= 1 THEN {c.s}
           ELSE UNION {Selects(quickselect, c, i) : i \in c.b .. c.e - 1}
<1> DEFINE body(f, d) == IF d.e - d.b <= 1 THEN {d.s}
                         ELSE UNION {Selects(f, d, i) : i \in d.b .. d.e - 1}
<1> DEFINE D == QuickselectCall
<1> DEFINE V == SUBSET Elements
<1> DEFINE m == [d \in D |-> d.e - d.b]
<1> DEFINE G == [f \in [D -> V] |-> [d \in D |-> body(f, d)]]
<1>1. m \in [D -> Nat]
  <2>1. \A d \in D : d.e - d.b \in Nat
    BY QuickselectCallType
  <2> QED BY <2>1
<1>2. ASSUME NEW f \in [D -> V], NEW d \in D PROVE body(f, d) \in V
  <2>1. d.s \in Elements
    BY QuickselectCallType
  <2>2. ASSUME NEW i \in d.b .. d.e - 1 PROVE Selects(f, d, i) \in V
    <3>1. Lower(d, i) \in D /\ Upper(d, i) \in D
      BY PartsAreCalls
    <3> HIDE DEF D
    <3>2. f[Lower(d, i)] \in V /\ f[Upper(d, i)] \in V /\ {} \in V
      BY <3>1
    <3> HIDE DEF V
    <3> QED BY <3>2 DEF Selects
  <2>3. UNION {Selects(f, d, i) : i \in d.b .. d.e - 1} \in V
    BY <2>2
  <2> QED BY <2>1, <2>3
<1>3. G \in [[D -> V] -> [D -> V]]
  <2> HIDE DEF body, D, V
  <2> QED BY <1>2
<1>4. ASSUME NEW f \in [D -> V], NEW g \in [D -> V], NEW d \in D,
             \A y \in D : m[y] < m[d] => f[y] = g[y]
      PROVE  G[f][d] = G[g][d]
  <2>1. \A i \in d.b .. d.e - 1 : Selects(f, d, i) = Selects(g, d, i)
    <3>1. SUFFICES ASSUME NEW i \in d.b .. d.e - 1 PROVE Selects(f, d, i) = Selects(g, d, i)
      OBVIOUS
    <3>2. /\ Lower(d, i) \in D /\ Lower(d, i).e - Lower(d, i).b < d.e - d.b
          /\ Upper(d, i) \in D
          /\ Parted(d, i).cut # d.b => Upper(d, i).e - Upper(d, i).b < d.e - d.b
      BY PartsAreCalls
    <3>3. m[Lower(d, i)] < m[d] /\ (Parted(d, i).cut # d.b => m[Upper(d, i)] < m[d])
      BY <3>2
    <3>4. f[Lower(d, i)] = g[Lower(d, i)]
          /\ (Parted(d, i).cut # d.b => f[Upper(d, i)] = g[Upper(d, i)])
      BY <3>2, <3>3, <1>4
    <3> QED BY <3>4 DEF Selects
  <2>2. {Selects(f, d, i) : i \in d.b .. d.e - 1} = {Selects(g, d, i) : i \in d.b .. d.e - 1}
    BY <2>1
  <2>3. body(f, d) = body(g, d)
    BY <2>2, Zenon
  <2>4. G[f][d] = body(f, d) /\ G[g][d] = body(g, d)
    <3> HIDE DEF body, D, V
    <3> QED BY Zenon
  <2> QED BY <2>3, <2>4
<1>5. Contracts(G, m, D, V)
  <2> HIDE DEF D, V, m, G
  <2> QED BY <1>1, <1>3, <1>4 DEF Contracts
<1>6. V # {}
  OBVIOUS
<1>7. HasFixpoint(G, D, V)
  <2> HIDE DEF D, V, m, G
  <2> QED BY <1>5, <1>6, MeasuredRecursion
<1>8. PICK f \in [D -> V] : f = [d \in D |-> body(f, d)]
  <2>1. PICK f \in [D -> V] : f = G[f]
    BY <1>7 DEF HasFixpoint
  <2> HIDE DEF body, D, V
  <2> QED BY <2>1
<1>9. quickselect = [d \in D |-> body(quickselect, d)]
  BY <1>8, Zenon DEF quickselect, Selects, Lower, Upper, Parted, Pivoted
<1> QED
  <2>1. quickselect[c] = body(quickselect, c)
    <3> HIDE DEF body
    <3> QED BY <1>9
  <2> QED BY <2>1, Zenon

\* s is divided at p: what is before p is at most what is not.
Divided(s, p) ==
  \A x, y \in 1 .. Len(s) : x < p /\ p <= y => s[x].value <= s[y].value

\* A cut at or outside the ends of the range survives the rearrangement.
LEMMA RearrangedDivided ==
  ASSUME NEW s \in Elements, NEW t, NEW b \in Int, NEW e \in Int, NEW p \in Int, b <= e,
         Rearranged(s, t, b, e), Divided(s, p), p <= b \/ e <= p
  PROVE  Divided(t, p)
<1>1. Len(t) = Len(s) /\ Len(s) \in Nat
  BY ElementsType DEF Rearranged
<1>2. SUFFICES ASSUME NEW x \in 1 .. Len(s), NEW y \in 1 .. Len(s), x < p, p <= y
               PROVE  t[x].value <= t[y].value
  BY <1>1 DEF Divided
<1>3. PICK f \in [1 .. Len(s) -> 1 .. Len(s)] : Rearranges(f, s, t, b, e)
  BY DEF Rearranged
<1>4. t[x] = s[f[x]] /\ t[y] = s[f[y]] /\ f[x] \in 1 .. Len(s) /\ f[y] \in 1 .. Len(s)
  BY <1>3 DEF Rearranges
<1>5. \A z \in 1 .. Len(s) : /\ z < b \/ e <= z => f[z] = z
                             /\ b <= z /\ z < e => b <= f[z] /\ f[z] < e
  <2>1. SUFFICES ASSUME NEW z \in 1 .. Len(s)
                 PROVE  /\ z < b \/ e <= z => f[z] = z
                        /\ b <= z /\ z < e => b <= f[z] /\ f[z] < e
    OBVIOUS
  <2>2. z < b \/ e <= z => f[z] = z
    BY <1>3 DEF Rearranges
  <2>3. ASSUME b <= z, z < e PROVE b <= f[z] /\ f[z] < e
    <3>1. SUFFICES ASSUME f[z] < b \/ e <= f[z] PROVE FALSE
      OBVIOUS
    <3>2. f[f[z]] = f[z] /\ f[z] \in 1 .. Len(s)
      BY <1>3, <3>1 DEF Rearranges
    <3>3. f[z] = z
      BY <1>3, <3>2 DEF Rearranges
    <3> QED BY <3>1, <3>3, <2>3
  <2> QED BY <2>2, <2>3
<1>6. f[x] < p /\ p <= f[y]
  BY <1>1, <1>2, <1>4, <1>5
<1> QED BY <1>4, <1>6 DEF Divided

\* partitionPivot adds its own cut to those at the ends of the range.
LEMMA PartedDivided ==
  ASSUME NEW c \in QuickselectCall, NEW i \in c.b .. c.e - 1,
         Divided(c.s, c.b), Divided(c.s, c.e)
  PROVE  /\ Divided(Parted(c, i).s, c.b) /\ Divided(Parted(c, i).s, c.e)
         /\ Divided(Parted(c, i).s, Parted(c, i).cut)
<1> DEFINE t == Parted(c, i).s
<1> DEFINE cut == Parted(c, i).cut
<1>1. /\ c.s \in Elements /\ Len(c.s) \in Nat
      /\ c.b \in Nat /\ 1 <= c.b /\ c.e \in Nat /\ c.b <= c.e /\ c.e <= Len(c.s) + 1
  BY QuickselectCallType
<1>2. Rearranged(c.s, t, c.b, c.e) /\ cut \in c.b .. c.e - 1
  BY PivotedIsCall
<1>3. PICK v \in Int : /\ \A x \in c.b .. cut - 1 : t[x].value <= v
                       /\ \A x \in cut .. c.e - 1 : v <= t[x].value
  BY PivotedIsCall
<1> HIDE DEF t, cut
<1>4. Divided(t, c.b) /\ Divided(t, c.e)
  BY <1>1, <1>2, RearrangedDivided
<1>5. t \in Elements /\ Len(t) = Len(c.s)
  BY <1>2 DEF Rearranged
<1>6. ASSUME NEW x \in 1 .. Len(t), NEW y \in 1 .. Len(t), x < cut, cut <= y
      PROVE  t[x].value <= t[y].value
  <2>1. t[x].value \in Int /\ t[y].value \in Int
    BY <1>5, ElementsType
  <2>2. CASE x < c.b
    BY <2>2, <1>1, <1>2, <1>4, <1>6 DEF Divided
  <2>3. CASE c.e <= y
    BY <2>3, <1>1, <1>2, <1>4, <1>6 DEF Divided
  <2>4. CASE c.b <= x /\ y < c.e
    <3>1. x \in c.b .. cut - 1 /\ y \in cut .. c.e - 1
      BY <2>4, <1>1, <1>2, <1>6
    <3> QED BY <3>1, <2>1, <1>3
  <2> QED BY <2>2, <2>3, <2>4, <1>1
<1> QED BY <1>4, <1>6 DEF Divided, t, cut

\* What quickselect does: it rearranges b .. e-1, and puts the element of rank k
\* where it belongs, none larger before it and none smaller after it.
Quickselected(c, t) ==
  /\ Rearranged(c.s, t, c.b, c.e)
  /\ 0 <= c.k /\ c.k < c.e - c.b /\ Divided(c.s, c.b) /\ Divided(c.s, c.e)
       => Divided(t, c.b + c.k + 1)

\* quickselect(k), whatever its pivots: the elements of its range are
\* rearranged so that none of the first k + 1 is greater than one of the rest.
LEMMA QuickselectCorrect ==
  ASSUME NEW c \in QuickselectCall, NEW t \in quickselect[c]
  PROVE  Quickselected(c, t)
<1> DEFINE A == {k \in Nat : \A d \in QuickselectCall : d.e - d.b < k =>
                               \A u \in quickselect[d] : Quickselected(d, u)}
<1>1. 0 \in A
  <2>1. ASSUME NEW d \in QuickselectCall PROVE ~(d.e - d.b < 0)
    BY QuickselectCallType
  <2> QED BY <2>1
<1>2. ASSUME NEW k \in Nat, k \in A PROVE k + 1 \in A
  <2>1. SUFFICES ASSUME NEW d \in QuickselectCall, d.e - d.b < k + 1, NEW u \in quickselect[d]
                 PROVE  Quickselected(d, u)
    OBVIOUS
  <2>2. /\ d.s \in Elements /\ Len(d.s) \in Nat
        /\ d.b \in Nat /\ 1 <= d.b /\ d.e \in Nat /\ d.b <= d.e /\ d.e <= Len(d.s) + 1
        /\ d.k \in Int
    BY QuickselectCallType
  <2>3. CASE d.e - d.b <= 1
    <3>1. u = d.s
      BY <2>3, QuickselectDef
    <3>2. Rearranged(d.s, u, d.b, d.e)
      BY <3>1, <2>2, RearrangedReflexive
    <3>3. 0 <= d.k /\ d.k < d.e - d.b => d.b + d.k + 1 = d.e
      BY <2>2, <2>3
    <3> QED BY <3>1, <3>2, <3>3 DEF Quickselected
  <2>4. CASE ~(d.e - d.b <= 1)
    <3>1. u \in UNION {Selects(quickselect, d, i) : i \in d.b .. d.e - 1}
      BY <2>4, QuickselectDef
    <3>2. PICK i \in d.b .. d.e - 1 : u \in Selects(quickselect, d, i)
      BY <3>1
    <3> DEFINE s == Parted(d, i).s
    <3> DEFINE cut == Parted(d, i).cut
    <3>3. Rearranged(d.s, s, d.b, d.e) /\ cut \in d.b .. d.e - 1
      BY PivotedIsCall
    <3>4. Divided(d.s, d.b) /\ Divided(d.s, d.e)
            => Divided(s, d.b) /\ Divided(s, d.e) /\ Divided(s, cut)
      BY PartedDivided
    <3>5. CASE cut - d.b > d.k
      <4> DEFINE l == Lower(d, i)
      <4>1. u \in quickselect[l]
        BY <3>2, <3>5 DEF Selects
      <4>2. l \in QuickselectCall /\ l.s = s /\ l.b = d.b /\ l.e = cut /\ l.k = d.k
            /\ l.e - l.b < d.e - d.b
        BY PartsAreCalls
      <4> HIDE DEF l, s, cut
      <4>3. l.e - l.b < k
        BY <4>2, <2>1, <2>2, <3>3
      <4>4. Quickselected(l, u)
        BY <4>1, <4>2, <4>3, <1>2
      <4>5. Rearranged(s, u, d.b, cut)
        BY <4>2, <4>4 DEF Quickselected
      <4>6. Rearranged(d.s, u, d.b, d.e)
        BY <4>5, <3>3, <2>2, RearrangedTransitive
      <4>7. 0 <= d.k /\ Divided(s, d.b) /\ Divided(s, cut) => Divided(u, d.b + d.k + 1)
        <5>1. d.k < cut - d.b
          BY <3>3, <3>5, <2>2
        <5> QED BY <4>2, <4>4, <5>1 DEF Quickselected
      <4> QED BY <4>6, <4>7, <3>4 DEF Quickselected
    <3>6. CASE ~(cut - d.b > d.k)
      <4> DEFINE l == Upper(d, i)
      <4>1. cut # d.b /\ u \in quickselect[l]
        BY <3>2, <3>6 DEF Selects
      <4>2. l \in QuickselectCall /\ l.s = s /\ l.b = cut /\ l.e = d.e /\ l.k = d.k - (cut - d.b)
            /\ l.e - l.b < d.e - d.b
        BY <4>1, PartsAreCalls
      <4> HIDE DEF l, s, cut
      <4>3. l.e - l.b < k
        BY <4>2, <2>1, <2>2, <3>3
      <4>4. Quickselected(l, u)
        BY <4>1, <4>2, <4>3, <1>2
      <4>5. Rearranged(s, u, cut, d.e)
        BY <4>2, <4>4 DEF Quickselected
      <4>6. Rearranged(d.s, u, d.b, d.e)
        BY <4>5, <3>3, <2>2, RearrangedTransitive
      <4>7. d.k < d.e - d.b /\ Divided(s, cut) /\ Divided(s, d.e) => Divided(u, d.b + d.k + 1)
        <5>1. 0 <= l.k /\ (d.k < d.e - d.b => l.k < l.e - l.b) /\ l.b + l.k + 1 = d.b + d.k + 1
          BY <4>2, <3>3, <3>6, <2>2, SMTT(30)
        <5> QED BY <4>2, <4>4, <5>1 DEF Quickselected
      <4> QED BY <4>6, <4>7, <3>4 DEF Quickselected
    <3> QED BY <3>5, <3>6
  <2> QED BY <2>3, <2>4
<1>3. Nat \subseteq A
  <2> HIDE DEF A
  <2> QED BY <1>1, <1>2, NatSetInduction
<1>4. (c.e - c.b) + 1 \in Nat /\ c.e - c.b < (c.e - c.b) + 1
  BY QuickselectCallType
<1> QED BY <1>3, <1>4

\* Some pivot divides: with the second element as pivot the lower part is not
\* empty, so that no range is drawn for in vain again and again.
LEMMA SecondDivides ==
  ASSUME NEW c \in QuickselectCall, c.e - c.b > 1
  PROVE  c.b + 1 \in c.b .. c.e - 1 /\ Parted(c, c.b + 1).cut # c.b
<1> DEFINE i == c.b + 1
<1> DEFINE p == Pivoted(c, i)
<1>1. /\ c.s \in Elements /\ Len(c.s) \in Nat
      /\ c.b \in Nat /\ 1 <= c.b /\ c.e \in Nat /\ c.b <= c.e /\ c.e <= Len(c.s) + 1
  BY QuickselectCallType
<1>2. i \in c.b .. c.e - 1 /\ i \in Nat
  BY <1>1
<1>3. p \in PartitionCall
  BY <1>2, PivotedIsCall
<1>4. p.s = c.s /\ p.b = c.b /\ p.e = c.e /\ p.pivot = c.s[i].value
  BY DEF Pivoted
<1>5. Parted(c, i) = partitionPivot[p]
  BY DEF Parted
<1> HIDE DEF p
<1>6. /\ Left(p) \in c.b .. c.e
      /\ Right(p) \in c.b - 1 .. c.e - 1
      /\ \A x \in Right(p) + 1 .. c.e - 1 : p.pivot < p.s[x].value
  BY <1>3, <1>4, Scans
<1>7. p.pivot \in Int
  BY <1>3, PartitionCallType
<1>8. i <= Right(p)
  <2>1. SUFFICES ASSUME ~(i <= Right(p)) PROVE FALSE
    OBVIOUS
  <2>2. i \in Right(p) + 1 .. c.e - 1
    BY <1>1, <1>2, <1>6, <2>1
  <2> QED BY <2>2, <1>4, <1>6, <1>7
<1>9. CASE Left(p) < Right(p)
  <2>1. Rest(p) \in PartitionCall /\ Rest(p).b = Left(p) + 1
    BY <1>3, <1>9, RestIsCall
  <2>2. partitionPivot[p] = partitionPivot[Rest(p)]
    BY <1>3, <1>9, PartitionDef
  <2>3. partitionPivot[Rest(p)].cut \in Rest(p).b .. Rest(p).e
    BY <2>1, PartitionCorrect DEF Partitions
  <2>4. partitionPivot[Rest(p)].cut > Left(p)
    BY <2>1, <2>3, <1>1, <1>6, PartitionCallType
  <2> QED BY <2>2, <2>4, <1>1, <1>2, <1>5, <1>6
<1>10. CASE ~(Left(p) < Right(p))
  <2>0. partitionPivot[p] = [s |-> p.s, cut |-> Left(p)]
    BY <1>3, <1>10, PartitionDef, Zenon
  <2>1. partitionPivot[p].cut = Left(p)
    BY <2>0
  <2> QED BY <2>1, <1>1, <1>2, <1>5, <1>6, <1>8, <1>10
<1> QED BY <1>9, <1>10

\* quickselect has a result, whatever range it is called for.
LEMMA QuickselectReturns ==
  ASSUME NEW c \in QuickselectCall
  PROVE  quickselect[c] # {}
<1> DEFINE A == {k \in Nat : \A d \in QuickselectCall : d.e - d.b < k => quickselect[d] # {}}
<1>1. 0 \in A
  <2>1. ASSUME NEW d \in QuickselectCall PROVE ~(d.e - d.b < 0)
    BY QuickselectCallType
  <2> QED BY <2>1
<1>2. ASSUME NEW k \in Nat, k \in A PROVE k + 1 \in A
  <2>1. SUFFICES ASSUME NEW d \in QuickselectCall, d.e - d.b < k + 1 PROVE quickselect[d] # {}
    OBVIOUS
  <2>2. d.b \in Nat /\ d.e \in Nat
    BY QuickselectCallType
  <2>3. CASE d.e - d.b <= 1
    <3>1. quickselect[d] = {d.s}
      BY <2>3, QuickselectDef
    <3> QED BY <3>1
  <2>4. CASE ~(d.e - d.b <= 1)
    <3> DEFINE i == d.b + 1
    <3>1. i \in d.b .. d.e - 1 /\ Parted(d, i).cut # d.b
      BY <2>2, <2>4, SecondDivides
    <3> HIDE DEF i
    <3>2. /\ Lower(d, i) \in QuickselectCall /\ Lower(d, i).e - Lower(d, i).b < d.e - d.b
          /\ Upper(d, i) \in QuickselectCall /\ Upper(d, i).e - Upper(d, i).b < d.e - d.b
      BY <3>1, PartsAreCalls
    <3>3. \A l \in QuickselectCall : l.e - l.b \in Int
      BY QuickselectCallType
    <3>4. Lower(d, i).e - Lower(d, i).b < k /\ Upper(d, i).e - Upper(d, i).b < k
      BY <2>1, <2>2, <3>2, <3>3
    <3>5. quickselect[Lower(d, i)] # {} /\ quickselect[Upper(d, i)] # {}
      BY <3>2, <3>4, <1>2
    <3>6. Selects(quickselect, d, i) # {}
      BY <3>1, <3>5 DEF Selects
    <3>7. quickselect[d] = UNION {Selects(quickselect, d, x) : x \in d.b .. d.e - 1}
      BY <2>4, QuickselectDef
    <3> QED BY <3>1, <3>6, <3>7
  <2> QED BY <2>3, <2>4
<1>3. Nat \subseteq A
  <2> HIDE DEF A
  <2> QED BY <1>1, <1>2, NatSetInduction
<1>4. (c.e - c.b) + 1 \in Nat /\ c.e - c.b < (c.e - c.b) + 1
  BY QuickselectCallType
<1> QED BY <1>3, <1>4

-----------------------------------------------------------------------------
(* median_split. *)

\* Runs that are sorted, and rows within them.
SortedRuns(runs) == runs \in RunSet /\ \A j \in Pakets : Ascending(runs[j])
Within(runs, row) == row \in Row /\ \A j \in Pakets : row[j] <= Len(runs[j])

\* A row that cuts the runs at v: none larger below it and none smaller above.
CutAt(runs, row, v) ==
  \A j \in Pakets : \A x \in 1 .. Len(runs[j]) :
    /\ x <= row[j] => runs[j][x] <= v
    /\ row[j] < x => v <= runs[j][x]

\* A row that cuts the runs.
Cut(runs, row) ==
  \A j, m \in Pakets : \A x \in 1 .. Len(runs[j]), y \in 1 .. Len(runs[m]) :
    x <= row[j] /\ row[m] < y => runs[j][x] <= runs[m][y]

LEMMA RunsType ==
  ASSUME NEW runs \in RunSet, NEW j \in Pakets
  PROVE  /\ runs[j] \in Seq(Values) /\ Len(runs[j]) \in Nat
         /\ \A x \in 1 .. Len(runs[j]) : runs[j][x] \in Values /\ runs[j][x] \in Int
<1>1. runs[j] \in Seq(Values)
  BY DEF RunSet
<1>2. Len(runs[j]) \in Nat /\ \A x \in 1 .. Len(runs[j]) : runs[j][x] \in Values
  BY <1>1
<1> QED BY <1>1, <1>2, SplittingAssumption

\* A row that separates the runs at some value is a cut of all of them.
LEMMA CutAtCuts ==
  ASSUME NEW runs \in RunSet, NEW row, NEW v \in Int, CutAt(runs, row, v)
  PROVE  Cut(runs, row)
<1>1. SUFFICES ASSUME NEW j \in Pakets, NEW m \in Pakets,
                      NEW x \in 1 .. Len(runs[j]), NEW y \in 1 .. Len(runs[m]),
                      x <= row[j], row[m] < y
               PROVE  runs[j][x] <= runs[m][y]
  BY DEF Cut
<1>2. runs[j][x] \in Int /\ runs[m][y] \in Int
  BY RunsType
<1>3. runs[j][x] <= v /\ v <= runs[m][y]
  BY <1>1 DEF CutAt
<1> QED BY <1>2, <1>3

\* std::lower_bound.
LEMMA LowerBoundDef ==
  ASSUME NEW run \in Seq(Int), Ascending(run), NEW from \in Nat, NEW to \in Nat,
         from <= to, to <= Len(run), NEW v \in Int
  PROVE  /\ LowerBound(run, from, to, v) \in from .. to
         /\ \A i \in from + 1 .. LowerBound(run, from, to, v) : run[i] < v
         /\ \A i \in LowerBound(run, from, to, v) + 1 .. to : v <= run[i]
<1> DEFINE S == {i \in from + 1 .. to : run[i] < v}
<1>1. Len(run) \in Nat /\ \A x \in 1 .. Len(run) : run[x] \in Int
  OBVIOUS
<1>2. S \in SUBSET (1 .. to) /\ \A x \in S : x \in from + 1 .. to /\ run[x] < v
  OBVIOUS
<1>3. \E h \in from .. to : S = from + 1 .. h
  <2>1. CASE S = {}
    <3>1. from \in from .. to /\ from + 1 .. from = {}
      OBVIOUS
    <3> QED BY <2>1, <3>1
  <2>2. CASE S # {}
    <3>1. PICK h \in S : \A y \in S : y <= h
      <4>1. Max(S) \in S /\ \A y \in S : y <= Max(S)
        BY <1>2, <2>2, MaxPosition
      <4> QED BY <4>1
    <3>2. h \in from + 1 .. to /\ run[h] < v
      BY <1>2, <3>1
    <3>3. ASSUME NEW x \in from + 1 .. h PROVE x \in S
      <4>1. x \in 1 .. Len(run) /\ h \in 1 .. Len(run) /\ x <= h /\ x \in from + 1 .. to
        BY <1>1, <3>2
      <4>2. run[x] <= run[h] /\ run[x] \in Int /\ run[h] \in Int
        BY <4>1, <1>1 DEF Ascending
      <4> QED BY <4>1, <4>2, <3>2
    <3>4. S = from + 1 .. h
      BY <3>1, <3>3, <1>2
    <3> QED BY <3>2, <3>4
  <2> QED BY <2>1, <2>2
<1>4. PICK h \in from .. to : S = from + 1 .. h
  BY <1>3
<1>5. Cardinality(from + 1 .. h) = h - from
  <2>1. from + 1 \in Int /\ h \in Int /\ from + 1 <= h + 1
    OBVIOUS
  <2>2. Cardinality(from + 1 .. h) = IF from + 1 > h THEN 0 ELSE h - (from + 1) + 1
    BY <2>1, FS_Interval
  <2> QED BY <2>1, <2>2
<1>6. LowerBound(run, from, to, v) = h
  <2>1. LowerBound(run, from, to, v) = from + Cardinality(S)
    BY Zenon DEF LowerBound
  <2>2. Cardinality(S) = h - from
    BY <1>4, <1>5, Zenon
  <2> QED BY <2>1, <2>2
<1>7. \A i \in from + 1 .. h : run[i] < v
  BY <1>4
<1>8. ASSUME NEW i \in h + 1 .. to PROVE v <= run[i]
  <2>1. i \in from + 1 .. to /\ i \notin S /\ i \in 1 .. Len(run)
    BY <1>1, <1>4, SMTT(30)
  <2> QED BY <2>1, <1>1
<1> QED BY <1>6, <1>7, <1>8

\* A reduction of a split at prefix_size: what has been decided is right, and
\* what is left to decide is between two rows that cut the runs.
Narrowed(runs, prefix_size, r) ==
  /\ r \in Reduction
  /\ Within(runs, r.last) /\ \A j \in Pakets : r.first[j] <= r.last[j]
  /\ r.N = Total(r.last) - Total(r.first)
  /\ Total(r.first) + r.prefix = prefix_size
  /\ 0 <= r.prefix /\ r.prefix <= r.N
  /\ Cut(runs, r.first) /\ Cut(runs, r.last)

LEMMA ReductionType ==
  ASSUME NEW r \in Reduction
  PROVE  /\ r.first \in Row /\ r.last \in Row /\ r.prefix \in Int /\ r.N \in Int
         /\ \A j \in Pakets : r.first[j] \in Nat /\ r.last[j] \in Nat
BY DEF Reduction, Row

LEMMA TotalType ==
  ASSUME NEW row \in Differences
  PROVE  Total(row) \in Int
BY SumsDef, PaketsType DEF Total

LEMMA RowType ==
  ASSUME NEW row \in Row
  PROVE  row \in Differences /\ \A j \in Pakets : row[j] \in Nat
BY DEF Row, Differences

\* The splitters of median_split cut the runs at the median, between the rows
\* it is given.
LEMMA CurrentCuts ==
  ASSUME NEW runs, SortedRuns(runs), NEW prefix_size, NEW r, Narrowed(runs, prefix_size, r),
         NEW pick \in Nonempty(r)
  PROVE  /\ Current(runs, r, pick) \in Row
         /\ \A j \in Pakets : /\ r.first[j] <= Current(runs, r, pick)[j]
                              /\ Current(runs, r, pick)[j] <= r.last[j]
         /\ Cut(runs, Current(runs, r, pick))
<1> DEFINE M == Median(r)
<1> DEFINE current == Current(runs, r, pick)
<1> DEFINE median == runs[pick][M[pick] + 1]
<1>1. runs \in RunSet /\ \A j \in Pakets : Ascending(runs[j])
  BY DEF SortedRuns
<1>2. /\ r \in Reduction
      /\ \A j \in Pakets : /\ r.first[j] \in Nat /\ r.last[j] \in Nat
                           /\ r.first[j] <= r.last[j] /\ r.last[j] <= Len(runs[j])
  BY ReductionType DEF Narrowed, Within
<1>3. Cut(runs, r.first) /\ Cut(runs, r.last)
  BY DEF Narrowed
<1>4. \A j \in Pakets : /\ M[j] \in Nat /\ r.first[j] <= M[j] /\ M[j] <= r.last[j]
                        /\ j \in Nonempty(r) => M[j] + 1 <= r.last[j]
                        /\ j \notin Nonempty(r) => M[j] = r.first[j] /\ M[j] = r.last[j]
  <2>1. SUFFICES ASSUME NEW j \in Pakets
                 PROVE  /\ M[j] \in Nat /\ r.first[j] <= M[j] /\ M[j] <= r.last[j]
                        /\ r.first[j] # r.last[j] => M[j] + 1 <= r.last[j]
                        /\ r.first[j] = r.last[j] => M[j] = r.first[j]
    BY DEF Nonempty
  <2>2. M[j] = r.first[j] + (r.last[j] - r.first[j]) \div 2
    BY DEF Median
  <2> DEFINE d == r.last[j] - r.first[j]
  <2>3. d \in Nat /\ r.last[j] = r.first[j] + d /\ r.first[j] \in Nat
    BY <1>2
  <2>4. d \div 2 \in Nat /\ d \div 2 <= d /\ (d # 0 => d \div 2 + 1 <= d)
    <3> HIDE DEF d
    <3> QED BY <2>3
  <2>5. M[j] = r.first[j] + (d \div 2)
    BY <2>2
  <2> HIDE DEF d, M
  <2> QED BY <2>3, <2>4, <2>5
<1>5. pick \in Pakets
  BY DEF Nonempty
<1>6. /\ M[pick] + 1 \in 1 .. Len(runs[pick])
      /\ r.first[pick] < M[pick] + 1 /\ M[pick] + 1 <= r.last[pick]
  <2>1. Len(runs[pick]) \in Nat
    BY <1>1, <1>5, RunsType
  <2> QED BY <2>1, <1>2, <1>4, <1>5
<1>7. median \in Int
  BY <1>1, <1>5, <1>6, RunsType
<1>8. current = [j \in Pakets |->
                   IF j = pick \/ j \notin Nonempty(r) \/ runs[j][M[j] + 1] = median
                   THEN M[j]
                   ELSE IF runs[j][M[j] + 1] < median
                        THEN LowerBound(runs[j], M[j], r.last[j], median)
                        ELSE LowerBound(runs[j], r.first[j], M[j], median)]
  BY Zenon DEF Current
<1> HIDE DEF M, current, median
<1>9. ASSUME NEW j \in Pakets
      PROVE  /\ current[j] \in Nat /\ r.first[j] <= current[j] /\ current[j] <= r.last[j]
             /\ \A x \in 1 .. Len(runs[j]) : /\ x <= current[j] => runs[j][x] <= median
                                             /\ current[j] < x => median <= runs[j][x]
  <2> DEFINE run == runs[j]
  <2>1. /\ run \in Seq(Int) /\ Len(run) \in Nat /\ Ascending(run)
        /\ \A x \in 1 .. Len(run) : run[x] \in Int
    <3>1. run \in Seq(Values) /\ Len(run) \in Nat /\ \A x \in 1 .. Len(run) : run[x] \in Int
      BY <1>1, RunsType
    <3>2. run \in Seq(Int)
      BY <3>1, IntSequence, SplittingAssumption
    <3> QED BY <3>1, <3>2, <1>1
  <2>2. \A x \in 1 .. Len(run) : /\ x <= r.first[j] => run[x] <= median
                                 /\ r.last[j] < x => median <= run[x]
    BY <1>3, <1>5, <1>6 DEF Cut, median
  <2>3. \A x, y \in 1 .. Len(run) : x <= y => run[x] <= run[y]
    BY <2>1 DEF Ascending
  <2> HIDE DEF run
  <2>4. CASE j \notin Nonempty(r)
    <3>1. current[j] = M[j]
      BY <1>8, <2>4
    <3> QED BY <3>1, <2>2, <2>4, <1>2, <1>4 DEF run
  <2>5. CASE j \in Nonempty(r) /\ run[M[j] + 1] = median
    <3>1. current[j] = M[j]
      BY <1>8, <2>5 DEF run
    <3>2. M[j] + 1 \in 1 .. Len(run)
      BY <1>2, <1>4, <2>1, <2>5 DEF run
    <3>3. \A x \in 1 .. Len(run) : /\ x <= M[j] => run[x] <= median
                                   /\ M[j] < x => median <= run[x]
      BY <3>2, <2>3, <2>5, <1>4
    <3> QED BY <3>1, <3>3, <1>2, <1>4 DEF run
  <2>6. CASE j \in Nonempty(r) /\ run[M[j] + 1] < median
    <3>1. j # pick
      BY <2>6, <1>7 DEF run, median
    <3>2. current[j] = LowerBound(run, M[j], r.last[j], median)
      BY <1>7, <1>8, <2>6, <3>1 DEF run
    <3>3. M[j] + 1 \in 1 .. Len(run) /\ run[M[j] + 1] \in Int
      BY <1>2, <1>4, <2>1, <2>6, SMTT(30) DEF run
    <3>4. /\ M[j] \in Nat /\ r.last[j] \in Nat /\ M[j] <= r.last[j] /\ r.last[j] <= Len(run)
          /\ r.first[j] <= M[j] /\ r.first[j] \in Nat
      BY <1>2, <1>4 DEF run
    <3>5. /\ current[j] \in M[j] .. r.last[j]
          /\ \A x \in M[j] + 1 .. current[j] : run[x] < median
          /\ \A x \in current[j] + 1 .. r.last[j] : median <= run[x]
      <4> DEFINE to == r.last[j]
      <4> DEFINE from == M[j]
      <4>1. from \in Nat /\ to \in Nat /\ from <= to /\ to <= Len(run) /\ run \in Seq(Int)
        BY <3>4, <2>1
      <4> HIDE DEF to, from
      <4>2. /\ LowerBound(run, from, to, median) \in from .. to
            /\ \A x \in from + 1 .. LowerBound(run, from, to, median) : run[x] < median
            /\ \A x \in LowerBound(run, from, to, median) + 1 .. to : median <= run[x]
        BY <4>1, <2>1, <1>7, LowerBoundDef
      <4> QED BY <3>2, <4>2 DEF to, from
    <3>6. ASSUME NEW x \in 1 .. Len(run), x <= current[j] PROVE run[x] <= median
      <4>1. CASE x <= M[j]
        <5>1. run[x] <= run[M[j] + 1] /\ run[x] \in Int
          <6>1. x <= M[j] + 1
            BY <4>1, <3>4
          <6> QED BY <6>1, <3>3, <2>1, <2>3, Zenon
        <5> QED BY <5>1, <3>3, <2>6, <1>7
      <4>2. CASE M[j] < x
        <5>1. run[x] < median /\ run[x] \in Int
          BY <4>2, <3>4, <3>5, <3>6, <2>1
        <5> QED BY <5>1, <1>7
      <4> QED BY <4>1, <4>2, <3>4
    <3>7. ASSUME NEW x \in 1 .. Len(run), current[j] < x PROVE median <= run[x]
      <4>1. x \in current[j] + 1 .. r.last[j] \/ r.last[j] < x
        BY <3>4, <3>5, <3>7
      <4> QED BY <4>1, <3>5, <2>2
    <3>8. current[j] \in Nat /\ r.first[j] <= current[j] /\ current[j] <= r.last[j]
      BY <3>4, <3>5
    <3> QED BY <3>6, <3>7, <3>8 DEF run
  <2>7. CASE j \in Nonempty(r) /\ median < run[M[j] + 1]
    <3>1. j # pick
      BY <2>7, <1>7 DEF run, median
    <3>3. M[j] + 1 \in 1 .. Len(run) /\ run[M[j] + 1] \in Int
      BY <1>2, <1>4, <2>1, <2>7 DEF run
    <3>2. current[j] = LowerBound(run, r.first[j], M[j], median)
      <4>1. ~(run[M[j] + 1] = median) /\ ~(run[M[j] + 1] < median)
        BY <3>3, <2>7, <1>7
      <4> QED BY <4>1, <1>8, <2>7, <3>1 DEF run
    <3>4. /\ M[j] \in Nat /\ r.last[j] \in Nat /\ M[j] <= r.last[j] /\ M[j] <= Len(run)
          /\ r.first[j] <= M[j] /\ r.first[j] \in Nat
      BY <1>2, <1>4, <2>1 DEF run
    <3>5. /\ current[j] \in r.first[j] .. M[j]
          /\ \A x \in r.first[j] + 1 .. current[j] : run[x] < median
          /\ \A x \in current[j] + 1 .. M[j] : median <= run[x]
      <4> DEFINE from == r.first[j]
      <4> DEFINE to == M[j]
      <4>1. from \in Nat /\ to \in Nat /\ from <= to /\ to <= Len(run) /\ run \in Seq(Int)
        BY <3>4, <2>1
      <4> HIDE DEF to, from
      <4>2. /\ LowerBound(run, from, to, median) \in from .. to
            /\ \A x \in from + 1 .. LowerBound(run, from, to, median) : run[x] < median
            /\ \A x \in LowerBound(run, from, to, median) + 1 .. to : median <= run[x]
        BY <4>1, <2>1, <1>7, LowerBoundDef
      <4> QED BY <3>2, <4>2 DEF to, from
    <3>6. ASSUME NEW x \in 1 .. Len(run), x <= current[j] PROVE run[x] <= median
      <4>1. CASE x <= r.first[j]
        BY <4>1, <2>2
      <4>2. CASE r.first[j] < x
        <5>1. run[x] < median /\ run[x] \in Int
          BY <4>2, <3>4, <3>5, <3>6, <2>1
        <5> QED BY <5>1, <1>7
      <4> QED BY <4>1, <4>2, <3>4
    <3>7. ASSUME NEW x \in 1 .. Len(run), current[j] < x PROVE median <= run[x]
      <4>1. CASE x <= M[j]
        BY <4>1, <3>4, <3>5, <3>7
      <4>2. CASE M[j] < x
        <5>1. run[M[j] + 1] <= run[x] /\ run[x] \in Int
          BY <4>2, <3>3, <3>4, <2>1, <2>3
        <5> QED BY <5>1, <3>3, <2>7, <1>7
      <4> QED BY <4>1, <4>2, <3>4
    <3>8. current[j] \in Nat /\ r.first[j] <= current[j] /\ current[j] <= r.last[j]
      BY <3>4, <3>5
    <3> QED BY <3>6, <3>7, <3>8 DEF run
  <2>8. j \in Nonempty(r) => run[M[j] + 1] \in Int
    <3>1. j \in Nonempty(r) => M[j] + 1 \in 1 .. Len(run)
      BY <1>2, <1>4, <2>1 DEF run
    <3> QED BY <3>1, <2>1
  <2> QED BY <2>4, <2>5, <2>6, <2>7, <2>8, <1>7
<1>10. current \in Row
  <2>1. DOMAIN current = Pakets
    BY <1>8, Zenon
  <2>2. current = [j \in Pakets |-> current[j]]
    BY <1>8
  <2> QED BY <2>1, <2>2, <1>9 DEF Row
<1>11. CutAt(runs, current, median)
  BY <1>9 DEF CutAt
<1> QED BY <1>1, <1>7, <1>9, <1>10, <1>11, CutAtCuts DEF current

\* median_split keeps a reduction right.
LEMMA MedianSplitNarrows ==
  ASSUME NEW runs, SortedRuns(runs), NEW prefix_size \in Int, NEW r,
         Narrowed(runs, prefix_size, r), NEW t \in median_split(runs, r)
  PROVE  Narrowed(runs, prefix_size, t)
<1>1. PICK pick \in Picks(runs, r) : t = Narrow(r, Current(runs, r, pick))
  BY DEF median_split
<1>2. pick \in Nonempty(r)
  BY DEF Picks
<1> DEFINE c == Current(runs, r, pick)
<1>3. /\ c \in Row /\ Cut(runs, c)
      /\ \A j \in Pakets : r.first[j] <= c[j] /\ c[j] <= r.last[j]
  BY <1>2, CurrentCuts
<1>4. t = IF Total(c) - Total(r.first) < r.prefix
          THEN [r EXCEPT !.first = c, !.prefix = r.prefix - (Total(c) - Total(r.first)),
                         !.N = r.N - (Total(c) - Total(r.first))]
          ELSE [r EXCEPT !.last = c, !.N = Total(c) - Total(r.first)]
  BY <1>1 DEF Narrow
<1> HIDE DEF c
<1>5. /\ r \in Reduction
      /\ Within(runs, r.last) /\ \A j \in Pakets : r.first[j] <= r.last[j]
      /\ r.N = Total(r.last) - Total(r.first)
      /\ Total(r.first) + r.prefix = prefix_size
      /\ 0 <= r.prefix /\ r.prefix <= r.N
      /\ Cut(runs, r.first) /\ Cut(runs, r.last)
  BY DEF Narrowed
<1>6. /\ r.first \in Row /\ r.last \in Row /\ r.prefix \in Int /\ r.N \in Int
      /\ \A j \in Pakets : r.first[j] \in Nat /\ r.last[j] \in Nat
  BY <1>5, ReductionType
<1>7. r.first \in Differences /\ r.last \in Differences /\ c \in Differences
      /\ \A j \in Pakets : c[j] \in Nat
  BY <1>3, <1>6, RowType
<1>8. Total(r.first) \in Int /\ Total(r.last) \in Int /\ Total(c) \in Int
  BY <1>7, TotalType
<1>9. Total(r.first) <= Total(c) /\ Total(c) <= Total(r.last)
  BY <1>3, <1>7, SumsLeq, PaketsType DEF Total
<1>10. CASE Total(c) - Total(r.first) < r.prefix
  <2>1. t = [first |-> c, last |-> r.last, prefix |-> r.prefix - (Total(c) - Total(r.first)),
             N |-> r.N - (Total(c) - Total(r.first))]
    BY <1>4, <1>5, <1>10 DEF Reduction
  <2>2. /\ t.first = c /\ t.last = r.last /\ t.prefix = r.prefix - (Total(c) - Total(r.first))
        /\ t.N = r.N - (Total(c) - Total(r.first))
    BY <2>1
  <2>3. t \in Reduction
    BY <2>1, <1>3, <1>6, <1>8 DEF Reduction
  <2>4. /\ t.N = Total(t.last) - Total(t.first) /\ Total(t.first) + t.prefix = prefix_size
        /\ 0 <= t.prefix /\ t.prefix <= t.N
    BY <2>2, <1>5, <1>6, <1>8, <1>9, <1>10
  <2> QED BY <2>2, <2>3, <2>4, <1>3, <1>5 DEF Narrowed
<1>11. CASE ~(Total(c) - Total(r.first) < r.prefix)
  <2>1. t = [first |-> r.first, last |-> c, prefix |-> r.prefix, N |-> Total(c) - Total(r.first)]
    BY <1>4, <1>5, <1>11 DEF Reduction
  <2>2. /\ t.first = r.first /\ t.last = c /\ t.prefix = r.prefix
        /\ t.N = Total(c) - Total(r.first)
    BY <2>1
  <2>3. t \in Reduction
    BY <2>1, <1>3, <1>6, <1>8 DEF Reduction
  <2>4. /\ t.N = Total(t.last) - Total(t.first) /\ Total(t.first) + t.prefix = prefix_size
        /\ 0 <= t.prefix /\ t.prefix <= t.N
    BY <2>2, <1>5, <1>6, <1>8, <1>9, <1>11
  <2>5. Within(runs, c)
    <3>1. runs \in RunSet
      BY DEF SortedRuns
    <3>2. \A j \in Pakets : Len(runs[j]) \in Nat
      BY <3>1, RunsType
    <3> QED BY <3>2, <1>3, <1>5, <1>6, <1>7 DEF Within
  <2> QED BY <2>2, <2>3, <2>4, <2>5, <1>3, <1>5 DEF Narrowed
<1> QED BY <1>10, <1>11

-----------------------------------------------------------------------------
(* The loop of reduce_split. *)

\* Counting on an interval of integers.
LEMMA CountInterval ==
  ASSUME NEW a \in Int, NEW b \in Int, NEW S \in SUBSET (a .. b)
  PROVE  IsFiniteSet(S) /\ Cardinality(S) \in Nat
<1>1. IsFiniteSet(a .. b)
  BY FS_Interval
<1>2. IsFiniteSet(S)
  BY <1>1, FS_Subset
<1> QED BY <1>2, FS_CardinalityType

LEMMA MedianSplitType ==
  ASSUME NEW runs, NEW r \in Reduction
  PROVE  median_split(runs, r) \in SUBSET Reduction
<1>1. SUFFICES ASSUME NEW pick \in Picks(runs, r)
               PROVE  Narrow(r, Current(runs, r, pick)) \in Reduction
  BY DEF median_split
<1> DEFINE c == Current(runs, r, pick)
<1>2. /\ r.first \in Row /\ r.last \in Row /\ r.prefix \in Int /\ r.N \in Int
      /\ \A j \in Pakets : r.first[j] \in Nat /\ r.last[j] \in Nat
  BY ReductionType
<1>3. \A j \in Pakets : Median(r)[j] \in Nat
  <2>1. SUFFICES ASSUME NEW j \in Pakets PROVE Median(r)[j] \in Nat
    OBVIOUS
  <2>2. Median(r)[j] = r.first[j] + ((r.last[j] - r.first[j]) \div 2)
    BY DEF Median
  <2> QED BY <2>2, <1>2
<1>4. \A run, v : \A from, to \in Nat : LowerBound(run, from, to, v) \in Nat
  <2>1. SUFFICES ASSUME NEW run, NEW v, NEW from \in Nat, NEW to \in Nat
                 PROVE  LowerBound(run, from, to, v) \in Nat
    OBVIOUS
  <2> DEFINE S == {i \in from + 1 .. to : run[i] < v}
  <2>2. S \in SUBSET (from + 1 .. to) /\ from + 1 \in Int /\ to \in Int
    OBVIOUS
  <2>3. LowerBound(run, from, to, v) = from + Cardinality(S)
    BY Zenon DEF LowerBound
  <2> HIDE DEF S
  <2>4. Cardinality(S) \in Nat
    BY <2>2, CountInterval
  <2> QED BY <2>3, <2>4
<1>5. c \in Row
  <2> DEFINE median == runs[pick][Median(r)[pick] + 1]
  <2>1. c = [j \in Pakets |->
               IF j = pick \/ j \notin Nonempty(r) \/ runs[j][Median(r)[j] + 1] = median
               THEN Median(r)[j]
               ELSE IF runs[j][Median(r)[j] + 1] < median
                    THEN LowerBound(runs[j], Median(r)[j], r.last[j], median)
                    ELSE LowerBound(runs[j], r.first[j], Median(r)[j], median)]
    BY Zenon DEF Current
  <2> HIDE DEF c, median
  <2>2. \A j \in Pakets : c[j] \in Nat
    BY <2>1, <1>2, <1>3, <1>4
  <2>3. c = [j \in Pakets |-> c[j]]
    BY <2>1
  <2> QED BY <2>2, <2>3 DEF Row
<1> HIDE DEF c
<1>6. r.first \in Differences /\ c \in Differences
  BY <1>2, <1>5, RowType
<1>7. Total(c) \in Int /\ Total(r.first) \in Int
  BY <1>6, TotalType
<1> DEFINE sum_els == Total(c) - Total(r.first)
<1>8. sum_els \in Int
  BY <1>7
<1>9. Narrow(r, c) = IF sum_els < r.prefix
                     THEN [r EXCEPT !.first = c, !.prefix = r.prefix - sum_els, !.N = r.N - sum_els]
                     ELSE [r EXCEPT !.last = c, !.N = sum_els]
  BY DEF Narrow
<1> HIDE DEF sum_els
<1>10. Narrow(r, c) \in Reduction
  <2>1. [r EXCEPT !.first = c, !.prefix = r.prefix - sum_els, !.N = r.N - sum_els] \in Reduction
    <3>1. r.prefix - sum_els \in Int /\ r.N - sum_els \in Int
      BY <1>2, <1>8
    <3> QED BY <3>1, <1>5 DEF Reduction
  <2>2. [r EXCEPT !.last = c, !.N = sum_els] \in Reduction
    BY <1>5, <1>8 DEF Reduction
  <2> QED BY <2>1, <2>2, <1>9
<1> QED BY <1>10 DEF c

\* Reductions is what its definition says.
Shrunk(runs, r) == {u \in median_split(runs, r) : u.N < r.N}

\* The loop of reduce_split, one median_split at a time.
LEMMA ReductionsDef ==
  ASSUME NEW runs, NEW r \in Reduction
  PROVE  Reductions(runs)[r] =
           {r} \cup IF r.N > num_of_pakets + Slack
                    THEN UNION {Reductions(runs)[t] : t \in Shrunk(runs, r)}
                    ELSE {}
<1> DEFINE body(f, d) == {d} \cup IF d.N > num_of_pakets + Slack
                                  THEN UNION {f[t] : t \in Shrunk(runs, d)}
                                  ELSE {}
<1> DEFINE D == Reduction
<1> DEFINE V == SUBSET Reduction
<1> DEFINE m == [d \in D |-> IF d.N > num_of_pakets + Slack THEN d.N ELSE 0]
<1> DEFINE G == [f \in [D -> V] |-> [d \in D |-> body(f, d)]]
<1>0. num_of_pakets + Slack \in Nat
  BY SplittingAssumption
<1>1. m \in [D -> Nat]
  <2>1. ASSUME NEW d \in D PROVE (IF d.N > num_of_pakets + Slack THEN d.N ELSE 0) \in Nat
    BY <1>0, ReductionType
  <2> QED BY <2>1
<1>S. \A d \in D : \A t \in Shrunk(runs, d) : t \in D /\ t.N < d.N
  BY MedianSplitType DEF Shrunk
<1>2. ASSUME NEW f \in [D -> V], NEW d \in D PROVE body(f, d) \in V
  <2>1. \A t \in Shrunk(runs, d) : f[t] \in V
    BY <1>S
  <2>2. UNION {f[t] : t \in Shrunk(runs, d)} \in V
    BY <2>1
  <2> QED BY <2>2
<1>3. G \in [[D -> V] -> [D -> V]]
  <2> HIDE DEF body, D, V
  <2> QED BY <1>2
<1>4. ASSUME NEW f \in [D -> V], NEW g \in [D -> V], NEW d \in D,
             \A y \in D : m[y] < m[d] => f[y] = g[y]
      PROVE  G[f][d] = G[g][d]
  <2>1. CASE d.N > num_of_pakets + Slack
    <3>1. \A t \in Shrunk(runs, d) : f[t] = g[t]
      <4>1. SUFFICES ASSUME NEW t \in Shrunk(runs, d) PROVE f[t] = g[t]
        OBVIOUS
      <4>2. t \in D /\ t.N < d.N /\ t.N \in Int /\ d.N \in Int
        BY <1>S, ReductionType
      <4>3. m[t] < m[d]
        BY <4>2, <2>1, <1>0
      <4> QED BY <4>2, <4>3, <1>4
    <3>2. {f[t] : t \in Shrunk(runs, d)} = {g[t] : t \in Shrunk(runs, d)}
      BY <3>1
    <3>3. body(f, d) = body(g, d)
      BY <3>2, Zenon
    <3>4. G[f][d] = body(f, d) /\ G[g][d] = body(g, d)
      <4> HIDE DEF body, D, V
      <4> QED BY Zenon
    <3> QED BY <3>3, <3>4
  <2>2. CASE ~(d.N > num_of_pakets + Slack)
    BY <2>2
  <2> QED BY <2>1, <2>2
<1>5. Contracts(G, m, D, V)
  <2> HIDE DEF D, V, m, G
  <2> QED BY <1>1, <1>3, <1>4 DEF Contracts
<1>6. V # {}
  OBVIOUS
<1>7. HasFixpoint(G, D, V)
  <2> HIDE DEF D, V, m, G
  <2> QED BY <1>5, <1>6, MeasuredRecursion
<1>8. PICK f \in [D -> V] : f = [d \in D |-> body(f, d)]
  <2>1. PICK f \in [D -> V] : f = G[f]
    BY <1>7 DEF HasFixpoint
  <2> HIDE DEF body, D, V
  <2> QED BY <2>1
<1>9. Reductions(runs) = [d \in D |-> body(Reductions(runs), d)]
  BY <1>8, Zenon DEF Reductions, Shrunk
<1> QED
  <2>1. Reductions(runs)[r] = body(Reductions(runs), r)
    <3> HIDE DEF body
    <3> QED BY <1>9
  <2> QED BY <2>1, Zenon

\* Every reduction is right, if the first one is.
LEMMA ReductionsNarrow ==
  ASSUME NEW runs, SortedRuns(runs), NEW prefix_size \in Int, NEW r,
         Narrowed(runs, prefix_size, r), NEW t \in Reductions(runs)[r]
  PROVE  Narrowed(runs, prefix_size, t)
<1> DEFINE R == {d \in Reduction : Narrowed(runs, prefix_size, d)}
<1> DEFINE m(d) == d.N
<1> DEFINE A == {k \in Nat : \A d \in R : d.N < k =>
                               \A u \in Reductions(runs)[d] : Narrowed(runs, prefix_size, u)}
<1>0. \A d \in R : d \in Reduction /\ d.N \in Nat /\ Narrowed(runs, prefix_size, d)
  <2>1. SUFFICES ASSUME NEW d \in R PROVE d.N \in Nat
    OBVIOUS
  <2>2. d.N \in Int /\ d.prefix \in Int
    BY ReductionType
  <2>3. 0 <= d.prefix /\ d.prefix <= d.N
    BY DEF Narrowed
  <2> QED BY <2>2, <2>3
<1>1. 0 \in A
  <2>1. \A d \in R : ~(d.N < 0)
    BY <1>0
  <2> HIDE DEF R
  <2> QED BY <2>1
<1>2. ASSUME NEW k \in Nat, k \in A PROVE k + 1 \in A
  <2>1. SUFFICES ASSUME NEW d \in R, d.N < k + 1, NEW u \in Reductions(runs)[d]
                 PROVE  Narrowed(runs, prefix_size, u)
    OBVIOUS
  <2>2. u = d \/ \E v \in Shrunk(runs, d) : u \in Reductions(runs)[v]
    BY <1>0, ReductionsDef
  <2>3. CASE u = d
    BY <2>3
  <2>4. CASE \E v \in Shrunk(runs, d) : u \in Reductions(runs)[v]
    <3>1. PICK v \in Shrunk(runs, d) : u \in Reductions(runs)[v]
      BY <2>4
    <3>2. v \in median_split(runs, d) /\ v.N < d.N
      BY DEF Shrunk
    <3>3. Narrowed(runs, prefix_size, v)
      BY <3>2, <1>0, MedianSplitNarrows
    <3>4. v \in R
      BY <3>3 DEF Narrowed
    <3>5. v.N < k
      BY <3>2, <3>4, <2>1, <1>0
    <3> QED BY <3>1, <3>4, <3>5, <1>2
  <2> QED BY <2>2, <2>3, <2>4
<1>3. Nat \subseteq A
  <2> HIDE DEF A
  <2> QED BY <1>1, <1>2, NatSetInduction
<1>4. r \in R
  BY DEF Narrowed
<1>5. r.N + 1 \in Nat /\ r.N < r.N + 1
  BY <1>0, <1>4
<1> QED BY <1>3, <1>4, <1>5

\* The whole runs are a reduction to start with.
LEMMA InitialNarrowed ==
  ASSUME NEW runs, SortedRuns(runs), NEW prefix_size \in 0 .. Total(RunLengths(runs))
  PROVE  Narrowed(runs, prefix_size, InitialReduction(runs, prefix_size))
<1> DEFINE zero == [j \in Pakets |-> 0]
<1> DEFINE r == InitialReduction(runs, prefix_size)
<1>1. \A j \in Pakets : Len(runs[j]) \in Nat
  BY RunsType DEF SortedRuns
<1>2. zero \in Row /\ RunLengths(runs) \in Row /\ \A j \in Pakets : RunLengths(runs)[j] = Len(runs[j])
  BY <1>1 DEF Row, RunLengths
<1>3. Total(RunLengths(runs)) \in Int
  BY <1>2, RowType, TotalType
<1>4. Total(zero) = 0
  <2>1. zero \in Differences /\ \A j \in Pakets : zero[j] = 0
    BY DEF Differences
  <2> HIDE DEF zero
  <2> QED BY <2>1, SumsZero, PaketsType DEF Total
<1>5. /\ r = [first |-> zero, last |-> RunLengths(runs), prefix |-> prefix_size,
              N |-> Total(RunLengths(runs))]
      /\ r.first = zero /\ r.last = RunLengths(runs) /\ r.prefix = prefix_size
      /\ r.N = Total(RunLengths(runs))
  BY DEF InitialReduction
<1>6. \A j \in Pakets : zero[j] = 0
  OBVIOUS
<1> HIDE DEF r, zero
<1>7. r \in Reduction
  BY <1>2, <1>3, <1>5 DEF Reduction
<1>8. Within(runs, r.last) /\ \A j \in Pakets : r.first[j] <= r.last[j]
  BY <1>1, <1>2, <1>5, <1>6 DEF Within
<1>9. /\ r.N = Total(r.last) - Total(r.first) /\ Total(r.first) + r.prefix = prefix_size
      /\ 0 <= r.prefix /\ r.prefix <= r.N
  BY <1>3, <1>4, <1>5
<1>10. Cut(runs, r.first)
  BY <1>5, <1>6 DEF Cut
<1>11. Cut(runs, r.last)
  BY <1>1, <1>2, <1>5 DEF Cut
<1> QED BY <1>7, <1>8, <1>9, <1>10, <1>11 DEF Narrowed, r

-----------------------------------------------------------------------------
(* What is left to decide, and the row made of it. *)

\* s has the elements between the rows of r, each once: place[i] says where in its
\* run element i of s is.
Places(runs, r, s, place) ==
  /\ place \in [1 .. r.N -> Nat]
  /\ \A i \in 1 .. r.N :
       /\ r.first[s[i].paket] < place[i] /\ place[i] <= r.last[s[i].paket]
       /\ s[i].value = runs[s[i].paket][place[i]]
  /\ \A i, k \in 1 .. r.N : s[i].paket = s[k].paket /\ place[i] = place[k] => i = k
  /\ \A j \in Pakets : \A x \in Nat : r.first[j] < x /\ x <= r.last[j] =>
       \E i \in 1 .. r.N : s[i].paket = j /\ place[i] = x

Listed(runs, r, s) ==
  /\ s \in Elements /\ Len(s) = r.N
  /\ \E place \in [1 .. r.N -> Nat] : Places(runs, r, s, place)

\* How much is left to decide.
LEMMA NarrowedType ==
  ASSUME NEW runs, SortedRuns(runs), NEW prefix_size, NEW r, Narrowed(runs, prefix_size, r)
  PROVE  /\ r.N \in Nat /\ r.prefix \in Nat /\ r.prefix <= r.N
         /\ \A j \in Pakets : /\ r.first[j] \in Nat /\ r.last[j] \in Nat
                              /\ r.first[j] <= r.last[j] /\ r.last[j] <= Len(runs[j])
         /\ [j \in Pakets |-> r.last[j] - r.first[j]] \in Row
         /\ Total([j \in Pakets |-> r.last[j] - r.first[j]]) = r.N
<1> DEFINE d == [j \in Pakets |-> r.last[j] - r.first[j]]
<1>1. /\ r \in Reduction /\ 0 <= r.prefix /\ r.prefix <= r.N
      /\ \A j \in Pakets : r.first[j] <= r.last[j] /\ r.last[j] <= Len(runs[j])
      /\ r.N = Total(r.last) - Total(r.first)
  BY DEF Narrowed, Within
<1>2. /\ r.first \in Row /\ r.last \in Row /\ r.prefix \in Int /\ r.N \in Int
      /\ \A j \in Pakets : r.first[j] \in Nat /\ r.last[j] \in Nat
  BY <1>1, ReductionType
<1>3. d \in Row
  BY <1>1, <1>2 DEF Row
<1>4. \A j \in Pakets : r.last[j] = r.first[j] + d[j]
  BY <1>2
<1> HIDE DEF d
<1>5. r.first \in Differences /\ r.last \in Differences /\ d \in Differences
  BY <1>2, <1>3, RowType
<1>6. Total(r.last) = Total(r.first) + Total(d)
  <2>1. \A l \in 0 .. num_of_pakets : Sums(r.last)[l] = Sums(r.first)[l] + Sums(d)[l]
    BY <1>4, <1>5, SumsAdd
  <2> QED BY <2>1, PaketsType DEF Total
<1>7. Total(d) \in Int /\ Total(r.first) \in Int /\ Total(r.last) \in Int
  BY <1>5, TotalType
<1>8. Total(d) = r.N
  BY <1>1, <1>6, <1>7
<1> QED BY <1>1, <1>2, <1>3, <1>8 DEF d

\* The array quickselect is given lists every undecided element once.
LEMMA UndecidedListed ==
  ASSUME NEW runs, SortedRuns(runs), NEW prefix_size, NEW r, Narrowed(runs, prefix_size, r)
  PROVE  Listed(runs, r, Undecided(runs, r))
<1> DEFINE d == [j \in Pakets |-> r.last[j] - r.first[j]]
<1> DEFINE before == Sums(d)
<1> DEFINE run(i) == CHOOSE j \in Pakets : before[j] < i /\ i <= before[j + 1]
<1> DEFINE s == Undecided(runs, r)
<1>1. /\ r.N \in Nat
      /\ \A j \in Pakets : /\ r.first[j] \in Nat /\ r.last[j] \in Nat
                           /\ r.first[j] <= r.last[j] /\ r.last[j] <= Len(runs[j])
      /\ d \in Row /\ Total(d) = r.N
  BY NarrowedType
<1>2. \A j \in Pakets : d[j] = r.last[j] - r.first[j]
  OBVIOUS
<1>3. s = [i \in 1 .. r.N |->
            [value |-> runs[run(i)][r.first[run(i)] + i - before[run(i)]], paket |-> run(i)]]
  BY Zenon DEF Undecided
<1> HIDE DEF d
<1>4. d \in Differences
  BY <1>1, RowType
<1>5. /\ \A l \in 0 .. num_of_pakets : before[l] \in Nat
      /\ \A k, l \in 0 .. num_of_pakets : k <= l => before[k] <= before[l]
  BY <1>1, SumsMonotone
<1>6. \A j \in Pakets : /\ j \in 0 .. num_of_pakets /\ j + 1 \in 0 .. num_of_pakets
                        /\ before[j + 1] = before[j] + d[j]
  BY <1>4, SumsDef, PaketsType
<1>7. before[num_of_pakets] = r.N
  BY <1>1 DEF Total
<1>8. \A i \in 1 .. r.N : run(i) \in Pakets /\ before[run(i)] < i /\ i <= before[run(i) + 1]
  <2>1. SUFFICES ASSUME NEW i \in 1 .. r.N
                 PROVE  run(i) \in Pakets /\ before[run(i)] < i /\ i <= before[run(i) + 1]
    OBVIOUS
  <2>2. i \in 1 .. Total(d)
    BY <1>1
  <2>3. \E j \in Pakets : before[j] < i /\ i <= before[j + 1]
    BY <2>2, <1>1, SumsLocate
  <2> HIDE DEF before
  <2> QED BY <2>3
<1>9. \A i \in 1 .. r.N : \A j \in Pakets : before[j] < i /\ i <= before[j + 1] => run(i) = j
  <2>1. SUFFICES ASSUME NEW i \in 1 .. r.N, NEW j \in Pakets, before[j] < i, i <= before[j + 1]
                 PROVE  run(i) = j
    OBVIOUS
  <2>2. i \in 1 .. Total(d)
    BY <1>1
  <2>3. run(i) \in Pakets /\ before[run(i)] < i /\ i <= before[run(i) + 1]
    BY <1>8
  <2> HIDE DEF run
  <2> QED BY <2>1, <2>2, <2>3, <1>1, SumsLocate
<1> HIDE DEF before, run
<1> DEFINE place == [i \in 1 .. r.N |-> r.first[run(i)] + i - before[run(i)]]
<1>10. \A i \in 1 .. r.N : /\ run(i) \in Pakets
                           /\ place[i] \in Nat /\ place[i] = r.first[run(i)] + i - before[run(i)]
                           /\ r.first[run(i)] < place[i] /\ place[i] <= r.last[run(i)]
  <2>1. SUFFICES ASSUME NEW i \in 1 .. r.N
                 PROVE  /\ r.first[run(i)] + i - before[run(i)] \in Nat
                        /\ r.first[run(i)] < r.first[run(i)] + i - before[run(i)]
                        /\ r.first[run(i)] + i - before[run(i)] <= r.last[run(i)]
    BY <1>8
  <2> DEFINE j == run(i)
  <2>2. j \in Pakets /\ before[j] < i /\ i <= before[j + 1]
    BY <1>8
  <2> HIDE DEF j
  <2>3. /\ before[j] \in Nat /\ before[j + 1] = before[j] + (r.last[j] - r.first[j])
        /\ r.first[j] \in Nat /\ r.last[j] \in Nat /\ i \in Nat
    BY <2>2, <1>1, <1>2, <1>5, <1>6
  <2>4. /\ r.first[j] + i - before[j] \in Nat
        /\ r.first[j] < r.first[j] + i - before[j]
        /\ r.first[j] + i - before[j] <= r.last[j]
    BY <2>2, <2>3
  <2> QED BY <2>4 DEF j
<1>11. \A i \in 1 .. r.N : s[i] = [value |-> runs[run(i)][place[i]], paket |-> run(i)]
  BY <1>3
<1>12. place \in [1 .. r.N -> Nat]
  <2>1. \A i \in 1 .. r.N : r.first[run(i)] + i - before[run(i)] \in Nat
    BY <1>10
  <2> QED BY <2>1
<1>13. ASSUME NEW i \in 1 .. r.N PROVE s[i] \in PartitionElement
  <2>1. place[i] \in 1 .. Len(runs[run(i)]) /\ run(i) \in Pakets
    <3>1. Len(runs[run(i)]) \in Nat
      BY <1>10, RunsType DEF SortedRuns
    <3> HIDE DEF place
    <3> QED BY <3>1, <1>1, <1>10
  <2>2. runs[run(i)][place[i]] \in Values
    BY <2>1, RunsType DEF SortedRuns
  <2>3. s[i] = [value |-> runs[run(i)][place[i]], paket |-> run(i)]
    BY <1>11
  <2> HIDE DEF s, place
  <2> QED BY <2>1, <2>2, <2>3 DEF PartitionElement
<1>14. s \in Elements /\ Len(s) = r.N
  <2>1. s = [i \in 1 .. r.N |-> s[i]]
    BY <1>3
  <2>2. s \in [1 .. r.N -> PartitionElement]
    BY <2>1, <1>13
  <2> HIDE DEF s
  <2> QED BY <2>2, <1>1 DEF Elements
<1>15. ASSUME NEW i \in 1 .. r.N, NEW k \in 1 .. r.N, run(i) = run(k), place[i] = place[k]
       PROVE  i = k
  <2>1. r.first[run(i)] \in Nat /\ before[run(i)] \in Nat
    BY <1>1, <1>5, <1>6, <1>10
  <2>2. r.first[run(i)] + i - before[run(i)] = r.first[run(i)] + k - before[run(i)]
    BY <1>10, <1>15
  <2> QED BY <2>1, <2>2
<1>16. ASSUME NEW j \in Pakets, NEW x \in Nat, r.first[j] < x, x <= r.last[j]
       PROVE  \E i \in 1 .. r.N : run(i) = j /\ place[i] = x
  <2> DEFINE i == before[j] + x - r.first[j]
  <2>1. /\ before[j] \in Nat /\ before[j + 1] = before[j] + (r.last[j] - r.first[j])
        /\ r.first[j] \in Nat /\ r.last[j] \in Nat
        /\ before[j + 1] \in Nat /\ before[j + 1] <= r.N
    BY <1>1, <1>2, <1>5, <1>6, <1>7, PaketsType
  <2>2. i \in 1 .. r.N /\ before[j] < i /\ i <= before[j + 1]
    <3>1. \A a, b, f, l, k \in Nat :
            b = a + (l - f) /\ b <= k /\ f < x /\ x <= l =>
              a + x - f \in 1 .. k /\ a < a + x - f /\ a + x - f <= b
      OBVIOUS
    <3> QED BY <3>1, <2>1, <1>1, <1>16
  <2>3. run(i) = j
    BY <2>2, <1>9
  <2>4. place[i] = r.first[j] + i - before[j]
    BY <2>2, <2>3
  <2>5. place[i] = x
    BY <2>4, <2>1, <1>16
  <2> QED BY <2>2, <2>3, <2>5
<1> HIDE DEF place
<1> HIDE DEF s
<1>17. \A i \in 1 .. r.N : s[i].paket = run(i) /\ s[i].value = runs[run(i)][place[i]]
  <2>1. SUFFICES ASSUME NEW i \in 1 .. r.N
                 PROVE  s[i].paket = run(i) /\ s[i].value = runs[run(i)][place[i]]
    BY Zenon
  <2> DEFINE v == runs[run(i)][place[i]]
  <2> DEFINE p == run(i)
  <2>2. s[i] = [value |-> v, paket |-> p]
    BY <1>11, Zenon
  <2> HIDE DEF v, p
  <2>3. s[i].paket = p /\ s[i].value = v
    BY <2>2
  <2> QED BY <2>3 DEF v, p
<1>18. Places(runs, r, s, place)
  <2>1. \A i \in 1 .. r.N :
          /\ r.first[s[i].paket] < place[i] /\ place[i] <= r.last[s[i].paket]
          /\ s[i].value = runs[s[i].paket][place[i]]
    BY <1>10, <1>17, Zenon
  <2>2. \A i, k \in 1 .. r.N : s[i].paket = s[k].paket /\ place[i] = place[k] => i = k
    <3>1. SUFFICES ASSUME NEW i \in 1 .. r.N, NEW k \in 1 .. r.N,
                          s[i].paket = s[k].paket, place[i] = place[k]
                   PROVE  i = k
      BY Zenon
    <3>2. run(i) = run(k)
      BY <3>1, <1>17, Zenon
    <3> QED BY <3>1, <3>2, <1>15, Zenon
  <2>3. \A j \in Pakets : \A x \in Nat : r.first[j] < x /\ x <= r.last[j] =>
          \E i \in 1 .. r.N : s[i].paket = j /\ place[i] = x
    <3>1. SUFFICES ASSUME NEW j \in Pakets, NEW x \in Nat, r.first[j] < x, x <= r.last[j]
                   PROVE  \E i \in 1 .. r.N : s[i].paket = j /\ place[i] = x
      BY Zenon
    <3>2. PICK i \in 1 .. r.N : run(i) = j /\ place[i] = x
      BY <3>1, <1>16, Zenon
    <3> QED BY <3>2, <1>17, Zenon
  <2> QED BY <1>12, <2>1, <2>2, <2>3, Zenon DEF Places
<1> QED BY <1>12, <1>14, <1>18 DEF Listed, s

\* Rearranging keeps it.
LEMMA ListedRearranged ==
  ASSUME NEW runs, NEW r, r.N \in Nat, NEW s, Listed(runs, r, s), NEW t, NEW b, NEW e,
         Rearranged(s, t, b, e)
  PROVE  Listed(runs, r, t)
<1>1. s \in Elements /\ Len(s) = r.N /\ t \in Elements /\ Len(t) = r.N
  BY DEF Listed, Rearranged
<1>2. PICK place \in [1 .. r.N -> Nat] : Places(runs, r, s, place)
  BY DEF Listed
<1>3. PICK f \in [1 .. r.N -> 1 .. r.N] : Rearranges(f, s, t, b, e)
  BY <1>1 DEF Rearranged
<1>4. \A i \in 1 .. r.N : t[i] = s[f[i]] /\ f[i] \in 1 .. r.N
  BY <1>1, <1>3 DEF Rearranges
<1>5. \A i, k \in 1 .. r.N : f[i] = f[k] => i = k
  BY <1>1, <1>3 DEF Rearranges
<1>6. \A k \in 1 .. r.N : \E i \in 1 .. r.N : f[i] = k
  <2>1. f \in Injection(1 .. r.N, 1 .. r.N)
    BY <1>5 DEF Injection, IsInjective
  <2>2. IsFiniteSet(1 .. r.N)
    BY FS_Interval
  <2>3. f \in Surjection(1 .. r.N, 1 .. r.N)
    BY <2>1, <2>2, FS_Injection
  <2> QED BY <2>3 DEF Surjection
<1> DEFINE p == [i \in 1 .. r.N |-> place[f[i]]]
<1>7. p \in [1 .. r.N -> Nat] /\ \A i \in 1 .. r.N : p[i] = place[f[i]]
  OBVIOUS
<1> HIDE DEF p
<1>8. \A i \in 1 .. r.N :
        /\ r.first[t[i].paket] < p[i] /\ p[i] <= r.last[t[i].paket]
        /\ t[i].value = runs[t[i].paket][p[i]]
  <2>1. \A i \in 1 .. r.N :
          /\ r.first[s[i].paket] < place[i] /\ place[i] <= r.last[s[i].paket]
          /\ s[i].value = runs[s[i].paket][place[i]]
    BY <1>2, Zenon DEF Places
  <2> QED BY <2>1, <1>4, <1>7, ZenonT(60)
<1>9. ASSUME NEW i \in 1 .. r.N, NEW k \in 1 .. r.N, t[i].paket = t[k].paket, p[i] = p[k]
      PROVE  i = k
  <2>1. s[f[i]].paket = s[f[k]].paket /\ place[f[i]] = place[f[k]]
    BY <1>4, <1>7, <1>9
  <2>2. f[i] = f[k]
    BY <2>1, <1>2, <1>4, SMTT(30) DEF Places
  <2> QED BY <2>2, <1>5
<1>10. ASSUME NEW j \in Pakets, NEW x \in Nat, r.first[j] < x, x <= r.last[j]
       PROVE  \E i \in 1 .. r.N : t[i].paket = j /\ p[i] = x
  <2>1. PICK k \in 1 .. r.N : s[k].paket = j /\ place[k] = x
    BY <1>2, <1>10 DEF Places
  <2>2. PICK i \in 1 .. r.N : f[i] = k
    BY <1>6
  <2> QED BY <2>1, <2>2, <1>4, <1>7
<1>11. Places(runs, r, t, p)
  BY <1>7, <1>8, <1>9, <1>10 DEF Places
<1> QED BY <1>1, <1>7, <1>11 DEF Listed

\* Counting the first of them, run by run.
LEMMA CountsTotal ==
  ASSUME NEW s \in Elements, NEW p \in 0 .. Len(s)
  PROVE  /\ [j \in Pakets |-> Cardinality({i \in 1 .. p : s[i].paket = j})] \in Row
         /\ Total([j \in Pakets |-> Cardinality({i \in 1 .. p : s[i].paket = j})]) = p
<1> DEFINE C(q) == [j \in Pakets |-> Cardinality({i \in 1 .. q : s[i].paket = j})]
<1> DEFINE A == {q \in Nat : q <= Len(s) => C(q) \in Row /\ Total(C(q)) = q}
<1>0. Len(s) \in Nat /\ \A x \in 1 .. Len(s) : s[x].paket \in Pakets
  BY ElementsType
<1>1. 0 \in A
  <2>1. \A j \in Pakets : C(0)[j] = 0
    <3>1. \A j : {i \in 1 .. 0 : s[i].paket = j} = {}
      OBVIOUS
    <3> QED BY <3>1, FS_EmptySet
  <2>2. C(0) \in Row /\ C(0) \in Differences
    <3>1. C(0) = [j \in Pakets |-> C(0)[j]]
      OBVIOUS
    <3> HIDE DEF C
    <3> QED BY <3>1, <2>1 DEF Row, Differences
  <2> HIDE DEF C
  <2>3. Total(C(0)) = 0
    BY <2>1, <2>2, SumsZero, PaketsType DEF Total
  <2> QED BY <2>2, <2>3
<1>2. ASSUME NEW q \in Nat, q \in A PROVE q + 1 \in A
  <2>1. SUFFICES ASSUME q + 1 <= Len(s) PROVE C(q + 1) \in Row /\ Total(C(q + 1)) = q + 1
    OBVIOUS
  <2>2. C(q) \in Row /\ Total(C(q)) = q
    BY <2>1, <1>0, <1>2
  <2> DEFINE k == s[q + 1].paket
  <2>3. k \in Pakets
    BY <2>1, <1>0
  <2>4. ASSUME NEW j \in Pakets PROVE C(q + 1)[j] = IF j = k THEN C(q)[j] + 1 ELSE C(q)[j]
    <3> DEFINE S == {i \in 1 .. q : s[i].paket = j}
    <3> DEFINE T == {i \in 1 .. q + 1 : s[i].paket = j}
    <3>1. C(q)[j] = Cardinality(S) /\ C(q + 1)[j] = Cardinality(T)
      OBVIOUS
    <3>2. IsFiniteSet(S) /\ Cardinality(S) \in Nat
      <4>1. S \in SUBSET (1 .. q)
        OBVIOUS
      <4> HIDE DEF S
      <4> QED BY <4>1, CountPositions
    <3>3. CASE j = k
      <4>1. T = S \cup {q + 1} /\ q + 1 \notin S
        BY <3>3
      <4> HIDE DEF S, T, C
      <4>2. Cardinality(S \cup {q + 1}) = Cardinality(S) + 1
        BY <3>2, <4>1, FS_AddElement
      <4> QED BY <3>1, <3>3, <4>1, <4>2
    <3>4. CASE j # k
      <4>1. T = S
        BY <3>4
      <4> HIDE DEF C
      <4> QED BY <3>1, <3>4, <4>1
    <3> QED BY <3>3, <3>4
  <2>5. C(q) = [j \in Pakets |-> C(q)[j]] /\ C(q + 1) = [j \in Pakets |-> C(q + 1)[j]]
    OBVIOUS
  <2> HIDE DEF C, k
  <2>6. C(q) \in Differences /\ \A j \in Pakets : C(q)[j] \in Nat
    BY <2>2, RowType
  <2>7. C(q + 1) = [C(q) EXCEPT ![k] = @ + 1]
    BY <2>3, <2>4, <2>5
  <2>8. Total(C(q + 1)) = Total(C(q)) + 1
    BY <2>3, <2>6, <2>7, TotalIncrement
  <2>9. C(q + 1) \in Row
    BY <2>4, <2>5, <2>6 DEF Row
  <2> QED BY <2>2, <2>8, <2>9
<1>3. Nat \subseteq A
  <2> HIDE DEF A
  <2> QED BY <1>1, <1>2, NatSetInduction
<1>4. p \in Nat /\ p <= Len(s)
  BY <1>0
<1> QED BY <1>3, <1>4

\* The row is within its runs, counts what it should, and cuts them.
LEMMA LowerPartCuts ==
  ASSUME NEW runs, SortedRuns(runs), NEW prefix_size \in Int, NEW r,
         Narrowed(runs, prefix_size, r), NEW s, Listed(runs, r, s),
         r.prefix > 0 => Divided(s, r.prefix + 1)
  PROVE  /\ Within(runs, LowerPart(r, s))
         /\ Total(LowerPart(r, s)) = prefix_size
         /\ Cut(runs, LowerPart(r, s))
<1> DEFINE row == LowerPart(r, s)
<1> DEFINE B(j) == {i \in 1 .. r.prefix : s[i].paket = j}
<1> DEFINE counts == [j \in Pakets |-> Cardinality(B(j))]
<1>1. /\ r.N \in Nat /\ r.prefix \in Nat /\ r.prefix <= r.N
      /\ \A j \in Pakets : /\ r.first[j] \in Nat /\ r.last[j] \in Nat
                           /\ r.first[j] <= r.last[j] /\ r.last[j] <= Len(runs[j])
  BY NarrowedType
<1>2. s \in Elements /\ Len(s) = r.N
  BY DEF Listed
<1>3. PICK place \in [1 .. r.N -> Nat] : Places(runs, r, s, place)
  BY DEF Listed
<1>4. \A j \in Pakets : IsFiniteSet(B(j)) /\ Cardinality(B(j)) \in Nat
  <2>1. \A j \in Pakets : B(j) \in SUBSET (1 .. r.prefix)
    OBVIOUS
  <2> HIDE DEF B
  <2> QED BY <2>1, <1>1, CountPositions
<1>5. \A j \in Pakets : row[j] = r.first[j] + counts[j]
  BY DEF LowerPart
<1>6. row = [j \in Pakets |-> row[j]]
  BY DEF LowerPart
<1>7. counts \in Row /\ Total(counts) = r.prefix
  <2>1. r.prefix \in 0 .. Len(s)
    BY <1>1, <1>2
  <2> QED BY <2>1, <1>2, CountsTotal
<1>8. \A j \in Pakets : counts[j] = Cardinality(B(j))
  OBVIOUS
<1>18. \A j \in Pakets : counts[j] \in Nat
  BY <1>7, RowType
<1> HIDE DEF row, counts
<1>9. row \in Row
  <2>1. \A j \in Pakets : row[j] \in Nat
    BY <1>1, <1>5, <1>18
  <2> QED BY <2>1, <1>6 DEF Row
<1>10. Total(row) = prefix_size
  <2>1. r \in Reduction /\ Total(r.first) + r.prefix = prefix_size
    BY DEF Narrowed
  <2>2. r.first \in Differences /\ row \in Differences /\ counts \in Differences
    BY <2>1, <1>7, <1>9, RowType, ReductionType
  <2>3. \A l \in 0 .. num_of_pakets : Sums(row)[l] = Sums(r.first)[l] + Sums(counts)[l]
    BY <2>2, <1>5, SumsAdd
  <2>4. Total(row) = Total(r.first) + Total(counts)
    BY <2>3, PaketsType DEF Total
  <2> QED BY <2>1, <2>4, <1>7
<1>11. \A i \in 1 .. r.N : /\ s[i].paket \in Pakets /\ s[i].value \in Int /\ place[i] \in Nat
                           /\ r.first[s[i].paket] < place[i] /\ place[i] <= r.last[s[i].paket]
                           /\ s[i].value = runs[s[i].paket][place[i]]
  BY <1>2, <1>3, ElementsType DEF Places
\* As many elements of a run as there are below the row reach up to it.
<1>12. ASSUME NEW j \in Pakets, NEW x \in Nat, x <= counts[j], x > 0
       PROVE  \E i \in B(j) : r.first[j] + x <= place[i]
  <2> DEFINE T == r.first[j] + 1 .. r.first[j] + x - 1
  <2>1. SUFFICES ASSUME \A i \in B(j) : place[i] < r.first[j] + x PROVE FALSE
    <3>1. \A i \in B(j) : place[i] \in Nat
      BY <1>1
    <3> QED BY <3>1, <1>1
  <2> DEFINE g == [i \in B(j) |-> place[i]]
  <2>2. \A i \in B(j) : i \in 1 .. r.N /\ s[i].paket = j /\ place[i] \in T
    <3>1. SUFFICES ASSUME NEW i \in B(j) PROVE i \in 1 .. r.N /\ s[i].paket = j /\ place[i] \in T
      OBVIOUS
    <3>2. i \in 1 .. r.N /\ s[i].paket = j
      BY <1>1
    <3>3. r.first[j] < place[i] /\ place[i] \in Nat /\ place[i] < r.first[j] + x
      BY <3>2, <1>11, <2>1
    <3> QED BY <3>2, <3>3, <1>1
  <2>3. g \in [B(j) -> T] /\ \A i \in B(j) : g[i] = place[i]
    BY <2>2
  <2>4. IsFiniteSet(T) /\ Cardinality(T) < Cardinality(B(j))
    <3>1. r.first[j] + 1 \in Int /\ r.first[j] + x - 1 \in Int
      BY <1>1
    <3> DEFINE a == r.first[j] + 1
    <3> DEFINE b == r.first[j] + x - 1
    <3>2. a \in Int /\ b \in Int /\ (IF a > b THEN 0 ELSE b - a + 1) = x - 1
      BY <1>1, <1>12
    <3> HIDE DEF a, b
    <3>3. IsFiniteSet(a .. b) /\ Cardinality(a .. b) = IF a > b THEN 0 ELSE b - a + 1
      BY <3>2, FS_Interval
    <3>4. IsFiniteSet(T) /\ Cardinality(T) = x - 1
      BY <3>2, <3>3 DEF a, b
    <3>5. Cardinality(B(j)) = counts[j] /\ counts[j] \in Nat
      BY <1>8, <1>18
    <3> HIDE DEF T, B
    <3> QED BY <3>4, <3>5, <1>12
  <2> HIDE DEF g
  <2>5. \E i, k \in B(j) : i # k /\ g[i] = g[k]
    <3> HIDE DEF B, T
    <3> QED BY <2>3, <2>4, <1>4, FS_PigeonHole
  <2>6. PICK i \in B(j), k \in B(j) : i # k /\ place[i] = place[k]
    BY <2>3, <2>5
  <2> QED BY <2>2, <2>6, <1>3 DEF Places
\* One that is not below the row is among the first of the run above it.
<1>13. ASSUME NEW j \in Pakets, NEW x \in Nat, counts[j] < x, r.first[j] + x <= r.last[j]
       PROVE  \E i \in 1 .. r.N : s[i].paket = j /\ r.prefix < i /\ place[i] <= r.first[j] + x
  <2> DEFINE S == 1 .. x
  <2>1. \A y \in S : \E i \in 1 .. r.N : s[i].paket = j /\ place[i] = r.first[j] + y
    <3>1. SUFFICES ASSUME NEW y \in S
                   PROVE  \E i \in 1 .. r.N : s[i].paket = j /\ place[i] = r.first[j] + y
      OBVIOUS
    <3>2. r.first[j] + y \in Nat /\ r.first[j] < r.first[j] + y /\ r.first[j] + y <= r.last[j]
      BY <1>1, <1>13
    <3> QED BY <3>2, <1>3 DEF Places
  <2> DEFINE h == [y \in S |-> CHOOSE i \in 1 .. r.N : s[i].paket = j /\ place[i] = r.first[j] + y]
  <2>2. \A y \in S : h[y] \in 1 .. r.N /\ s[h[y]].paket = j /\ place[h[y]] = r.first[j] + y
    BY <2>1
  <2>3. SUFFICES ASSUME \A y \in S : ~(r.prefix < h[y]) PROVE FALSE
    <3>1. PICK y \in S : r.prefix < h[y]
      BY <2>3
    <3>2. h[y] \in 1 .. r.N /\ s[h[y]].paket = j /\ place[h[y]] <= r.first[j] + x
      <4>1. h[y] \in 1 .. r.N /\ s[h[y]].paket = j /\ place[h[y]] = r.first[j] + y
        BY <2>2
      <4>2. r.first[j] + y <= r.first[j] + x
        BY <1>1
      <4> HIDE DEF h
      <4> QED BY <4>1, <4>2
    <3> HIDE DEF h
    <3> QED BY <3>1, <3>2
  <2>4. h \in [S -> B(j)]
    <3>1. \A y \in S : h[y] \in B(j)
      <4>1. SUFFICES ASSUME NEW y \in S PROVE h[y] \in 1 .. r.prefix /\ s[h[y]].paket = j
        OBVIOUS
      <4>2. h[y] \in 1 .. r.N /\ s[h[y]].paket = j /\ ~(r.prefix < h[y])
        BY <2>2, <2>3
      <4> HIDE DEF h
      <4> QED BY <4>2, <1>1
    <3>2. h = [y \in S |-> h[y]]
      OBVIOUS
    <3> HIDE DEF h
    <3> QED BY <3>1, <3>2
  <2>5. IsFiniteSet(S) /\ Cardinality(S) = x
    BY FS_Interval
  <2> HIDE DEF h
  <2>6. \E y, z \in S : y # z /\ h[y] = h[z]
    <3>1. IsFiniteSet(B(j)) /\ Cardinality(B(j)) = counts[j]
      BY <1>4, <1>8
    <3> HIDE DEF B, S
    <3> QED BY <2>4, <2>5, <3>1, <1>13, FS_PigeonHole
  <2>7. PICK y \in S, z \in S : y # z /\ h[y] = h[z]
    BY <2>6
  <2>8. r.first[j] + y = r.first[j] + z
    BY <2>2, <2>7
  <2> QED BY <2>7, <2>8, <1>1
<1>14. \A j \in Pakets : row[j] <= r.last[j]
  <2>1. SUFFICES ASSUME NEW j \in Pakets, r.last[j] < row[j] PROVE FALSE
    <3>1. \A j \in Pakets : row[j] \in Nat
      BY <1>9, RowType
    <3> QED BY <3>1, <1>1
  <2>2. counts[j] \in Nat /\ counts[j] > 0 /\ r.last[j] < r.first[j] + counts[j]
    BY <2>1, <1>1, <1>5, <1>18
  <2>3. PICK i \in B(j) : r.first[j] + counts[j] <= place[i]
    <3> HIDE DEF B
    <3> QED BY <2>2, <1>12
  <2>4. i \in 1 .. r.N /\ s[i].paket = j
    BY <1>1
  <2>5. place[i] <= r.last[j] /\ place[i] \in Nat
    BY <2>4, <1>11
  <2> HIDE DEF B
  <2> QED BY <2>2, <2>3, <2>5, <1>1
<1>15. Within(runs, row)
  <2>1. \A j \in Pakets : row[j] \in Nat /\ Len(runs[j]) \in Nat
    BY <1>9, RowType, RunsType DEF SortedRuns
  <2> QED BY <2>1, <1>1, <1>9, <1>14 DEF Within
<1>16. ASSUME NEW j \in Pakets, NEW m \in Pakets,
              NEW x \in 1 .. Len(runs[j]), NEW y \in 1 .. Len(runs[m]),
              x <= row[j], row[m] < y
       PROVE  runs[j][x] <= runs[m][y]
  <2>1. runs \in RunSet /\ Ascending(runs[j]) /\ Ascending(runs[m])
    BY DEF SortedRuns
  <2>2. Cut(runs, r.first) /\ Cut(runs, r.last)
    BY DEF Narrowed
  <2>3. /\ row[j] \in Nat /\ row[m] \in Nat /\ x \in Nat /\ y \in Nat
        /\ row[j] = r.first[j] + counts[j] /\ row[m] = r.first[m] + counts[m]
        /\ counts[j] \in Nat /\ counts[m] \in Nat
        /\ row[j] <= r.last[j] /\ row[m] <= r.last[m]
    <3>1. row[j] \in Nat /\ row[m] \in Nat
      BY <1>9, RowType
    <3>2. x \in Nat /\ y \in Nat
      BY <2>1, RunsType
    <3> QED BY <3>1, <3>2, <1>5, <1>18, <1>14
  <2>4. CASE x <= r.first[j]
    <3>1. r.first[m] < y
      BY <2>3, <1>1, <1>16
    <3> QED BY <3>1, <2>2, <2>4 DEF Cut
  <2>5. CASE r.last[m] < y
    <3>1. x <= r.last[j]
      BY <2>3, <1>1, <1>16, SMTT(30)
    <3> QED BY <3>1, <2>2, <2>5 DEF Cut
  <2>6. CASE r.first[j] < x /\ y <= r.last[m]
    <3>1. /\ x - r.first[j] \in Nat /\ x - r.first[j] <= counts[j] /\ x - r.first[j] > 0
          /\ y - r.first[m] \in Nat /\ counts[m] < y - r.first[m]
          /\ r.first[j] + (x - r.first[j]) = x /\ r.first[m] + (y - r.first[m]) = y
      <4> HIDE DEF B
      <4>1. r.first[j] \in Nat /\ r.first[m] \in Nat
        BY <1>1
      <4>2. \A a, c, z \in Nat : a < z /\ z <= a + c =>
              z - a \in Nat /\ z - a <= c /\ z - a > 0 /\ a + (z - a) = z
        OBVIOUS
      <4>3. \A a, c, z \in Nat : a + c < z => z - a \in Nat /\ c < z - a /\ a + (z - a) = z
        OBVIOUS
      <4>4. x <= r.first[j] + counts[j] /\ r.first[m] + counts[m] < y
        BY <2>3, <1>16
      <4>5. /\ x - r.first[j] \in Nat /\ x - r.first[j] <= counts[j] /\ x - r.first[j] > 0
            /\ r.first[j] + (x - r.first[j]) = x
        <5>1. r.first[j] \in Nat /\ counts[j] \in Nat /\ x \in Nat /\ r.first[j] < x
          BY <4>1, <2>3, <2>6
        <5> QED BY <5>1, <4>2, <4>4, Zenon
      <4>6. /\ y - r.first[m] \in Nat /\ counts[m] < y - r.first[m]
            /\ r.first[m] + (y - r.first[m]) = y
        <5>1. r.first[m] \in Nat /\ counts[m] \in Nat /\ y \in Nat
          BY <4>1, <2>3
        <5> QED BY <5>1, <4>3, <4>4, Zenon
      <4> QED BY <4>5, <4>6, Zenon
    <3>2. PICK i \in B(j) : x <= place[i]
      <4> HIDE DEF B
      <4> QED BY <3>1, <1>12
    <3>3. PICK k \in 1 .. r.N : s[k].paket = m /\ r.prefix < k /\ place[k] <= y
      <4> HIDE DEF B
      <4>1. PICK z \in Nat : counts[m] < z /\ r.first[m] + z = y
        BY <3>1, Zenon
      <4>2. r.first[m] + z <= r.last[m]
        BY <4>1, <2>6, Zenon
      <4>3. \E k \in 1 .. r.N : s[k].paket = m /\ r.prefix < k /\ place[k] <= r.first[m] + z
        BY <4>1, <4>2, <1>13, Zenon
      <4> QED BY <4>1, <4>3, Zenon
    <3>4. i \in 1 .. r.N /\ s[i].paket = j /\ i < r.prefix + 1 /\ r.prefix + 1 <= k /\ r.prefix > 0
      BY <3>3, <1>1
    <3>5. s[i].value <= s[k].value
      BY <3>4, <1>2 DEF Divided
    <3>6. /\ place[i] \in 1 .. Len(runs[j]) /\ s[i].value = runs[j][place[i]]
          /\ place[k] \in 1 .. Len(runs[m]) /\ s[k].value = runs[m][place[k]]
      <4>1. Len(runs[j]) \in Nat /\ Len(runs[m]) \in Nat
        BY <2>1, RunsType
      <4>2. /\ place[i] \in Nat /\ r.first[j] < place[i] /\ place[i] <= r.last[j]
            /\ s[i].value = runs[j][place[i]]
        BY <3>4, <1>11
      <4>3. /\ place[k] \in Nat /\ r.first[m] < place[k] /\ place[k] <= r.last[m]
            /\ s[k].value = runs[m][place[k]]
        BY <3>3, <1>11
      <4>4. /\ r.first[j] \in Nat /\ r.last[j] \in Nat /\ r.last[j] <= Len(runs[j])
            /\ r.first[m] \in Nat /\ r.last[m] \in Nat /\ r.last[m] <= Len(runs[m])
        BY <1>1
      <4>5. place[i] \in 1 .. Len(runs[j]) /\ place[k] \in 1 .. Len(runs[m])
        <5>1. \A a, b, c, z \in Nat : a < z /\ z <= b /\ b <= c => z \in 1 .. c
          OBVIOUS
        <5> QED BY <5>1, <4>1, <4>2, <4>3, <4>4
      <4> QED BY <4>2, <4>3, <4>5
    <3>7. runs[j][x] <= runs[j][place[i]] /\ runs[m][place[k]] <= runs[m][y]
      BY <3>2, <3>3, <3>6, <2>1 DEF Ascending
    <3>8. /\ runs[j][x] \in Int /\ runs[j][place[i]] \in Int
          /\ runs[m][place[k]] \in Int /\ runs[m][y] \in Int
      BY <3>6, <2>1, RunsType
    <3>9. runs[j][place[i]] <= runs[m][place[k]]
      BY <3>5, <3>6, Zenon
    <3>10. \A a, b, c, d \in Int : a <= b /\ b <= c /\ c <= d => a <= d
      OBVIOUS
    <3> QED BY <3>7, <3>8, <3>9, <3>10
  <2>7. r.first[j] \in Nat /\ r.last[m] \in Nat
    BY <1>1
  <2> QED BY <2>3, <2>4, <2>5, <2>6, <2>7, SMTT(30)
<1>17. Cut(runs, row)
  BY <1>16 DEF Cut
<1> QED BY <1>10, <1>15, <1>17 DEF row

\* Every row of reduce_split is right: "the number of elements in lower halves" is
\* prefix_size, and none of them is larger than one in the upper halves.
THEOREM ReduceSplitCorrect ==
  ASSUME NEW runs, SortedRuns(runs), NEW prefix_size \in 0 .. Total(RunLengths(runs)),
         NEW row \in reduce_split(runs, prefix_size)
  PROVE  Within(runs, row) /\ Total(row) = prefix_size /\ Cut(runs, row)
<1> DEFINE r0 == InitialReduction(runs, prefix_size)
<1>0. prefix_size \in Int
  OBVIOUS
<1>1. PICK r \in Reduced(runs, r0) :
        \E s \in Selected(Undecided(runs, r), r.prefix - 1) : row = LowerPart(r, s)
  BY DEF reduce_split
<1>2. PICK s \in Selected(Undecided(runs, r), r.prefix - 1) : row = LowerPart(r, s)
  BY <1>1
<1>3. Narrowed(runs, prefix_size, r)
  <2>1. r \in Reductions(runs)[r0]
    BY DEF Reduced
  <2>2. Narrowed(runs, prefix_size, r0)
    BY InitialNarrowed
  <2> HIDE DEF r0
  <2> QED BY <1>0, <2>1, <2>2, ReductionsNarrow
<1> DEFINE u == Undecided(runs, r)
<1>4. Listed(runs, r, u)
  BY <1>3, UndecidedListed
<1>5. r.N \in Nat /\ r.prefix \in Nat /\ r.prefix <= r.N
  BY <1>3, NarrowedType
<1> HIDE DEF u
<1>6. u \in Elements /\ Len(u) = r.N
  BY <1>4 DEF Listed
<1> DEFINE c == [s |-> u, b |-> 1, e |-> Len(u) + 1, k |-> r.prefix - 1]
<1>7. c.s = u /\ c.b = 1 /\ c.e = r.N + 1 /\ c.k = r.prefix - 1
  BY <1>6
<1>8. c \in QuickselectCall
  <2>1. c \in [s : Seq(PartitionElement), b : Nat \ {0}, e : Nat, k : Int]
    BY <1>5, <1>6 DEF Elements
  <2>2. c.b <= c.e /\ c.e <= Len(c.s) + 1
    BY <1>5, <1>6
  <2> HIDE DEF c
  <2> QED BY <2>1, <2>2 DEF QuickselectCall
<1>9. s \in quickselect[c]
  BY <1>2 DEF Selected, u
<1> HIDE DEF c
<1>10. Quickselected(c, s)
  BY <1>8, <1>9, QuickselectCorrect
<1>11. Rearranged(u, s, 1, r.N + 1)
  BY <1>7, <1>10 DEF Quickselected
<1>12. Listed(runs, r, s)
  BY <1>4, <1>5, <1>11, ListedRearranged
<1>13. ASSUME r.prefix > 0 PROVE Divided(s, r.prefix + 1)
  <2>1. Divided(u, 1) /\ Divided(u, r.N + 1)
    BY <1>5, <1>6 DEF Divided
  <2>2. 0 <= c.k /\ c.k < c.e - c.b /\ c.b + c.k + 1 = r.prefix + 1
    BY <1>5, <1>7, <1>13
  <2> QED BY <2>1, <2>2, <1>7, <1>10 DEF Quickselected
<1> QED BY <1>0, <1>2, <1>3, <1>12, <1>13, LowerPartCuts

\* Rows that compare and have the same total are the same.
LEMMA SameTotal ==
  ASSUME NEW r \in Row, NEW s \in Row, \A j \in Pakets : r[j] <= s[j], Total(s) <= Total(r)
  PROVE  \A j \in Pakets : r[j] = s[j]
<1> DEFINE d == [j \in Pakets |-> s[j] - r[j]]
<1>1. /\ r \in Differences /\ s \in Differences
      /\ \A j \in Pakets : r[j] \in Nat /\ s[j] \in Nat
  BY RowType
<1>2. d \in Row /\ d \in Differences
  BY <1>1 DEF Row, Differences
<1>3. \A j \in Pakets : s[j] = r[j] + d[j] /\ d[j] \in Nat
  BY <1>1
<1> HIDE DEF d
<1>4. Total(s) = Total(r) + Total(d) /\ Total(s) \in Int /\ Total(r) \in Int /\ Total(d) \in Int
  <2>1. Total(s) \in Int /\ Total(r) \in Int /\ Total(d) \in Int
    BY <1>1, <1>2, TotalType
  <2>2. \A l \in 0 .. num_of_pakets : Sums(s)[l] = Sums(r)[l] + Sums(d)[l]
    BY <1>1, <1>2, <1>3, SumsAdd
  <2>3. num_of_pakets \in 0 .. num_of_pakets
    BY PaketsType
  <2> QED BY <2>1, <2>2, <2>3 DEF Total
<1>5. Total(d) <= 0
  BY <1>4
<1>6. SUFFICES ASSUME NEW j \in Pakets PROVE d[j] = 0
  BY <1>1, <1>3
<1>7. j \in 0 .. num_of_pakets /\ j + 1 \in 0 .. num_of_pakets /\ num_of_pakets \in 0 .. num_of_pakets
      /\ j + 1 <= num_of_pakets
  BY PaketsType
<1>8. Sums(d)[j] \in Nat /\ Sums(d)[j + 1] \in Nat /\ Sums(d)[j + 1] <= Total(d)
  BY <1>2, <1>7, SumsMonotone DEF Total
<1>9. Sums(d)[j + 1] = Sums(d)[j] + d[j]
  BY <1>2, SumsDef
<1> QED BY <1>3, <1>4, <1>5, <1>8, <1>9, SMTT(30)

\* The middle of what is left of each run.
LEMMA MedianBetween ==
  ASSUME NEW runs, SortedRuns(runs), NEW prefix_size, NEW r, Narrowed(runs, prefix_size, r),
         NEW j \in Pakets
  PROVE  /\ Median(r)[j] \in Nat /\ r.first[j] <= Median(r)[j] /\ Median(r)[j] <= r.last[j]
         /\ j \in Nonempty(r) => Median(r)[j] < r.last[j]
         /\ j \in Nonempty(r) /\ Median(r)[j] = r.first[j] => r.last[j] - r.first[j] = 1
<1> DEFINE d == r.last[j] - r.first[j]
<1>1. r.first[j] \in Nat /\ r.last[j] \in Nat /\ r.first[j] <= r.last[j]
  BY NarrowedType
<1>2. Median(r)[j] = r.first[j] + (d \div 2)
  BY DEF Median
<1>3. d \in Nat /\ r.last[j] = r.first[j] + d
  BY <1>1
<1>4. j \in Nonempty(r) => d # 0
  BY <1>1 DEF Nonempty
<1> HIDE DEF d
<1>5. /\ d \div 2 \in Nat /\ d \div 2 <= d /\ (d # 0 => d \div 2 + 1 <= d)
      /\ (d # 0 /\ d \div 2 = 0 => d = 1)
  BY <1>3
<1>6. r.last[j] - r.first[j] = d
  BY <1>1, <1>3
<1> QED BY <1>1, <1>2, <1>3, <1>4, <1>5, <1>6

\* Of the runs with elements left, those with a middle equal to the median are
\* cut there, those with a lesser one behind it, and those with a greater one where
\* they start if nothing before it is less.
LEMMA CurrentUpToMedian ==
  ASSUME NEW runs, SortedRuns(runs), NEW prefix_size, NEW r, Narrowed(runs, prefix_size, r),
         NEW pick \in Nonempty(r), NEW j \in Nonempty(r)
  PROVE  LET value(l) == runs[l][Median(r)[l] + 1]
         IN /\ value(j) = value(pick) => Current(runs, r, pick)[j] = Median(r)[j]
            /\ value(j) < value(pick) => Median(r)[j] < Current(runs, r, pick)[j]
            /\ value(j) > value(pick) =>
                 (Current(runs, r, pick)[j] = r.first[j] <=> value(pick) <= runs[j][r.first[j] + 1])
<1> DEFINE M == Median(r)
<1> DEFINE median == runs[pick][M[pick] + 1]
<1> DEFINE run == runs[j]
<1> DEFINE c == Current(runs, r, pick)[j]
<1>1. j \in Pakets /\ pick \in Pakets
  BY DEF Nonempty
<1>2. c = IF j = pick \/ j \notin Nonempty(r) \/ run[M[j] + 1] = median
          THEN M[j]
          ELSE IF run[M[j] + 1] < median
               THEN LowerBound(run, M[j], r.last[j], median)
               ELSE LowerBound(run, r.first[j], M[j], median)
  BY <1>1, Zenon DEF Current
<1>3. runs \in RunSet /\ \A l \in Pakets : Ascending(runs[l])
  BY DEF SortedRuns
<1>4. \A l \in Pakets : r.first[l] \in Nat /\ r.last[l] \in Nat /\ r.last[l] <= Len(runs[l])
  BY NarrowedType
<1>5. /\ M[j] \in Nat /\ M[j] < r.last[j]
      /\ M[pick] \in Nat /\ M[pick] < r.last[pick]
  BY <1>1, MedianBetween
<1>6. /\ run \in Seq(Int) /\ Len(run) \in Nat /\ Ascending(run)
      /\ \A l \in Pakets : Len(runs[l]) \in Nat /\ \A x \in 1 .. Len(runs[l]) : runs[l][x] \in Int
  <2>1. run \in Seq(Values) /\ Len(run) \in Nat
    BY <1>1, <1>3, RunsType
  <2>2. run \in Seq(Int)
    BY <2>1, IntSequence, SplittingAssumption
  <2> QED BY <2>1, <2>2, <1>1, <1>3, RunsType
<1>7. /\ M[j] + 1 \in 1 .. Len(run) /\ run[M[j] + 1] \in Int
      /\ M[pick] + 1 \in 1 .. Len(runs[pick]) /\ median \in Int
  <2>1. /\ Len(runs[j]) \in Nat /\ Len(runs[pick]) \in Nat
        /\ r.last[j] \in Nat /\ r.last[j] <= Len(runs[j])
        /\ r.last[pick] \in Nat /\ r.last[pick] <= Len(runs[pick])
    BY <1>1, <1>4, <1>6
  <2>2. M[j] + 1 \in 1 .. Len(runs[j]) /\ M[pick] + 1 \in 1 .. Len(runs[pick])
    BY <2>1, <1>5
  <2> QED BY <2>2, <1>1, <1>6
<1> HIDE DEF M, median, run, c
<1>8. ASSUME run[M[j] + 1] = median PROVE c = M[j]
  BY <1>2, <1>8
<1>9. ASSUME run[M[j] + 1] < median PROVE M[j] < c
  <2>1. j # pick
    BY <1>7, <1>9 DEF run, median
  <2>2. c = LowerBound(run, M[j], r.last[j], median)
    BY <2>1, <1>2, <1>7, <1>9
  <2> DEFINE from == M[j]
  <2> DEFINE to == r.last[j]
  <2>3. from \in Nat /\ to \in Nat /\ from < to /\ to <= Len(run) /\ run[from + 1] < median
    BY <1>1, <1>4, <1>5, <1>9 DEF run
  <2>4. c = LowerBound(run, from, to, median)
    BY <2>2
  <2> HIDE DEF from, to
  <2>5. from <= to
    BY <2>3
  <2>6. /\ c \in from .. to
        /\ \A x \in c + 1 .. to : median <= run[x]
    BY <2>3, <2>4, <2>5, <1>6, <1>7, LowerBoundDef
  <2>7. from # c
    <3>1. SUFFICES ASSUME from = c PROVE FALSE
      OBVIOUS
    <3>2. from + 1 \in c + 1 .. to
      BY <3>1, <2>3
    <3>3. median <= run[from + 1]
      BY <3>2, <2>6
    <3>4. run[from + 1] \in Int
      BY <1>7 DEF from
    <3> QED BY <3>3, <3>4, <2>3, <1>7
  <2>8. from < c
    BY <2>3, <2>6, <2>7
  <2> QED BY <2>8 DEF from
<1>10. ASSUME run[M[j] + 1] > median PROVE c = r.first[j] <=> median <= run[r.first[j] + 1]
  <2>1. j # pick
    BY <1>7, <1>10 DEF run, median
  <2>2. c = LowerBound(run, r.first[j], M[j], median)
    BY <2>1, <1>2, <1>7, <1>10
  <2> DEFINE from == r.first[j]
  <2> DEFINE to == M[j]
  <2>3. from \in Nat /\ to \in Nat /\ from <= to /\ to < Len(run)
    <3>1. r.first[j] <= M[j]
      BY <1>1, MedianBetween DEF M
    <3>2. M[j] + 1 <= Len(run)
      BY <1>7
    <3> QED BY <3>1, <3>2, <1>1, <1>4, <1>5, <1>6
  <2>4. c = LowerBound(run, from, to, median)
    BY <2>2
  <2>5. run[to + 1] > median
    BY <1>10
  <2> HIDE DEF from, to
  <2>6. /\ c \in from .. to
        /\ \A x \in from + 1 .. c : run[x] < median
        /\ \A x \in c + 1 .. to : median <= run[x]
    <3>1. to <= Len(run)
      BY <2>3, <1>6
    <3> QED BY <3>1, <2>3, <2>4, <1>6, <1>7, LowerBoundDef
  <2>7. from + 1 \in 1 .. Len(run) /\ run[from + 1] \in Int
    <3>1. from + 1 \in 1 .. Len(run)
      BY <2>3, <1>6
    <3> QED BY <3>1, <1>1, <1>6 DEF run
  <2>8. ASSUME c = from PROVE median <= run[from + 1]
    <3>1. CASE from = to
      BY <3>1, <2>5, <2>7, <1>7
    <3>2. CASE from # to
      <4>1. from + 1 \in c + 1 .. to
        BY <2>8, <2>3, <3>2
      <4> QED BY <4>1, <2>6
    <3> QED BY <3>1, <3>2
  <2>9. ASSUME c # from PROVE ~(median <= run[from + 1])
    <3>1. from + 1 \in from + 1 .. c
      BY <2>9, <2>3, <2>6
    <3>2. run[from + 1] < median
      BY <3>1, <2>6
    <3> QED BY <3>2, <2>7, <1>7
  <2> QED BY <2>8, <2>9 DEF from
<1> QED BY <1>8, <1>9, <1>10 DEF M, median, run, c

\* How much is left in the runs of T.
Weights(r, T) == [j \in Pakets |-> IF j \in T THEN r.last[j] - r.first[j] ELSE 0]

LEMMA WeightsType ==
  ASSUME NEW runs, SortedRuns(runs), NEW prefix_size, NEW r, Narrowed(runs, prefix_size, r), NEW T
  PROVE  /\ Weights(r, T) \in Row /\ Weights(r, T) \in Differences /\ Total(Weights(r, T)) \in Nat
         /\ \A l \in Pakets : Weights(r, T)[l] = IF l \in T THEN r.last[l] - r.first[l] ELSE 0
<1>1. \A l \in Pakets : Weights(r, T)[l] = IF l \in T THEN r.last[l] - r.first[l] ELSE 0
  BY DEF Weights
<1>2. \A l \in Pakets : r.first[l] \in Nat /\ r.last[l] \in Nat /\ r.first[l] <= r.last[l]
  BY NarrowedType
<1>3. \A l \in Pakets : Weights(r, T)[l] \in Nat
  BY <1>1, <1>2
<1>4. Weights(r, T) = [l \in Pakets |-> Weights(r, T)[l]]
  BY DEF Weights
<1>5. Weights(r, T) \in Row
  BY <1>3, <1>4 DEF Row
<1>6. Total(Weights(r, T)) \in Nat
  <2>1. num_of_pakets \in 0 .. num_of_pakets
    BY PaketsType
  <2> QED BY <1>5, <2>1, SumsMonotone DEF Total
<1> QED BY <1>1, <1>5, <1>6, RowType

\* More runs weigh no less.
LEMMA WeightsMonotone ==
  ASSUME NEW runs, SortedRuns(runs), NEW prefix_size, NEW r, Narrowed(runs, prefix_size, r),
         NEW T, NEW S \in SUBSET T
  PROVE  Total(Weights(r, S)) <= Total(Weights(r, T))
<1>1. ASSUME NEW l \in Pakets PROVE Weights(r, S)[l] <= Weights(r, T)[l]
  <2>1. r.first[l] \in Nat /\ r.last[l] \in Nat /\ r.first[l] <= r.last[l]
    BY NarrowedType
  <2>2. /\ Weights(r, S)[l] = IF l \in S THEN r.last[l] - r.first[l] ELSE 0
        /\ Weights(r, T)[l] = IF l \in T THEN r.last[l] - r.first[l] ELSE 0
    BY WeightsType
  <2>3. l \in S => l \in T
    OBVIOUS
  <2> QED BY <2>1, <2>2, <2>3
<1>2. Weights(r, S) \in Differences /\ Weights(r, T) \in Differences
  BY WeightsType
<1>3. num_of_pakets \in 0 .. num_of_pakets
  BY PaketsType
<1> QED BY <1>1, <1>2, <1>3, SumsLeq DEF Total

\* Runs with one element left each weigh as much as they are many.
LEMMA WeightsOfSingles ==
  ASSUME NEW runs, SortedRuns(runs), NEW prefix_size, NEW r, Narrowed(runs, prefix_size, r),
         NEW S \in SUBSET Pakets, \A j \in S : r.last[j] - r.first[j] = 1
  PROVE  Total(Weights(r, S)) = Cardinality(S)
<1> DEFINE w == Weights(r, S)
<1> DEFINE upTo(l) == {j \in S : j < l}
<1>1. /\ w \in Differences /\ \A l \in Pakets : w[l] = IF l \in S THEN 1 ELSE 0
  BY WeightsType
<1> HIDE DEF w
<1>2. Sums(w)[0] = 0 /\ \A l \in Pakets : Sums(w)[l + 1] = Sums(w)[l] + w[l]
  BY <1>1, SumsDef
<1> DEFINE A == {l \in 0 .. num_of_pakets :
                   IsFiniteSet(upTo(l)) /\ Cardinality(upTo(l)) \in Nat /\ Sums(w)[l] = Cardinality(upTo(l))}
<1>3. 0 \in A
  <2>1. upTo(0) = {}
    <3>1. \A j \in S : ~(j < 0)
      BY PaketsType
    <3> QED BY <3>1
  <2>2. IsFiniteSet(upTo(0)) /\ Cardinality(upTo(0)) = 0
    BY <2>1, FS_EmptySet
  <2> HIDE DEF upTo
  <2> QED BY <2>2, <1>2, PaketsType
<1>4. ASSUME NEW l \in Pakets, l \in A PROVE l + 1 \in A
  <2>1. l \in Nat /\ l + 1 \in 0 .. num_of_pakets
    BY PaketsType
  <2>2. upTo(l + 1) = IF l \in S THEN upTo(l) \cup {l} ELSE upTo(l)
    <3>1. \A j \in S : j \in Nat
      BY PaketsType
    <3>2. \A j \in S : j < l + 1 <=> j < l \/ j = l
      BY <3>1, <2>1
    <3> QED BY <3>2
  <2>3. IsFiniteSet(upTo(l)) /\ Cardinality(upTo(l)) \in Nat /\ Sums(w)[l] = Cardinality(upTo(l))
    BY <1>4
  <2>4. l \notin upTo(l)
    BY <2>1
  <2> HIDE DEF upTo
  <2>5. IsFiniteSet(upTo(l) \cup {l}) /\ Cardinality(upTo(l) \cup {l}) = Cardinality(upTo(l)) + 1
    BY <2>3, <2>4, FS_AddElement
  <2>6. CASE l \in S
    <3>1. Sums(w)[l + 1] = Sums(w)[l] + 1
      BY <1>1, <1>2, <2>6
    <3>2. upTo(l + 1) = upTo(l) \cup {l}
      BY <2>2, <2>6
    <3>3. Sums(w)[l + 1] = Cardinality(upTo(l + 1)) /\ Cardinality(upTo(l + 1)) \in Nat
      <4>1. Cardinality(upTo(l + 1)) = Cardinality(upTo(l)) + 1
        BY <3>2, <2>5, Zenon
      <4> QED BY <4>1, <3>1, <2>3
    <3> QED BY <3>2, <3>3, <2>1, <2>5
  <2>7. CASE l \notin S
    <3>1. Sums(w)[l + 1] = Sums(w)[l] + 0
      BY <1>1, <1>2, <2>7
    <3>2. upTo(l + 1) = upTo(l)
      BY <2>2, <2>7
    <3> QED BY <3>1, <3>2, <2>1, <2>3
  <2> QED BY <2>6, <2>7
<1>5. 0 .. num_of_pakets \subseteq A
  <2> HIDE DEF A
  <2> QED BY <1>3, <1>4, PaketsInduction
<1>6. Sums(w)[num_of_pakets] = Cardinality(upTo(num_of_pakets))
  <2>1. num_of_pakets \in A
    <3> HIDE DEF A
    <3> QED BY <1>5, PaketsType
  <2> QED BY <2>1
<1>7. upTo(num_of_pakets) = S
  BY PaketsType
<1> HIDE DEF upTo
<1> QED BY <1>6, <1>7 DEF Total, w

\* What is known of a run that is chosen: the set T of runs up to it weighs
\* half of what is left, and the set B of those below it less.
LEMMA PicksDef ==
  ASSUME NEW runs, NEW r, NEW pick \in Picks(runs, r)
  PROVE  LET value(l) == runs[l][Median(r)[l] + 1]
         IN /\ pick \in Nonempty(r)
            /\ \E T \in SUBSET Nonempty(r) :
                 /\ pick \in T
                 /\ \A j \in T : value(j) < value(pick) \/ value(j) = value(pick)
                 /\ Total(Weights(r, T)) >= r.N \div 2
            /\ \E B \in SUBSET Nonempty(r) :
                 /\ \A j \in Nonempty(r) : value(j) < value(pick) => j \in B
                 /\ Total(Weights(r, B)) < r.N \div 2
<1> DEFINE value(l) == runs[l][Median(r)[l] + 1]
<1> DEFINE below == {l \in Nonempty(r) : value(l) < value(pick)}
<1> DEFINE equal == {l \in Nonempty(r) \ {pick} : value(l) = value(pick)}
<1>1. /\ pick \in Nonempty(r)
      /\ \E S \in SUBSET equal : /\ Total(Weights(r, below \cup S)) < r.N \div 2
                                 /\ Total(Weights(r, below \cup S \cup {pick})) >= r.N \div 2
  BY Zenon DEF Picks, Weights
<1>2. PICK S \in SUBSET equal : /\ Total(Weights(r, below \cup S)) < r.N \div 2
                                /\ Total(Weights(r, below \cup S \cup {pick})) >= r.N \div 2
  BY <1>1
<1> DEFINE T == below \cup S \cup {pick}
<1> DEFINE B == below \cup S
<1>3. T \in SUBSET Nonempty(r) /\ pick \in T
  BY <1>1
<1>4. \A j \in T : value(j) < value(pick) \/ value(j) = value(pick)
  <2> HIDE DEF value
  <2> QED OBVIOUS
<1>5. Total(Weights(r, T)) >= r.N \div 2
  BY <1>2
<1>6. /\ B \in SUBSET Nonempty(r)
      /\ \A j \in Nonempty(r) : value(j) < value(pick) => j \in B
  OBVIOUS
<1>7. Total(Weights(r, B)) < r.N \div 2
  BY <1>2
<1> HIDE DEF T, B, value
<1>8. \E U \in SUBSET Nonempty(r) :
        /\ pick \in U
        /\ \A j \in U : value(j) < value(pick) \/ value(j) = value(pick)
        /\ Total(Weights(r, U)) >= r.N \div 2
  BY <1>3, <1>4, <1>5
<1>9. \E U \in SUBSET Nonempty(r) :
        /\ \A j \in Nonempty(r) : value(j) < value(pick) => j \in U
        /\ Total(Weights(r, U)) < r.N \div 2
  BY <1>6, <1>7
<1> QED BY <1>1, <1>8, <1>9 DEF value

\* The middle elements of the runs with elements left.
LEMMA MiddleType ==
  ASSUME NEW runs, SortedRuns(runs), NEW prefix_size, NEW r, Narrowed(runs, prefix_size, r),
         NEW j \in Nonempty(r)
  PROVE  /\ j \in Pakets /\ runs[j][Median(r)[j] + 1] \in Values /\ runs[j][Median(r)[j] + 1] \in Int
         /\ runs[j][r.first[j] + 1] \in Int
         /\ r.last[j] - r.first[j] = 1 =>
              Median(r)[j] = r.first[j] /\ Median(r)[j] + 1 = r.last[j]
<1>1. j \in Pakets
  BY DEF Nonempty
<1>2. /\ Median(r)[j] \in Nat /\ r.first[j] <= Median(r)[j] /\ Median(r)[j] < r.last[j]
      /\ r.first[j] \in Nat /\ r.last[j] \in Nat /\ r.last[j] <= Len(runs[j])
  BY <1>1, MedianBetween, NarrowedType
<1>3. Len(runs[j]) \in Nat /\ \A x \in 1 .. Len(runs[j]) : runs[j][x] \in Values /\ runs[j][x] \in Int
  BY <1>1, RunsType DEF SortedRuns
<1>4. Median(r)[j] + 1 \in 1 .. Len(runs[j]) /\ r.first[j] + 1 \in 1 .. Len(runs[j])
  BY <1>2, <1>3
<1>5. ASSUME r.last[j] - r.first[j] = 1
      PROVE  Median(r)[j] = r.first[j] /\ Median(r)[j] + 1 = r.last[j]
  <2>1. Median(r)[j] = r.first[j] + (r.last[j] - r.first[j]) \div 2
    BY <1>1 DEF Median
  <2> QED BY <2>1, <1>2, <1>5
<1> QED BY <1>1, <1>3, <1>4, <1>5

\* A median_split stands still, cutting every run where it starts, if and only if
\* half of what is left are single elements of the least value.
LEMMA StandsStill ==
  ASSUME NEW runs, SortedRuns(runs), NEW prefix_size, NEW r, Narrowed(runs, prefix_size, r),
         NEW pick \in Picks(runs, r)
  PROVE  (\A j \in Pakets : Current(runs, r, pick)[j] = r.first[j]) <=> LeastSingles(runs, r)
<1> DEFINE value(l) == runs[l][Median(r)[l] + 1]
<1> DEFINE c == Current(runs, r, pick)
<1> DEFINE single(v) == {j \in Nonempty(r) : r.last[j] - r.first[j] = 1 /\ runs[j][r.last[j]] = v}
<1>0. LeastSingles(runs, r) <=>
        \E v \in Values :
          /\ Cardinality(single(v)) >= r.N \div 2
          /\ \A j \in Nonempty(r) \ single(v) : v <= runs[j][r.first[j] + 1] /\ v < value(j)
  BY DEF LeastSingles
<1>1. pick \in Nonempty(r)
  BY PicksDef
<1>2. \A j \in Nonempty(r) :
        /\ j \in Pakets /\ value(j) \in Values /\ value(j) \in Int /\ runs[j][r.first[j] + 1] \in Int
        /\ r.last[j] - r.first[j] = 1 =>
             Median(r)[j] = r.first[j] /\ Median(r)[j] + 1 = r.last[j]
  BY MiddleType
<1>3. \A j \in Nonempty(r) :
        /\ value(j) = value(pick) => c[j] = Median(r)[j]
        /\ value(j) < value(pick) => Median(r)[j] < c[j]
        /\ value(j) > value(pick) => (c[j] = r.first[j] <=> value(pick) <= runs[j][r.first[j] + 1])
  BY <1>1, CurrentUpToMedian
<1>4. \A j \in Nonempty(r) :
        /\ r.first[j] \in Nat /\ Median(r)[j] \in Nat /\ r.first[j] <= Median(r)[j]
        /\ Median(r)[j] = r.first[j] => r.last[j] - r.first[j] = 1
  BY <1>2, MedianBetween, NarrowedType
<1>5. r.N \in Nat
  BY NarrowedType
<1>6. \A v : /\ \A j \in single(v) : j \in Nonempty(r) /\ r.last[j] - r.first[j] = 1 /\ value(j) = v
             /\ \A j \in Nonempty(r) : r.last[j] - r.first[j] = 1 /\ value(j) = v => j \in single(v)
             /\ single(v) \in SUBSET Nonempty(r) /\ single(v) \in SUBSET Pakets
  BY <1>2
<1>7. \A v : Total(Weights(r, single(v))) = Cardinality(single(v))
  <2> HIDE DEF single
  <2> QED BY <1>6, WeightsOfSingles
<1>8. \A T : Total(Weights(r, T)) \in Nat
  BY WeightsType
<1>9. \A T : \A S \in SUBSET T : Total(Weights(r, S)) <= Total(Weights(r, T))
  BY WeightsMonotone
<1>10. \E T \in SUBSET Nonempty(r) :
         /\ \A j \in T : value(j) < value(pick) \/ value(j) = value(pick)
         /\ Total(Weights(r, T)) >= r.N \div 2
  BY PicksDef
<1>11. \E B \in SUBSET Nonempty(r) :
         /\ \A j \in Nonempty(r) : value(j) < value(pick) => j \in B
         /\ Total(Weights(r, B)) < r.N \div 2
  BY PicksDef
<1>12. \A j \in Pakets : j \notin Nonempty(r) => c[j] = r.first[j]
  <2>1. SUFFICES ASSUME NEW j \in Pakets, j \notin Nonempty(r) PROVE c[j] = r.first[j]
    OBVIOUS
  <2>2. c[j] = Median(r)[j]
    BY <2>1, Zenon DEF Current
  <2>3. r.first[j] = r.last[j] /\ r.first[j] \in Nat
    BY <2>1, NarrowedType DEF Nonempty
  <2>4. Median(r)[j] = r.first[j] + (r.last[j] - r.first[j]) \div 2
    BY DEF Median
  <2> QED BY <2>2, <2>3, <2>4
<1> HIDE DEF value, c, single
<1>13. ASSUME \A j \in Pakets : c[j] = r.first[j] PROVE LeastSingles(runs, r)
  <2> DEFINE v == value(pick)
  <2>1. \A j \in Nonempty(r) : c[j] = r.first[j]
    BY <1>2, <1>13
  <2>2. \A j \in Nonempty(r) : ~(value(j) < v)
    BY <2>1, <1>3, <1>4
  <2>3. \A j \in Nonempty(r) : value(j) = v => j \in single(v)
    <3>1. SUFFICES ASSUME NEW j \in Nonempty(r), value(j) = v PROVE j \in single(v)
      OBVIOUS
    <3>2. Median(r)[j] = r.first[j]
      BY <2>1, <1>3, <3>1
    <3>3. r.last[j] - r.first[j] = 1
      BY <3>2, <1>4
    <3> QED BY <3>1, <3>3, <1>6
  <2>4. \A j \in Nonempty(r) \ single(v) : v <= runs[j][r.first[j] + 1] /\ v < value(j)
    <3>1. SUFFICES ASSUME NEW j \in Nonempty(r), j \notin single(v)
                   PROVE  v <= runs[j][r.first[j] + 1] /\ v < value(j)
      OBVIOUS
    <3>2. value(j) # v /\ ~(value(j) < v)
      BY <3>1, <2>2, <2>3
    <3>3. value(j) > v
      BY <3>2, <1>1, <1>2
    <3> QED BY <3>3, <2>1, <1>3, <1>1, <1>2
  <2>5. Cardinality(single(v)) >= r.N \div 2
    <3>1. PICK T \in SUBSET Nonempty(r) :
            /\ \A j \in T : value(j) < v \/ value(j) = v
            /\ Total(Weights(r, T)) >= r.N \div 2
      BY <1>10
    <3>2. T \in SUBSET single(v)
      BY <3>1, <2>2, <2>3
    <3>3. Total(Weights(r, T)) <= Total(Weights(r, single(v)))
      BY <3>2, <1>9
    <3>4. r.N \div 2 \in Int
      BY <1>5
    <3>5. /\ Total(Weights(r, T)) \in Nat /\ Total(Weights(r, single(v))) \in Nat
          /\ Total(Weights(r, single(v))) = Cardinality(single(v))
      BY <1>7, <1>8
    <3> QED BY <3>1, <3>3, <3>4, <3>5
  <2>6. v \in Values
    BY <1>1, <1>2
  <2> QED BY <1>0, <2>4, <2>5, <2>6
<1>14. ASSUME LeastSingles(runs, r) PROVE \A j \in Pakets : c[j] = r.first[j]
  <2>1. PICK v \in Values :
          /\ Cardinality(single(v)) >= r.N \div 2
          /\ \A j \in Nonempty(r) \ single(v) : v <= runs[j][r.first[j] + 1] /\ v < value(j)
    BY <1>0, <1>14
  <2>2. v \in Int
    BY SplittingAssumption
  <2>3. value(pick) = v
    <3>1. SUFFICES ASSUME value(pick) # v PROVE FALSE
      OBVIOUS
    <3>2. pick \notin single(v)
      BY <3>1, <1>6
    <3>3. v < value(pick)
      BY <3>2, <2>1, <1>1
    <3>4. PICK B \in SUBSET Nonempty(r) :
            /\ \A j \in Nonempty(r) : value(j) < value(pick) => j \in B
            /\ Total(Weights(r, B)) < r.N \div 2
      BY <1>11
    <3>5. \A j \in single(v) : j \in Nonempty(r) /\ value(j) < value(pick)
      BY <1>6, <3>3
    <3>6. single(v) \in SUBSET B
      BY <3>4, <3>5
    <3>7. Total(Weights(r, single(v))) <= Total(Weights(r, B))
      BY <3>6, <1>9
    <3>8. r.N \div 2 \in Int
      BY <1>5
    <3>9. /\ Total(Weights(r, B)) \in Nat /\ Total(Weights(r, single(v))) \in Nat
          /\ Total(Weights(r, single(v))) = Cardinality(single(v))
      BY <1>7, <1>8
    <3> QED BY <2>1, <3>4, <3>7, <3>8, <3>9
  <2>4. SUFFICES ASSUME NEW j \in Nonempty(r) PROVE c[j] = r.first[j]
    BY <1>12
  <2>5. CASE j \in single(v)
    <3>1. r.last[j] - r.first[j] = 1 /\ value(j) = v
      BY <2>5, <1>6
    <3>2. Median(r)[j] = r.first[j]
      BY <3>1, <1>2
    <3> QED BY <3>1, <3>2, <2>3, <1>3
  <2>6. CASE j \notin single(v)
    <3>1. v <= runs[j][r.first[j] + 1] /\ v < value(j)
      BY <2>1, <2>6
    <3>2. value(j) > value(pick)
      BY <3>1, <2>2, <2>3, <1>2
    <3> QED BY <3>1, <3>2, <2>3, <1>3
  <2> QED BY <2>5, <2>6
<1> QED BY <1>13, <1>14 DEF c

\* The lower half never is everything: the median itself is above it.
LEMMA SplittersStayBelow ==
  ASSUME NEW runs, SortedRuns(runs), NEW prefix_size, NEW r, Narrowed(runs, prefix_size, r),
         NEW pick \in Nonempty(r)
  PROVE  Total(Current(runs, r, pick)) < Total(r.last)
<1> DEFINE c == Current(runs, r, pick)
<1>1. c \in Row /\ \A j \in Pakets : c[j] <= r.last[j]
  BY CurrentCuts
<1>2. r.last \in Row
  BY ReductionType DEF Narrowed
<1>3. pick \in Pakets
  BY DEF Nonempty
<1>4. c[pick] = Median(r)[pick]
  BY CurrentUpToMedian
<1>5. /\ Median(r)[pick] \in Nat /\ Median(r)[pick] < r.last[pick] /\ r.last[pick] \in Nat
  BY <1>3, MedianBetween, NarrowedType
<1> HIDE DEF c
<1>6. Total(c) \in Int /\ Total(r.last) \in Int
  BY <1>1, <1>2, RowType, TotalType
<1>7. SUFFICES ASSUME Total(r.last) <= Total(c) PROVE FALSE
  BY <1>6 DEF c
<1>8. c[pick] = r.last[pick]
  BY <1>1, <1>2, <1>3, <1>7, SameTotal
<1> QED BY <1>4, <1>5, <1>8

\* A median_split decides something, and never takes the row's own element out of
\* what is left; or it stands still, and then what is left are the singles.
LEMMA MedianSplitShrinks ==
  ASSUME NEW runs, SortedRuns(runs), NEW prefix_size \in Int, NEW r,
         Narrowed(runs, prefix_size, r), r.N >= 1, NEW t \in median_split(runs, r)
  PROVE  /\ r.prefix >= 1 => IF LeastSingles(runs, r) THEN t = r ELSE t.N < r.N /\ t.prefix \in 1 .. t.N
         /\ r.prefix = 0 => t.N < r.N
<1>1. PICK pick \in Picks(runs, r) : t = Narrow(r, Current(runs, r, pick))
  BY DEF median_split
<1>2. pick \in Nonempty(r)
  BY PicksDef
<1> DEFINE c == Current(runs, r, pick)
<1>3. t = IF Total(c) - Total(r.first) < r.prefix
          THEN [r EXCEPT !.first = c, !.prefix = r.prefix - (Total(c) - Total(r.first)),
                         !.N = r.N - (Total(c) - Total(r.first))]
          ELSE [r EXCEPT !.last = c, !.N = Total(c) - Total(r.first)]
  BY <1>1 DEF Narrow
<1>4. Total(c) < Total(r.last)
  BY <1>2, SplittersStayBelow
<1>5. c \in Row /\ \A j \in Pakets : r.first[j] <= c[j]
  BY <1>2, CurrentCuts
<1>6. (\A j \in Pakets : c[j] = r.first[j]) <=> LeastSingles(runs, r)
  BY StandsStill
<1> HIDE DEF c
<1>7. r \in Reduction /\ r.N = Total(r.last) - Total(r.first)
  BY DEF Narrowed
<1>8. /\ r.first \in Row /\ r.last \in Row /\ r.prefix \in Int /\ r.N \in Int
      /\ r.prefix \in Nat
  BY <1>7, ReductionType, NarrowedType
<1>9. Total(c) \in Int /\ Total(r.first) \in Int /\ Total(r.last) \in Int
  BY <1>5, <1>8, RowType, TotalType
<1>10. Narrowed(runs, prefix_size, t)
  BY MedianSplitNarrows
<1>11. t.N \in Int /\ t.prefix \in Int /\ t.prefix <= t.N
  BY <1>10, ReductionType DEF Narrowed
<1>12. Total(r.first) <= Total(c)
  <2>1. r.first \in Differences /\ c \in Differences
    BY <1>5, <1>8, RowType
  <2>2. \A l \in 0 .. num_of_pakets : Sums(r.first)[l] <= Sums(c)[l]
    BY <2>1, <1>5, SumsLeq
  <2> QED BY <2>2, PaketsType DEF Total
<1>13. CASE Total(c) - Total(r.first) < r.prefix
  <2>1. t.prefix = r.prefix - (Total(c) - Total(r.first)) /\ t.N = r.N - (Total(c) - Total(r.first))
    BY <1>3, <1>7, <1>13 DEF Reduction
  <2>2. r.prefix >= 1
    BY <1>8, <1>9, <1>12, <1>13
  <2>3. CASE LeastSingles(runs, r)
    <3>1. c = r.first
      BY <2>3, <1>5, <1>6, <1>8 DEF Row
    <3>2. Total(c) - Total(r.first) = 0
      BY <3>1, <1>9
    <3>3. t = [r EXCEPT !.first = r.first, !.prefix = r.prefix, !.N = r.N]
      <4>1. t = [r EXCEPT !.first = c, !.prefix = r.prefix - (Total(c) - Total(r.first)),
                          !.N = r.N - (Total(c) - Total(r.first))]
        BY <1>3, <1>13, Zenon
      <4>2. /\ r.prefix - (Total(c) - Total(r.first)) = r.prefix
            /\ r.N - (Total(c) - Total(r.first)) = r.N
        BY <3>2, <1>8
      <4> QED BY <4>1, <4>2, <3>1, Zenon
    <3>4. t = r
      BY <3>3, <1>7 DEF Reduction
    <3> QED BY <3>4, <2>2, <2>3, <1>8
  <2>4. CASE ~LeastSingles(runs, r)
    <3>1. Total(r.first) < Total(c)
      <4>1. SUFFICES ASSUME Total(c) <= Total(r.first) PROVE FALSE
        BY <1>9
      <4>2. \A j \in Pakets : r.first[j] = c[j]
        BY <4>1, <1>5, <1>8, SameTotal
      <4> QED BY <4>2, <2>4, <1>6
    <3>2. t.N < r.N /\ t.prefix \in 1 .. t.N
      BY <3>1, <2>1, <1>8, <1>9, <1>11, <1>13
    <3> QED BY <3>2, <2>2, <2>4, <1>8
  <2> QED BY <2>3, <2>4
<1>14. CASE ~(Total(c) - Total(r.first) < r.prefix)
  <2>1. t.prefix = r.prefix /\ t.N = Total(c) - Total(r.first)
    BY <1>3, <1>7, <1>14 DEF Reduction
  <2>2. t.N < r.N
    BY <2>1, <1>4, <1>7, <1>9
  <2>3. CASE r.prefix >= 1
    <3>1. ~LeastSingles(runs, r)
      <4>1. SUFFICES ASSUME LeastSingles(runs, r) PROVE FALSE
        OBVIOUS
      <4>2. c = r.first
        BY <4>1, <1>5, <1>6, <1>8 DEF Row
      <4>3. Total(c) - Total(r.first) = 0
        BY <4>2, <1>9
      <4> QED BY <4>3, <2>3, <1>8, <1>14
    <3>2. t.prefix \in 1 .. t.N
      BY <2>1, <2>3, <1>8, <1>11
    <3> QED BY <3>1, <3>2, <2>2
  <2>4. CASE r.prefix = 0
    BY <2>2, <2>4
  <2> QED BY <2>3, <2>4, <1>8
<1> QED BY <1>13, <1>14

\* No element of the row is lost, through the whole loop of reduce_split.
LEMMA ReductionsPositive ==
  ASSUME NEW runs, SortedRuns(runs), NEW prefix_size \in Int, NEW r,
         Narrowed(runs, prefix_size, r), r.prefix >= 1, NEW t \in Reductions(runs)[r]
  PROVE  t.prefix >= 1
<1> DEFINE R == {d \in Reduction : Narrowed(runs, prefix_size, d) /\ d.prefix >= 1}
<1> DEFINE A == {k \in Nat : \A d \in R : d.N < k =>
                               \A u \in Reductions(runs)[d] : u.prefix >= 1}
<1>0. \A d \in R : /\ d \in Reduction /\ d.N \in Nat /\ d.N >= 1 /\ d.prefix \in Nat
                   /\ Narrowed(runs, prefix_size, d) /\ d.prefix >= 1
  <2>1. SUFFICES ASSUME NEW d \in R PROVE d.N \in Nat /\ d.N >= 1 /\ d.prefix \in Nat
    OBVIOUS
  <2>2. d.N \in Int /\ d.prefix \in Int
    BY ReductionType
  <2>3. 0 <= d.prefix /\ d.prefix <= d.N /\ d.prefix >= 1
    BY DEF Narrowed
  <2> QED BY <2>2, <2>3
<1>1. 0 \in A
  <2>1. \A d \in R : ~(d.N < 0)
    BY <1>0
  <2> HIDE DEF R
  <2> QED BY <2>1
<1>2. ASSUME NEW k \in Nat, k \in A PROVE k + 1 \in A
  <2>1. SUFFICES ASSUME NEW d \in R, d.N < k + 1, NEW u \in Reductions(runs)[d]
                 PROVE  u.prefix >= 1
    OBVIOUS
  <2>2. u = d \/ (d.N > num_of_pakets + Slack /\ \E v \in Shrunk(runs, d) : u \in Reductions(runs)[v])
    BY <1>0, ReductionsDef
  <2>3. CASE u = d
    BY <2>3, <1>0
  <2>4. CASE d.N > num_of_pakets + Slack /\ \E v \in Shrunk(runs, d) : u \in Reductions(runs)[v]
    <3>1. PICK v \in Shrunk(runs, d) : u \in Reductions(runs)[v]
      BY <2>4
    <3>2. v \in median_split(runs, d) /\ v.N < d.N
      BY DEF Shrunk
    <3>3. Narrowed(runs, prefix_size, v)
      BY <3>2, <1>0, MedianSplitNarrows
    <3>4. v.prefix \in 1 .. v.N
      <4>1. v # d
        BY <3>2, <1>0
      <4>2. d.prefix >= 1 =>
              IF LeastSingles(runs, d) THEN v = d ELSE v.N < d.N /\ v.prefix \in 1 .. v.N
        BY <3>2, <1>0, MedianSplitShrinks
      <4> QED BY <4>1, <4>2, <1>0
    <3>5. v \in Reduction
      BY <3>3 DEF Narrowed
    <3>6. v.N \in Int /\ v.prefix \in Int
      BY <3>5, ReductionType
    <3>7. v \in R
      BY <3>3, <3>4, <3>5, <3>6
    <3>8. v.N < k
      BY <3>2, <3>6, <2>1, <1>0
    <3> QED BY <3>1, <3>7, <3>8, <1>2
  <2> QED BY <2>2, <2>3, <2>4
<1>3. Nat \subseteq A
  <2> HIDE DEF A
  <2> QED BY <1>1, <1>2, NatSetInduction
<1>4. r \in R
  BY DEF Narrowed
<1>5. r.N + 1 \in Nat /\ r.N < r.N + 1
  BY <1>0, <1>4
<1> QED BY <1>3, <1>4, <1>5

\* In the loop of reduce_split, for every number of packets and every slack: each
\* turn leaves less to decide, whatever medians are chosen, or it comes to a
\* reduction of which half are single elements of the least value, and from then on
\* every turn leaves what it was given.
THEOREM ReductionEnds ==
  ASSUME NEW runs, SortedRuns(runs), NEW prefix_size \in 1 .. Total(RunLengths(runs)),
         NEW r \in Reductions(runs)[InitialReduction(runs, prefix_size)],
         r.N > num_of_pakets + Slack, NEW t \in median_split(runs, r)
  PROVE  IF LeastSingles(runs, r) THEN t = r ELSE t.N < r.N /\ t.prefix \in 1 .. t.N
<1> DEFINE initial == InitialReduction(runs, prefix_size)
<1>1. prefix_size \in Int /\ prefix_size \in 0 .. Total(RunLengths(runs))
  BY DEF RunLengths
<1>2. Narrowed(runs, prefix_size, initial)
  BY <1>1, InitialNarrowed
<1>3. initial.prefix >= 1
  BY DEF InitialReduction
<1> HIDE DEF initial
<1>4. Narrowed(runs, prefix_size, r)
  BY <1>1, <1>2, ReductionsNarrow DEF initial
<1>5. r.prefix >= 1
  BY <1>1, <1>2, <1>3, ReductionsPositive DEF initial
<1>6. r.N >= 1
  <2>1. r.N \in Nat
    BY <1>4, NarrowedType
  <2> QED BY <2>1, SplittingAssumption
<1> QED BY <1>1, <1>4, <1>5, <1>6, MedianSplitShrinks

\* Among some packets there is one with the greatest value.
LEMMA GreatestPaket ==
  ASSUME NEW S \in SUBSET Pakets, S # {}, NEW v, \A j \in S : v[j] \in Int
  PROVE  \E j \in S : \A l \in S : v[l] <= v[j]
<1> DEFINE P == {x \in 1 .. num_of_pakets : x - 1 \in S}
<1> DEFINE h == [x \in P |-> v[x - 1]]
<1>1. \A x \in P : x - 1 \in S /\ h[x] = v[x - 1] /\ h[x] \in Int
  OBVIOUS
<1>2. \A l \in S : l + 1 \in P /\ (l + 1) - 1 = l
  BY PaketsType
<1>3. P \in SUBSET (1 .. num_of_pakets) /\ P # {} /\ num_of_pakets \in Nat
  BY <1>2, PaketsType
<1> HIDE DEF P, h
<1>4. PICK x \in P : \A y \in P : h[y] <= h[x]
  BY <1>1, <1>3, GreatestPosition
<1>5. \A l \in S : v[l] <= v[x - 1]
  BY <1>1, <1>2, <1>4
<1> QED BY <1>1, <1>5

\* Of a set of runs with something left each, a part weighs less than the whole.
LEMMA WeightsLess ==
  ASSUME NEW runs, SortedRuns(runs), NEW prefix_size, NEW r, Narrowed(runs, prefix_size, r),
         NEW T \in SUBSET Nonempty(r), NEW j \in T
  PROVE  /\ Total(Weights(r, T)) \in Nat /\ Total(Weights(r, T \ {j})) \in Nat
         /\ Total(Weights(r, T \ {j})) < Total(Weights(r, T))
<1>1. \A l \in Pakets : r.first[l] \in Nat /\ r.last[l] \in Nat /\ r.first[l] <= r.last[l]
  BY NarrowedType
<1>2. \A U : /\ Weights(r, U) \in Row /\ Total(Weights(r, U)) \in Nat
             /\ \A l \in Pakets : Weights(r, U)[l] = IF l \in U THEN r.last[l] - r.first[l] ELSE 0
  BY WeightsType
<1>3. j \in Pakets /\ r.last[j] - r.first[j] # 0
  BY <1>1 DEF Nonempty
<1>4. /\ Weights(r, T) \in Row /\ Total(Weights(r, T)) \in Nat
      /\ Weights(r, T \ {j}) \in Row /\ Total(Weights(r, T \ {j})) \in Nat
  BY <1>2
<1>5. \A l \in Pakets : Weights(r, T \ {j})[l] <= Weights(r, T)[l]
  <2>1. SUFFICES ASSUME NEW l \in Pakets PROVE Weights(r, T \ {j})[l] <= Weights(r, T)[l]
    OBVIOUS
  <2>2. /\ Weights(r, T)[l] = IF l \in T THEN r.last[l] - r.first[l] ELSE 0
        /\ Weights(r, T \ {j})[l] = IF l \in T \ {j} THEN r.last[l] - r.first[l] ELSE 0
    BY <1>2
  <2> QED BY <2>2, <1>1
<1>6. Weights(r, T \ {j})[j] = 0 /\ Weights(r, T)[j] # 0
  BY <1>2, <1>3
<1>7. SUFFICES ASSUME Total(Weights(r, T)) <= Total(Weights(r, T \ {j})) PROVE FALSE
  BY <1>4
<1> QED BY <1>3, <1>4, <1>5, <1>6, <1>7, SameTotal

\* Some run is the weighted median: of the sets of runs that hold, with a run, all
\* runs of lesser medians, take the lightest that weighs half of what is left.
LEMMA PicksExist ==
  ASSUME NEW runs, SortedRuns(runs), NEW prefix_size, NEW r, Narrowed(runs, prefix_size, r),
         r.N >= 2
  PROVE  Picks(runs, r) # {}
<1> DEFINE value(l) == runs[l][Median(r)[l] + 1]
<1> DEFINE v == [l \in Nonempty(r) |-> value(l)]
<1> DEFINE half == r.N \div 2
<1> DEFINE Top(T, j) == /\ j \in T /\ \A l \in T : v[l] <= v[j]
                        /\ \A l \in Nonempty(r) : v[l] < v[j] => l \in T
<1> DEFINE Heavy == {T \in SUBSET Nonempty(r) :
                       Total(Weights(r, T)) >= half /\ \E j \in Nonempty(r) : Top(T, j)}
<1> DEFINE M == {Total(Weights(r, T)) : T \in Heavy}
<1>1. r.N \in Nat /\ half \in Nat /\ 1 <= half /\ half <= r.N
  <2>1. r.N \in Nat
    BY NarrowedType
  <2>2. \A n \in Nat : n >= 2 => n \div 2 \in Nat /\ 1 <= n \div 2 /\ n \div 2 <= n
    OBVIOUS
  <2> QED BY <2>1, <2>2
<1>2. \A l \in Nonempty(r) : l \in Pakets /\ v[l] = value(l) /\ v[l] \in Int
  <2>1. SUFFICES ASSUME NEW l \in Nonempty(r) PROVE l \in Pakets /\ value(l) \in Int
    OBVIOUS
  <2>2. l \in Pakets
    BY DEF Nonempty
  <2>3. Median(r)[l] \in Nat /\ Median(r)[l] < r.last[l] /\ r.last[l] \in Nat /\ r.last[l] <= Len(runs[l])
    BY <2>2, MedianBetween, NarrowedType
  <2>4. Len(runs[l]) \in Nat /\ \A x \in 1 .. Len(runs[l]) : runs[l][x] \in Int
    BY <2>2, RunsType DEF SortedRuns
  <2>5. Median(r)[l] + 1 \in 1 .. Len(runs[l])
    BY <2>3, <2>4
  <2> QED BY <2>2, <2>4, <2>5
<1> HIDE DEF v, half
<1>3. Total(Weights(r, Nonempty(r))) = r.N
  <2>1. \A l \in Pakets : r.first[l] \in Nat /\ r.last[l] \in Nat
    BY NarrowedType
  <2>2. \A l \in Pakets : (IF l \in Nonempty(r) THEN r.last[l] - r.first[l] ELSE 0) = r.last[l] - r.first[l]
    BY <2>1 DEF Nonempty
  <2>3. Weights(r, Nonempty(r)) = [l \in Pakets |-> r.last[l] - r.first[l]]
    BY <2>2 DEF Weights
  <2> QED BY <2>3, NarrowedType
<1>4. Nonempty(r) # {}
  <2>1. SUFFICES ASSUME Nonempty(r) = {} PROVE FALSE
    OBVIOUS
  <2> DEFINE w == Weights(r, {})
  <2>2. w \in Differences /\ \A l \in Pakets : w[l] = 0
    BY DEF Weights, Differences
  <2> HIDE DEF w
  <2>3. Total(w) = 0
    BY <2>2, SumsZero, PaketsType DEF Total
  <2> QED BY <2>1, <2>3, <1>1, <1>3 DEF w
<1>5. Nonempty(r) \in Heavy
  <2>1. Nonempty(r) \in SUBSET Pakets
    BY <1>2
  <2>2. PICK j \in Nonempty(r) : \A l \in Nonempty(r) : v[l] <= v[j]
    BY <2>1, <1>2, <1>4, GreatestPaket
  <2>3. Top(Nonempty(r), j)
    BY <2>2
  <2> QED BY <2>3, <1>1, <1>3
<1>6. \A T \in Heavy : Total(Weights(r, T)) \in Nat
  <2>1. SUFFICES ASSUME NEW T \in Heavy PROVE Total(Weights(r, T)) \in Nat
    OBVIOUS
  <2>2. PICK j \in Nonempty(r) : j \in T
    OBVIOUS
  <2>3. T \in SUBSET Nonempty(r)
    OBVIOUS
  <2> HIDE DEF Heavy
  <2> QED BY <2>2, <2>3, WeightsLess
<1>7. PICK T \in Heavy : \A U \in Heavy : Total(Weights(r, T)) <= Total(Weights(r, U))
  <2>1. M \in SUBSET Nat /\ M # {}
    <3> HIDE DEF Heavy
    <3> QED BY <1>5, <1>6
  <2>2. PICK n \in M : \A m \in M : n <= m
    <3> HIDE DEF M
    <3> QED BY <2>1, LeastNatural
  <2> HIDE DEF Heavy
  <2> QED BY <2>2
<1>8. PICK j \in Nonempty(r) : Top(T, j)
  OBVIOUS
<1>9. T \in SUBSET Nonempty(r) /\ Total(Weights(r, T)) >= half
  OBVIOUS
<1> DEFINE U == T \ {j}
<1>10. Total(Weights(r, T)) \in Nat /\ Total(Weights(r, U)) \in Nat
       /\ Total(Weights(r, U)) < Total(Weights(r, T))
  BY <1>8, <1>9, WeightsLess
<1>11. Total(Weights(r, U)) < half
  <2>1. SUFFICES ASSUME Total(Weights(r, U)) >= half PROVE FALSE
    BY <1>1, <1>10
  <2>2. U \in SUBSET Nonempty(r) /\ U \in SUBSET Pakets
    BY <1>2, <1>9
  <2>3. U # {}
    <3>1. SUFFICES ASSUME U = {} PROVE FALSE
      OBVIOUS
    <3> DEFINE w == Weights(r, {})
    <3>2. w \in Differences /\ \A l \in Pakets : w[l] = 0
      BY DEF Weights, Differences
    <3> HIDE DEF w, U
    <3>3. Total(w) = 0
      BY <3>2, SumsZero, PaketsType DEF Total
    <3> QED BY <3>1, <3>3, <2>1, <1>1 DEF w
  <2>4. PICK k \in U : \A l \in U : v[l] <= v[k]
    <3>1. \A l \in U : v[l] \in Int
      BY <1>2, <2>2
    <3> HIDE DEF U
    <3> QED BY <2>2, <2>3, <3>1, GreatestPaket
  <2>5. k \in Nonempty(r) /\ v[k] \in Int /\ v[j] \in Int /\ v[k] <= v[j]
    BY <1>2, <1>8, <2>2, <2>4
  <2>6. \A l \in Nonempty(r) : v[l] < v[k] => l \in U
    <3>1. SUFFICES ASSUME NEW l \in Nonempty(r), v[l] < v[k] PROVE l \in U
      OBVIOUS
    <3>2. v[l] \in Int /\ v[l] < v[j]
      BY <1>2, <2>5, <3>1
    <3>3. l \in T /\ l # j
      BY <1>8, <2>5, <3>2
    <3> QED BY <3>3
  <2>7. Top(U, k)
    BY <2>4, <2>6
  <2>8. U \in Heavy
    BY <2>1, <2>2, <2>5, <2>7
  <2> HIDE DEF Heavy, U
  <2> QED BY <1>7, <1>10, <2>8
<1> DEFINE below == {l \in Nonempty(r) : value(l) < value(j)}
<1> DEFINE equal == {l \in Nonempty(r) \ {j} : value(l) = value(j)}
<1> DEFINE S == U \ below
<1>12. S \in SUBSET equal
  <2>1. SUFFICES ASSUME NEW l \in S PROVE l \in equal
    OBVIOUS
  <2>2. l \in T /\ l # j /\ l \in Nonempty(r) /\ ~(value(l) < value(j))
    BY <1>9
  <2>3. v[l] = value(l) /\ v[j] = value(j) /\ v[l] \in Int /\ v[j] \in Int /\ v[l] <= v[j]
    BY <1>2, <1>8, <2>2
  <2> HIDE DEF value
  <2> QED BY <2>2, <2>3
<1>13. below \cup S = U
  <2>1. \A l \in below : l \in U
    <3>1. SUFFICES ASSUME NEW l \in below PROVE l \in U
      OBVIOUS
    <3>2. l \in Nonempty(r) /\ value(l) < value(j)
      OBVIOUS
    <3>3. v[l] = value(l) /\ v[j] = value(j) /\ v[l] \in Int /\ v[j] \in Int
      BY <1>2, <3>2
    <3> HIDE DEF value
    <3>4. v[l] < v[j]
      BY <3>2, <3>3
    <3>5. l \in T /\ l # j
      BY <1>8, <3>2, <3>3, <3>4
    <3> QED BY <3>5
  <2> HIDE DEF below, U
  <2> QED BY <2>1
<1>14. below \cup S \cup {j} = T
  BY <1>8, <1>13
<1>15. Total(Weights(r, below \cup S)) < half /\ Total(Weights(r, below \cup S \cup {j})) >= half
  BY <1>9, <1>11, <1>13, <1>14
<1> HIDE DEF S, U, below, equal, Heavy
<1>16. \E E \in SUBSET equal :
          Total(Weights(r, below \cup E)) < half /\ Total(Weights(r, below \cup E \cup {j})) >= half
  BY <1>12, <1>15
<1>17. j \in Picks(runs, r)
  BY <1>16, Zenon DEF Picks, Weights, half, below, equal, value
<1> QED BY <1>17

\* With half of what is left in singles a median_split can only stand still.
LEMMA MedianSplitStands ==
  ASSUME NEW runs, SortedRuns(runs), NEW prefix_size \in Int, NEW r,
         Narrowed(runs, prefix_size, r), r.prefix >= 1, r.N >= 2, LeastSingles(runs, r)
  PROVE  median_split(runs, r) = {r}
<1>1. \A t \in median_split(runs, r) : t = r
  <2>1. r.N \in Nat
    BY NarrowedType
  <2>2. r.N >= 1
    BY <2>1
  <2> QED BY <2>2, MedianSplitShrinks
<1>2. PICK pick \in Picks(runs, r) : TRUE
  BY PicksExist
<1>3. Narrow(r, Current(runs, r, pick)) \in median_split(runs, r)
  BY DEF median_split
<1> QED BY <1>1, <1>3

\* The loop of reduce_split ends with a reduction that is small enough, or comes to
\* one that a median_split leaves as it was.
LEMMA ReducedExists ==
  ASSUME NEW runs, SortedRuns(runs), NEW prefix_size \in Int, NEW r,
         Narrowed(runs, prefix_size, r)
  PROVE  \/ Reduced(runs, r) # {}
         \/ \E d \in Reductions(runs)[r] : d.N > num_of_pakets + Slack /\ d \in median_split(runs, d)
<1> DEFINE stands(d) == d.N > num_of_pakets + Slack /\ d \in median_split(runs, d)
<1> DEFINE ends(r0) == Reduced(runs, r0) # {} \/ \E d \in Reductions(runs)[r0] : stands(d)
<1> DEFINE R == {d \in Reduction : Narrowed(runs, prefix_size, d)}
<1> DEFINE A == {k \in Nat : \A d \in R : d.N < k => ends(d)}
<1>0. \A d \in R : d \in Reduction /\ d.N \in Nat /\ Narrowed(runs, prefix_size, d)
  <2>1. SUFFICES ASSUME NEW d \in R PROVE d.N \in Nat
    OBVIOUS
  <2> QED BY NarrowedType
<1>1. 0 \in A
  <2>1. \A d \in R : ~(d.N < 0)
    BY <1>0
  <2> HIDE DEF R
  <2> QED BY <2>1
<1>2. ASSUME NEW k \in Nat, k \in A PROVE k + 1 \in A
  <2>1. SUFFICES ASSUME NEW d \in R, d.N < k + 1 PROVE ends(d)
    OBVIOUS
  <2>2. d \in Reductions(runs)[d]
    BY <1>0, ReductionsDef
  <2>3. CASE ~(d.N > num_of_pakets + Slack)
    <3>1. d.N <= num_of_pakets + Slack
      BY <1>0, <2>3, SplittingAssumption
    <3> QED BY <2>2, <3>1 DEF Reduced
  <2>4. CASE d.N > num_of_pakets + Slack
    <3>1. d.N >= 2 /\ d.N >= 1 /\ d.N \in Nat
      BY <1>0, <2>4, SplittingAssumption
    <3>2. PICK pick \in Picks(runs, d) : TRUE
      BY <1>0, <3>1, PicksExist
    <3> DEFINE t == Narrow(d, Current(runs, d, pick))
    <3>3. t \in median_split(runs, d)
      BY DEF median_split
    <3> HIDE DEF t
    <3>4. d.prefix \in Nat
      BY <1>0, NarrowedType
    <3>5. t = d \/ t.N < d.N
      <4>1. /\ d.prefix >= 1 =>
                 IF LeastSingles(runs, d) THEN t = d ELSE t.N < d.N /\ t.prefix \in 1 .. t.N
            /\ d.prefix = 0 => t.N < d.N
        BY <1>0, <3>1, <3>3, MedianSplitShrinks
      <4> QED BY <4>1, <3>4
    <3>6. CASE t = d
      BY <2>2, <2>4, <3>3, <3>6
    <3>7. CASE t.N < d.N
      <4>1. Narrowed(runs, prefix_size, t)
        BY <1>0, <3>3, MedianSplitNarrows
      <4>2. t \in Reduction /\ t.N \in Nat
        BY <4>1, NarrowedType DEF Narrowed
      <4>3. t \in R /\ t.N < k
        BY <2>1, <3>1, <3>7, <4>1, <4>2
      <4>4. ends(t)
        <5> HIDE DEF ends, R
        <5> QED BY <4>3, <1>2
      <4>5. t \in Shrunk(runs, d)
        BY <3>3, <3>7 DEF Shrunk
      <4>6. Reductions(runs)[t] \subseteq Reductions(runs)[d]
        BY <1>0, <2>4, <4>5, ReductionsDef
      <4> HIDE DEF stands
      <4> QED BY <4>4, <4>6 DEF Reduced
    <3> QED BY <3>5, <3>6, <3>7
  <2> QED BY <2>3, <2>4
<1>3. Nat \subseteq A
  <2> HIDE DEF A
  <2> QED BY <1>1, <1>2, NatSetInduction
<1>4. r \in R
  BY DEF Narrowed
<1>5. r.N + 1 \in Nat /\ r.N < r.N + 1
  BY <1>0, <1>4
<1> HIDE DEF ends, R
<1>6. ends(r)
  BY <1>3, <1>4, <1>5
<1> QED BY <1>6 DEF ends

\* reduce_split comes to a row or repeats itself, for every number of packets and
\* every slack: the loop always finds a median, it ends unless it comes to a
\* reduction that it leaves as it was, and quickselect draws a pivot that divides.
THEOREM ReduceSplitReturns ==
  ASSUME NEW runs, SortedRuns(runs), NEW prefix_size \in 0 .. Total(RunLengths(runs))
  PROVE  reduce_split(runs, prefix_size) # {} \/ Hangs(runs, prefix_size)
<1> DEFINE initial == InitialReduction(runs, prefix_size)
<1>1. prefix_size \in Int
  OBVIOUS
<1>2. Narrowed(runs, prefix_size, initial)
  BY InitialNarrowed
<1>3. SUFFICES ASSUME ~Hangs(runs, prefix_size) PROVE reduce_split(runs, prefix_size) # {}
  OBVIOUS
<1>4. Reduced(runs, initial) # {}
  <2>1. ~\E d \in Reductions(runs)[initial] : d.N > num_of_pakets + Slack /\ d \in median_split(runs, d)
    BY <1>3 DEF Hangs
  <2> HIDE DEF initial
  <2> QED BY <2>1, <1>1, <1>2, ReducedExists
<1> HIDE DEF initial
<1>13. PICK r \in Reduced(runs, initial) : TRUE
  BY <1>4
<1>5. Narrowed(runs, prefix_size, r)
  BY <1>1, <1>2, ReductionsNarrow DEF Reduced
<1> DEFINE u == Undecided(runs, r)
<1>6. Listed(runs, r, u)
  BY <1>5, UndecidedListed
<1>7. r.N \in Nat /\ r.prefix \in Nat
  BY <1>5, NarrowedType
<1> HIDE DEF u
<1>8. u \in Elements /\ Len(u) = r.N
  BY <1>6 DEF Listed
<1> DEFINE c == [s |-> u, b |-> 1, e |-> Len(u) + 1, k |-> r.prefix - 1]
<1>9. c \in QuickselectCall
  <2>1. c \in [s : Seq(PartitionElement), b : Nat \ {0}, e : Nat, k : Int]
    BY <1>7, <1>8 DEF Elements
  <2>2. c.b <= c.e /\ c.e <= Len(c.s) + 1
    BY <1>7, <1>8
  <2> HIDE DEF c
  <2> QED BY <2>1, <2>2 DEF QuickselectCall
<1>10. Selected(u, r.prefix - 1) # {}
  <2>1. Selected(u, r.prefix - 1) = quickselect[c]
    BY DEF Selected
  <2> HIDE DEF c
  <2> QED BY <2>1, <1>9, QuickselectReturns
<1>11. PICK s \in Selected(Undecided(runs, r), r.prefix - 1) : TRUE
  BY <1>10 DEF u
<1>12. LowerPart(r, s) \in reduce_split(runs, prefix_size)
  BY <1>13, <1>11 DEF reduce_split, initial
<1> QED BY <1>12

\* What an endless reduce_split comes to: it has an element to find below the row,
\* and half of what is left, or more, are single elements of the least value.
LEMMA HangsAtSingles ==
  ASSUME NEW runs, SortedRuns(runs), NEW prefix_size \in 0 .. Total(RunLengths(runs)),
         Hangs(runs, prefix_size)
  PROVE  \E r : /\ Narrowed(runs, prefix_size, r) /\ r.N > num_of_pakets + Slack
                /\ LeastSingles(runs, r)
<1> DEFINE initial == InitialReduction(runs, prefix_size)
<1>1. prefix_size \in Int
  OBVIOUS
<1>2. Narrowed(runs, prefix_size, initial)
  BY InitialNarrowed
<1>3. PICK r \in Reductions(runs)[initial] :
        r.N > num_of_pakets + Slack /\ r \in median_split(runs, r)
  BY DEF Hangs
<1> HIDE DEF initial
<1>4. Narrowed(runs, prefix_size, r)
  BY <1>1, <1>2, ReductionsNarrow
<1>5. r.N \in Nat /\ r.prefix \in Nat /\ r.N >= 1
  <2>1. r.N \in Nat /\ r.prefix \in Nat
    BY <1>4, NarrowedType
  <2> QED BY <2>1, <1>3, SplittingAssumption
<1>6. /\ r.prefix >= 1 => IF LeastSingles(runs, r) THEN r = r ELSE r.N < r.N /\ r.prefix \in 1 .. r.N
      /\ r.prefix = 0 => r.N < r.N
  BY <1>1, <1>3, <1>4, <1>5, MedianSplitShrinks
<1>7. LeastSingles(runs, r)
  BY <1>5, <1>6
<1> QED BY <1>3, <1>4, <1>7

\* ... and once there is nothing else for it to do: reduce_split has no result.
LEMMA SinglesHang ==
  ASSUME NEW runs, SortedRuns(runs), NEW prefix_size \in 1 .. Total(RunLengths(runs)),
         Total(RunLengths(runs)) > num_of_pakets + Slack,
         LeastSingles(runs, InitialReduction(runs, prefix_size))
  PROVE  Hangs(runs, prefix_size) /\ reduce_split(runs, prefix_size) = {}
<1> DEFINE initial == InitialReduction(runs, prefix_size)
<1>1. prefix_size \in Int /\ prefix_size \in 0 .. Total(RunLengths(runs))
  BY DEF RunLengths
<1>2. Narrowed(runs, prefix_size, initial)
  BY <1>1, InitialNarrowed
<1>3. initial.prefix >= 1 /\ initial.N = Total(RunLengths(runs)) /\ LeastSingles(runs, initial)
  BY DEF InitialReduction
<1> HIDE DEF initial
<1>4. initial.N \in Nat
  BY <1>2, NarrowedType
<1>5. initial.N > num_of_pakets + Slack /\ initial.N >= 2 /\ ~(initial.N <= num_of_pakets + Slack)
  BY <1>3, <1>4, SplittingAssumption
<1>6. median_split(runs, initial) = {initial}
  BY <1>1, <1>2, <1>3, <1>5, MedianSplitStands
<1>7. Shrunk(runs, initial) = {}
  BY <1>4, <1>6 DEF Shrunk
<1>8. Reductions(runs)[initial] = {initial}
  BY <1>2, <1>7, ReductionsDef DEF Narrowed
<1>9. Hangs(runs, prefix_size)
  BY <1>5, <1>6, <1>8 DEF Hangs, initial
<1>10. Reduced(runs, initial) = {}
  BY <1>5, <1>8 DEF Reduced
<1> QED BY <1>9, <1>10 DEF reduce_split, initial

\* Enough slack for the number of packets: with it, N \div 2 of a median_split is
\* at least the number of packets.
EnoughSlack == num_of_pakets - 1 <= Slack

\* reduce_split always comes to a row with as many packets as the slack allows, 17
\* for the 16 of the code: half of what is left are then more than there are runs.
THEOREM SlackSuffices ==
  ASSUME EnoughSlack, NEW runs, SortedRuns(runs), NEW prefix_size \in 0 .. Total(RunLengths(runs))
  PROVE  ~Hangs(runs, prefix_size) /\ reduce_split(runs, prefix_size) # {}
<1>1. SUFFICES ASSUME Hangs(runs, prefix_size) PROVE FALSE
  BY ReduceSplitReturns
<1>2. PICK r : /\ Narrowed(runs, prefix_size, r) /\ r.N > num_of_pakets + Slack
               /\ LeastSingles(runs, r)
  BY <1>1, HangsAtSingles
<1>3. PICK v \in Values :
        Cardinality({j \in Nonempty(r) : r.last[j] - r.first[j] = 1 /\ runs[j][r.last[j]] = v})
          >= r.N \div 2
  BY <1>2 DEF LeastSingles
<1> DEFINE S == {j \in Nonempty(r) : r.last[j] - r.first[j] = 1 /\ runs[j][r.last[j]] = v}
<1>4. S \in SUBSET Pakets /\ \A j \in S : r.last[j] - r.first[j] = 1
  BY DEF Nonempty
<1>5. Cardinality(S) >= r.N \div 2
  BY <1>3
<1> HIDE DEF S
<1>6. r.N \in Nat /\ Total([j \in Pakets |-> r.last[j] - r.first[j]]) = r.N
  BY <1>2, NarrowedType
<1>7. r.N \div 2 \in Nat /\ r.N \div 2 >= num_of_pakets /\ r.N > num_of_pakets
  <2>1. num_of_pakets \in Nat /\ num_of_pakets >= 1 /\ Slack \in Nat /\ num_of_pakets - 1 <= Slack
    BY SplittingAssumption, PaketsType DEF EnoughSlack
  <2>2. \A N, p, s \in Nat : p >= 1 /\ p - 1 <= s /\ N > p + s => N \div 2 \in Nat /\ N \div 2 >= p /\ N > p
    OBVIOUS
  <2> QED BY <2>1, <2>2, <1>2, <1>6
<1>8. IsFiniteSet(Pakets) /\ Cardinality(Pakets) = num_of_pakets
  <2>1. IsFiniteSet(0 .. num_of_pakets - 1) /\ Cardinality(0 .. num_of_pakets - 1) = num_of_pakets
    BY PaketsType, FS_Interval
  <2> QED BY <2>1, PaketsType
<1>9. IsFiniteSet(S) /\ Cardinality(S) <= num_of_pakets /\ (Cardinality(S) = num_of_pakets => S = Pakets)
  BY <1>4, <1>8, FS_Subset
<1>10. Cardinality(S) = num_of_pakets
  <2>1. Cardinality(S) \in Nat /\ num_of_pakets \in Nat
    BY <1>9, FS_CardinalityType, PaketsType
  <2> QED BY <2>1, <1>5, <1>7, <1>9
<1>11. S = Pakets
  BY <1>9, <1>10
<1>12. Total(Weights(r, Pakets)) = num_of_pakets
  BY <1>2, <1>4, <1>10, <1>11, WeightsOfSingles
<1>13. Weights(r, Pakets) = [j \in Pakets |-> r.last[j] - r.first[j]]
  BY DEF Weights
<1> QED BY <1>6, <1>7, <1>12, <1>13, PaketsType

\* ... and not with more packets than that: as soon as there are two values, there
\* are runs for which reduce_split repeats itself for ever, whatever its row.
THEOREM SlackIsNeeded ==
  ASSUME ~EnoughSlack, NEW a \in Values, NEW b \in Values, a < b
  PROVE  \E runs : /\ SortedRuns(runs) /\ Total(RunLengths(runs)) > num_of_pakets + Slack
                   /\ \A prefix_size \in 1 .. Total(RunLengths(runs)) :
                        Hangs(runs, prefix_size) /\ reduce_split(runs, prefix_size) = {}
<1> DEFINE P == num_of_pakets
<1> DEFINE long == [x \in 1 .. P |-> b]
<1> DEFINE runs == [j \in Pakets |-> IF j = P - 1 THEN long ELSE <<a>>]
<1>1. P \in Nat /\ Slack \in Nat /\ P >= 2 /\ P - 1 > Slack /\ P - 1 \in Pakets
  BY SplittingAssumption, PaketsType DEF EnoughSlack
<1>2. /\ long \in Seq(Values) /\ Len(long) = P /\ Ascending(long)
      /\ \A x \in 1 .. P : long[x] = b
  <2>1. long \in Seq(Values) /\ Len(long) = P
    BY <1>1
  <2>2. b <= b
    BY SplittingAssumption
  <2> QED BY <2>1, <2>2 DEF Ascending
<1>3. <<a>> \in Seq(Values) /\ Len(<<a>>) = 1 /\ <<a>>[1] = a /\ Ascending(<<a>>)
  <2>1. a <= a
    BY SplittingAssumption
  <2> QED BY <2>1 DEF Ascending
<1>4. \A j \in Pakets : runs[j] = IF j = P - 1 THEN long ELSE <<a>>
  BY Zenon
<1>5. SortedRuns(runs)
  <2>1. runs \in RunSet
    <3>1. \A j \in Pakets : (IF j = P - 1 THEN long ELSE <<a>>) \in Seq(Values)
      BY <1>2, <1>3, Zenon
    <3> HIDE DEF long, P
    <3> QED BY <3>1 DEF RunSet
  <2>2. \A j \in Pakets : Ascending(runs[j])
    BY <1>2, <1>3, <1>4, Zenon
  <2> QED BY <2>1, <2>2 DEF SortedRuns
<1> HIDE DEF runs, long
<1> DEFINE len == RunLengths(runs)
<1>6. \A j \in Pakets : len[j] = IF j = P - 1 THEN P ELSE 1
  BY <1>2, <1>3, <1>4 DEF RunLengths
<1>7. len \in Differences
  <2>1. \A j \in Pakets : len[j] \in Int
    BY <1>1, <1>6
  <2>2. len = [j \in Pakets |-> len[j]]
    BY DEF RunLengths
  <2> HIDE DEF len
  <2> QED BY <2>1, <2>2 DEF Differences
<1> HIDE DEF len
<1>8. Total(len) = P - 1 + P
  <2>1. Sums(len)[0] = 0 /\ \A l \in Pakets : Sums(len)[l + 1] = Sums(len)[l] + len[l]
    BY <1>7, SumsDef
  <2> DEFINE A == {l \in 0 .. P : l < P => Sums(len)[l] = l}
  <2>2. 0 \in A
    BY <2>1, <1>1
  <2>3. ASSUME NEW l \in Pakets, l \in A PROVE l + 1 \in A
    <3>1. l \in Nat /\ l + 1 \in 0 .. P /\ l < P
      BY PaketsType
    <3>2. SUFFICES ASSUME l + 1 < P PROVE Sums(len)[l + 1] = l + 1
      BY <3>1
    <3>3. l # P - 1
      BY <3>1, <3>2, <1>1
    <3>4. Sums(len)[l] = l /\ len[l] = 1
      BY <3>1, <3>3, <2>3, <1>6
    <3> QED BY <3>1, <3>4, <2>1
  <2>4. 0 .. P \subseteq A
    <3> HIDE DEF A
    <3> QED BY <2>2, <2>3, PaketsInduction
  <2>5. Sums(len)[P - 1] = P - 1
    BY <2>4, <1>1
  <2>6. Sums(len)[(P - 1) + 1] = Sums(len)[P - 1] + len[P - 1]
    BY <2>1, <1>1
  <2>7. (P - 1) + 1 = P /\ len[P - 1] = P
    BY <1>1, <1>6
  <2> QED BY <2>5, <2>6, <2>7 DEF Total
<1>9. Total(len) > P + Slack
  BY <1>1, <1>8
<1>10. ASSUME NEW prefix_size \in 1 .. Total(len)
       PROVE  Hangs(runs, prefix_size) /\ reduce_split(runs, prefix_size) = {}
  <2> DEFINE r == InitialReduction(runs, prefix_size)
  <2> DEFINE S == {j \in Nonempty(r) : r.last[j] - r.first[j] = 1 /\ runs[j][r.last[j]] = a}
  <2>1. /\ r.N = P - 1 + P
        /\ \A j \in Pakets : r.first[j] = 0 /\ r.last[j] = len[j] /\ Median(r)[j] = 0 + (len[j] - 0) \div 2
    BY <1>8, Zenon DEF InitialReduction, Median, len
  <2> HIDE DEF r
  <2>2. S = 0 .. P - 2
    <3>1. \A j \in Pakets : j # P - 1 => j \in S
      <4>1. SUFFICES ASSUME NEW j \in Pakets, j # P - 1 PROVE j \in S
        OBVIOUS
      <4>2. r.first[j] = 0 /\ r.last[j] = 1 /\ runs[j] = <<a>>
        BY <4>1, <2>1, <1>4, <1>6
      <4>3. j \in Nonempty(r)
        BY <4>2 DEF Nonempty
      <4>4. runs[j][r.last[j]] = a
        BY <4>2
      <4> QED BY <4>2, <4>3, <4>4
    <3>2. \A j \in S : j \in Pakets /\ j # P - 1
      <4>1. SUFFICES ASSUME P - 1 \in S PROVE FALSE
        BY DEF Nonempty
      <4>2. len[P - 1] - 0 = 1
        BY <4>1, <2>1, <1>1
      <4> QED BY <4>2, <1>1, <1>6
    <3>3. \A j : j \in 0 .. P - 2 <=> j \in Pakets /\ j # P - 1
      BY <1>1, PaketsType
    <3> HIDE DEF S, P
    <3> QED BY <3>1, <3>2, <3>3
  <2>3. Cardinality(S) >= r.N \div 2
    <3>1. Cardinality(0 .. P - 2) = P - 1
      <4>1. 0 \in Int /\ P - 2 \in Int /\ (P - 2) - 0 + 1 = P - 1 /\ ~(0 > P - 2)
        BY <1>1
      <4> QED BY <4>1, FS_Interval
    <3>2. (P - 1 + P) \div 2 = P - 1
      BY <1>1
    <3> HIDE DEF S
    <3> QED BY <3>1, <3>2, <2>1, <2>2, <1>1
  <2>4. \A j \in Nonempty(r) \ S : a <= runs[j][r.first[j] + 1] /\ a < runs[j][Median(r)[j] + 1]
    <3>1. SUFFICES ASSUME NEW j \in Nonempty(r) \ S
                   PROVE  a <= runs[j][r.first[j] + 1] /\ a < runs[j][Median(r)[j] + 1]
      OBVIOUS
    <3>2. j = P - 1
      <4>1. j \in Pakets /\ j \notin 0 .. P - 2
        BY <2>2 DEF Nonempty
      <4> QED BY <4>1, <1>1, PaketsType
    <3>3. runs[j] = long /\ r.first[j] = 0 /\ Median(r)[j] = 0 + (P - 0) \div 2
      BY <3>2, <2>1, <1>1, <1>4, <1>6
    <3>4. r.first[j] + 1 \in 1 .. P /\ Median(r)[j] + 1 \in 1 .. P
      BY <3>3, <1>1
    <3>5. runs[j][r.first[j] + 1] = b /\ runs[j][Median(r)[j] + 1] = b
      BY <3>3, <3>4, <1>2
    <3> QED BY <3>5, SplittingAssumption
  <2>5. LeastSingles(runs, r)
    BY <2>3, <2>4 DEF LeastSingles
  <2> QED BY <2>5, <1>5, <1>9, SinglesHang DEF r, len
<1> QED BY <1>5, <1>9, <1>10 DEF len

-----------------------------------------------------------------------------
(* Counting values. *)

\* A new head adds one to the counts of the elements up to v, or nothing.
LEMMA LeqPrefixed ==
  ASSUME NEW s \in Seq(Int), NEW h \in Int, NEW v \in Int
  PROVE  Cardinality(Leq(<<h>> \o s, v)) =
           IF h <= v THEN Cardinality(Leq(s, v)) + 1 ELSE Cardinality(Leq(s, v))
<1> DEFINE t == <<h>> \o s
<1>1. Len(s) \in Nat /\ Len(t) = Len(s) + 1 /\ t[1] = h /\ \A x \in 1 .. Len(s) : t[x + 1] = s[x]
  OBVIOUS
<1> HIDE DEF t
<1> DEFINE S == Leq(s, v)
<1> DEFINE T == {x \in 2 .. Len(t) : t[x] <= v}
<1>2. S \in SUBSET (1 .. Len(s)) /\ IsFiniteSet(S) /\ Cardinality(S) \in Nat
  <2>1. S \in SUBSET (1 .. Len(s))
    BY DEF Leq
  <2> HIDE DEF S
  <2> QED BY <2>1, <1>1, CountPositions
<1>3. IsFiniteSet(T) /\ Cardinality(T) = Cardinality(S)
  <2> DEFINE f == [x \in S |-> x + 1]
  <2>1. \A x \in S : f[x] = x + 1 /\ x \in 1 .. Len(s) /\ s[x] <= v
    BY DEF Leq
  <2>2. f \in [S -> T]
    <3>1. \A x \in S : x + 1 \in T
      <4>1. \A x \in S : x + 1 \in 2 .. Len(t) /\ t[x + 1] <= v
        BY <2>1, <1>1, SMTT(30)
      <4> HIDE DEF S
      <4> QED BY <4>1
    <3> HIDE DEF S, T
    <3> QED BY <3>1
  <2>3. \A y \in T : y - 1 \in S /\ f[y - 1] = y
    <3>1. SUFFICES ASSUME NEW y \in T PROVE y - 1 \in S /\ f[y - 1] = y
      OBVIOUS
    <3>2. y \in 2 .. Len(t) /\ t[y] <= v
      OBVIOUS
    <3>3. y - 1 \in 1 .. Len(s) /\ (y - 1) + 1 = y
      BY <3>2, <1>1
    <3>4. s[y - 1] <= v
      BY <3>2, <3>3, <1>1
    <3>5. y - 1 \in S
      BY <3>3, <3>4 DEF Leq
    <3> HIDE DEF S
    <3> QED BY <3>3, <3>5
  <2> HIDE DEF f, S, T
  <2>4. f \in Injection(S, T)
    <3>1. \A x, y \in S : f[x] = f[y] => x = y
      BY <2>1
    <3> QED BY <2>2, <3>1 DEF Injection, IsInjective
  <2>5. f \in Surjection(S, T)
    BY <2>2, <2>3 DEF Surjection
  <2>6. ExistsBijection(S, T)
    BY <2>4, <2>5 DEF ExistsBijection, Bijection
  <2> QED BY <2>6, <1>2, FS_Bijection
<1>4. Leq(t, v) = IF h <= v THEN T \cup {1} ELSE T
  <2>1. \A x : x \in 1 .. Len(t) <=> x = 1 \/ x \in 2 .. Len(t)
    BY <1>1
  <2> QED BY <2>1, <1>1 DEF Leq
<1>5. 1 \notin T
  OBVIOUS
<1> HIDE DEF S, T
<1>6. Cardinality(T \cup {1}) = Cardinality(T) + 1
  BY <1>3, <1>5, FS_AddElement
<1> QED BY <1>3, <1>4, <1>6 DEF S, t

\* Where run j has values up to v between two rows, and how many every run has.
UpTo(runs, row, upper, v, j) == {x \in row[j] + 1 .. upper[j] : runs[j][x] <= v}
Counted(runs, row, upper, v) ==
  [j \in Pakets |-> Cardinality(UpTo(runs, row, upper, v, j))]

LEMMA CountedType ==
  ASSUME NEW runs, NEW row \in Row, NEW upper \in Row, NEW v
  PROVE  /\ Counted(runs, row, upper, v) \in Row
         /\ \A j \in Pakets :
              /\ Counted(runs, row, upper, v)[j] = Cardinality(UpTo(runs, row, upper, v, j))
              /\ IsFiniteSet(UpTo(runs, row, upper, v, j))
<1>1. \A j \in Pakets : row[j] \in Nat /\ upper[j] \in Nat
  BY RowType
<1>2. ASSUME NEW j \in Pakets
      PROVE  /\ IsFiniteSet(UpTo(runs, row, upper, v, j))
             /\ Cardinality(UpTo(runs, row, upper, v, j)) \in Nat
  <2>1. /\ UpTo(runs, row, upper, v, j) \in SUBSET (row[j] + 1 .. upper[j])
        /\ row[j] + 1 \in Int /\ upper[j] \in Int
    BY <1>1 DEF UpTo
  <2> QED BY <2>1, CountInterval
<1> QED BY <1>2 DEF Counted, Row

-----------------------------------------------------------------------------
(* multiwaymerge. *)

\* A run that has not reached its upper splitter, with the least head.
Rows(upper) == {r \in Row : \A j \in Pakets : r[j] <= upper[j]}
Unfinished(row, upper) == {j \in Pakets : row[j] # upper[j]}
LeastHead(runs, row, upper) ==
  CHOOSE j \in Unfinished(row, upper) :
    \A l \in Unfinished(row, upper) : runs[j][row[j] + 1] <= runs[l][row[l] + 1]
Advanced(runs, row, upper) == [row EXCEPT ![LeastHead(runs, row, upper)] = @ + 1]

\* One turn of the loop of multiwaymerge.
LEMMA AdvancedRow ==
  ASSUME NEW runs \in RunSet, NEW upper, Within(runs, upper), NEW row \in Rows(upper),
         Unfinished(row, upper) # {}
  PROVE  LET j == LeastHead(runs, row, upper) IN
         /\ j \in Pakets /\ row[j] < upper[j] /\ runs[j][row[j] + 1] \in Values
         /\ \A l \in Unfinished(row, upper) : runs[j][row[j] + 1] <= runs[l][row[l] + 1]
         /\ Advanced(runs, row, upper) \in Rows(upper)
         /\ Total(Advanced(runs, row, upper)) = Total(row) + 1
         /\ \A l \in Pakets : Advanced(runs, row, upper)[l] = IF l = j THEN row[l] + 1 ELSE row[l]
<1> DEFINE j == LeastHead(runs, row, upper)
<1> DEFINE S == Unfinished(row, upper)
<1>1. /\ row \in Row /\ upper \in Row
      /\ \A l \in Pakets : /\ row[l] \in Nat /\ upper[l] \in Nat /\ Len(runs[l]) \in Nat
                           /\ row[l] <= upper[l] /\ upper[l] <= Len(runs[l])
  BY RowType, RunsType DEF Rows, Within
<1>2. \A l \in S : l \in Pakets /\ row[l] < upper[l] /\ row[l] + 1 \in 1 .. Len(runs[l])
  <2>1. SUFFICES ASSUME NEW l \in S
                 PROVE  l \in Pakets /\ row[l] < upper[l] /\ row[l] + 1 \in 1 .. Len(runs[l])
    OBVIOUS
  <2>2. l \in Pakets /\ row[l] # upper[l]
    BY DEF Unfinished
  <2> QED BY <2>2, <1>1
<1>3. \A l \in S : runs[l][row[l] + 1] \in Values /\ runs[l][row[l] + 1] \in Int
  BY <1>2, RunsType
\* The runs are numbered from 0, positions from 1.
<1>4. \E k \in S : \A l \in S : runs[k][row[k] + 1] <= runs[l][row[l] + 1]
  <2> DEFINE P == {x \in 1 .. num_of_pakets : x - 1 \in S}
  <2> DEFINE h == [x \in P |-> runs[x - 1][row[x - 1] + 1]]
  <2>1. \A x \in P : x - 1 \in S /\ h[x] = runs[x - 1][row[x - 1] + 1] /\ h[x] \in Int
    BY <1>3
  <2>2. \A l \in S : l + 1 \in P /\ (l + 1) - 1 = l
    BY <1>2, PaketsType
  <2>3. P \in SUBSET (1 .. num_of_pakets) /\ P # {} /\ num_of_pakets \in Nat
    BY <2>2, PaketsType
  <2> HIDE DEF P, h, S
  <2>4. PICK x \in P : \A y \in P : h[x] <= h[y]
    BY <2>1, <2>3, LeastPosition
  <2>5. \A l \in S : runs[x - 1][row[x - 1] + 1] <= runs[l][row[l] + 1]
    BY <2>1, <2>2, <2>4
  <2> QED BY <2>1, <2>5
<1>5. j \in S /\ \A l \in S : runs[j][row[j] + 1] <= runs[l][row[l] + 1]
  BY <1>4 DEF LeastHead
<1> HIDE DEF j, S
<1> DEFINE a == [row EXCEPT ![j] = @ + 1]
<1>6. a \in Row /\ \A l \in Pakets : a[l] = IF l = j THEN row[l] + 1 ELSE row[l]
  BY <1>1, <1>2, <1>5 DEF Row
<1>7. a \in Rows(upper)
  <2>1. \A l \in Pakets : a[l] <= upper[l]
    BY <1>1, <1>2, <1>5, <1>6
  <2> HIDE DEF a
  <2> QED BY <1>6, <2>1 DEF Rows
<1>8. Total(a) = Total(row) + 1
  BY <1>1, <1>2, <1>5, RowType, TotalIncrement
<1> QED BY <1>2, <1>3, <1>5, <1>6, <1>7, <1>8 DEF Advanced, j, S

\* What is merged from a row on.
MergedFrom(runs, upper) ==
  LET merged[row \in {r \in Row : \A j \in Pakets : r[j] <= upper[j]}] ==
        LET left == {j \in Pakets : row[j] # upper[j]}
            head(j) == runs[j][row[j] + 1]
            min_i == CHOOSE j \in left : \A l \in left : head(j) <= head(l)
        IN IF left = {} THEN <<>>
           ELSE <<head(min_i)>> \o merged[[row EXCEPT ![min_i] = @ + 1]]
  IN merged

HeadOf(runs, row, upper) ==
  runs[LeastHead(runs, row, upper)][row[LeastHead(runs, row, upper)] + 1]

\* multiwaymerge satisfies its recursive definition.
LEMMA MergedFromDef ==
  ASSUME NEW runs \in RunSet, NEW upper, Within(runs, upper), NEW row \in Rows(upper)
  PROVE  MergedFrom(runs, upper)[row] =
           IF Unfinished(row, upper) = {} THEN <<>>
           ELSE <<HeadOf(runs, row, upper)>> \o MergedFrom(runs, upper)[Advanced(runs, row, upper)]
<1> DEFINE body(f, r) ==
      IF Unfinished(r, upper) = {} THEN <<>>
      ELSE <<HeadOf(runs, r, upper)>> \o f[Advanced(runs, r, upper)]
<1> DEFINE D == Rows(upper)
<1> DEFINE V == Seq(Values)
<1> DEFINE m == [r \in D |-> Total(upper) - Total(r)]
<1> DEFINE G == [f \in [D -> V] |-> [r \in D |-> body(f, r)]]
<1>0. \A r \in D : /\ r \in Row /\ Total(r) \in Int /\ Total(upper) \in Int
                   /\ Total(r) <= Total(upper)
  <2>1. SUFFICES ASSUME NEW r \in D
                 PROVE  /\ r \in Row /\ Total(r) \in Int /\ Total(upper) \in Int
                        /\ Total(r) <= Total(upper)
    OBVIOUS
  <2>2. r \in Row /\ upper \in Row /\ \A j \in Pakets : r[j] <= upper[j]
    BY DEF Rows, Within
  <2>3. r \in Differences /\ upper \in Differences
    BY <2>2, RowType
  <2>4. Total(r) \in Int /\ Total(upper) \in Int
    BY <2>3, TotalType
  <2>5. Total(r) <= Total(upper)
    BY <2>2, <2>3, SumsLeq, PaketsType DEF Total
  <2> QED BY <2>2, <2>4, <2>5
<1>1. m \in [D -> Nat]
  <2>1. \A r \in D : Total(upper) - Total(r) \in Nat
    BY <1>0
  <2> HIDE DEF D
  <2> QED BY <2>1
<1>2. ASSUME NEW f \in [D -> V], NEW r \in D PROVE body(f, r) \in V
  <2>1. CASE Unfinished(r, upper) = {}
    BY <2>1
  <2>2. CASE Unfinished(r, upper) # {}
    <3>1. HeadOf(runs, r, upper) \in Values /\ Advanced(runs, r, upper) \in D
      BY <2>2, AdvancedRow DEF HeadOf
    <3> HIDE DEF D
    <3>2. f[Advanced(runs, r, upper)] \in V
      BY <3>1
    <3>3. <<HeadOf(runs, r, upper)>> \o f[Advanced(runs, r, upper)] \in V
      BY <3>1, <3>2
    <3> QED BY <2>2, <3>3
  <2> QED BY <2>1, <2>2
<1>3. G \in [[D -> V] -> [D -> V]]
  <2> HIDE DEF body, D, V
  <2> QED BY <1>2
<1>4. ASSUME NEW f \in [D -> V], NEW g \in [D -> V], NEW r \in D,
             \A y \in D : m[y] < m[r] => f[y] = g[y]
      PROVE  G[f][r] = G[g][r]
  <2>1. CASE Unfinished(r, upper) = {}
    BY <2>1
  <2>2. CASE Unfinished(r, upper) # {}
    <3> DEFINE a == Advanced(runs, r, upper)
    <3>1. a \in D /\ Total(a) = Total(r) + 1
      BY <2>2, AdvancedRow
    <3> HIDE DEF a
    <3>2. m[a] < m[r]
      <4>1. m[a] = Total(upper) - Total(a) /\ m[r] = Total(upper) - Total(r)
        BY <3>1
      <4> QED BY <3>1, <4>1, <1>0
    <3>3. f[a] = g[a]
      BY <3>1, <3>2, <1>4
    <3>4. body(f, r) = body(g, r)
      BY <2>2, <3>3 DEF a
    <3>5. G[f][r] = body(f, r) /\ G[g][r] = body(g, r)
      <4> HIDE DEF body, D, V
      <4> QED BY Zenon
    <3> QED BY <3>4, <3>5
  <2> QED BY <2>1, <2>2
<1>5. Contracts(G, m, D, V)
  <2> HIDE DEF D, V, m, G
  <2> QED BY <1>1, <1>3, <1>4 DEF Contracts
<1>6. V # {}
  <2>1. <<>> \in V
    OBVIOUS
  <2> QED BY <2>1
<1>7. HasFixpoint(G, D, V)
  <2> HIDE DEF D, V, m, G
  <2> QED BY <1>5, <1>6, MeasuredRecursion
<1>8. PICK g \in [D -> V] : g = [r \in D |-> body(g, r)]
  <2>1. PICK f \in [D -> V] : f = G[f]
    BY <1>7 DEF HasFixpoint
  <2> HIDE DEF body, D, V
  <2> QED BY <2>1
<1>9. MergedFrom(runs, upper) = [r \in D |-> body(MergedFrom(runs, upper), r)]
  <2>1. MergedFrom(runs, upper) = CHOOSE f : f = [r \in D |-> body(f, r)]
    BY DEF MergedFrom, Rows, Unfinished, HeadOf, LeastHead, Advanced
  <2> HIDE DEF body, D, V
  <2> QED BY <2>1, <1>8
<1> QED
  <2>1. MergedFrom(runs, upper)[row] = body(MergedFrom(runs, upper), row)
    <3> HIDE DEF body
    <3> QED BY <1>9
  <2> QED BY <2>1, Zenon

\* What multiwaymerge makes of the elements between two rows: as many as there are
\* between them, each from there, in order, and none lost.
MergesBetween(runs, row, upper, s) ==
  /\ s \in Seq(Values)
  /\ Len(s) = Total(upper) - Total(row)
  /\ \A x \in 1 .. Len(s) : \E j \in Pakets : \E y \in 1 .. Len(runs[j]) :
       row[j] < y /\ y <= upper[j] /\ s[x] = runs[j][y]
  /\ Ascending(s)
  /\ \A v \in Int : Cardinality(Leq(s, v)) = Total(Counted(runs, row, upper, v))

\* What is left to merge loses the head that is written.
LEMMA CountedAdvanced ==
  ASSUME NEW runs \in RunSet, NEW upper, Within(runs, upper), NEW row \in Rows(upper),
         Unfinished(row, upper) # {}, NEW v \in Int
  PROVE  Total(Counted(runs, row, upper, v)) =
           IF HeadOf(runs, row, upper) <= v
           THEN Total(Counted(runs, Advanced(runs, row, upper), upper, v)) + 1
           ELSE Total(Counted(runs, Advanced(runs, row, upper), upper, v))
<1> DEFINE j == LeastHead(runs, row, upper)
<1> DEFINE a == Advanced(runs, row, upper)
<1> DEFINE h == HeadOf(runs, row, upper)
<1> DEFINE C == Counted(runs, row, upper, v)
<1> DEFINE D == Counted(runs, a, upper, v)
<1> DEFINE S(r, l) == UpTo(runs, r, upper, v, l)
<1>1. /\ j \in Pakets /\ row[j] < upper[j] /\ h = runs[j][row[j] + 1]
      /\ a \in Rows(upper)
      /\ \A l \in Pakets : a[l] = IF l = j THEN row[l] + 1 ELSE row[l]
  BY AdvancedRow DEF HeadOf
<1>2. row \in Row /\ a \in Row /\ upper \in Row
  BY <1>1 DEF Rows, Within
<1>3. row[j] \in Nat /\ upper[j] \in Nat /\ a[j] = row[j] + 1
  BY <1>1, <1>2, RowType
<1>4. \A l \in Pakets : /\ C[l] = Cardinality(S(row, l)) /\ IsFiniteSet(S(row, l))
                        /\ D[l] = Cardinality(S(a, l)) /\ IsFiniteSet(S(a, l))
  <2> HIDE DEF a
  <2> QED BY <1>2, CountedType
<1>5. C \in Row /\ D \in Row
  <2> HIDE DEF a
  <2> QED BY <1>2, CountedType
<1>6. \A l \in Pakets : l # j => S(row, l) = S(a, l)
  BY <1>1 DEF UpTo
<1>7. S(row, j) = (IF h <= v THEN S(a, j) \cup {row[j] + 1} ELSE S(a, j)) /\ row[j] + 1 \notin S(a, j)
  <2> HIDE DEF a, h, j
  <2>1. \A x : x \in row[j] + 1 .. upper[j] <=> x = row[j] + 1 \/ x \in a[j] + 1 .. upper[j]
    BY <1>1, <1>3
  <2>2. row[j] + 1 \notin a[j] + 1 .. upper[j]
    BY <1>3
  <2> QED BY <1>1, <2>1, <2>2 DEF UpTo
<1> HIDE DEF C, D, S, a, h, j
<1>8. C \in Differences /\ D \in Differences /\ \A l \in Pakets : C[l] \in Nat /\ D[l] \in Nat
  BY <1>5, RowType
<1>9. \A l \in Pakets : l # j => C[l] = D[l]
  BY <1>4, <1>6
<1>10. CASE ~(h <= v)
  <2>1. C[j] = D[j]
    BY <1>1, <1>4, <1>7, <1>10
  <2>2. C = D
    <3>1. \A l \in Pakets : C[l] = D[l]
      BY <2>1, <1>9
    <3> QED BY <3>1, <1>5 DEF Row
  <2> QED BY <2>2, <1>10 DEF C, D, a, h
<1>11. CASE h <= v
  <2>1. Cardinality(S(a, j) \cup {row[j] + 1}) = Cardinality(S(a, j)) + 1
    BY <1>1, <1>4, <1>7, FS_AddElement
  <2>2. C[j] = D[j] + 1
    BY <2>1, <1>1, <1>4, <1>7, <1>11
  <2>3. C = [D EXCEPT ![j] = @ + 1]
    <3>1. \A l \in Pakets : C[l] = IF l = j THEN D[l] + 1 ELSE D[l]
      BY <2>2, <1>9
    <3> QED BY <3>1, <1>1, <1>5 DEF Row
  <2>4. Total([D EXCEPT ![j] = @ + 1]) = Total(D) + 1
    BY <1>1, <1>8, TotalIncrement
  <2>5. Total(C) = Total(D) + 1
    BY <2>3, <2>4
  <2> QED BY <2>5, <1>11 DEF C, D, a, h
<1> QED BY <1>10, <1>11

\* The end of the merge.
LEMMA MergeNothing ==
  ASSUME NEW runs \in RunSet, NEW upper, Within(runs, upper), NEW row \in Rows(upper),
         Unfinished(row, upper) = {}
  PROVE  MergesBetween(runs, row, upper, <<>>)
<1>1. row \in Row /\ upper \in Row /\ \A j \in Pakets : row[j] = upper[j]
  BY DEF Rows, Within, Unfinished
<1>2. row = upper
  BY <1>1 DEF Row
<1>3. Total(upper) \in Int
  BY <1>1, RowType, TotalType
<1>4. <<>> \in Seq(Values) /\ Len(<<>>) = Total(upper) - Total(row)
  BY <1>2, <1>3
<1>5. ASSUME NEW v \in Int PROVE Cardinality(Leq(<<>>, v)) = Total(Counted(runs, row, upper, v))
  <2>1. Leq(<<>>, v) = {}
    BY DEF Leq
  <2> DEFINE C == Counted(runs, row, upper, v)
  <2>2. \A j \in Pakets : UpTo(runs, row, upper, v, j) = {}
    <3>1. \A j \in Pakets : row[j] \in Nat
      BY <1>1, RowType
    <3> QED BY <3>1, <1>1 DEF UpTo
  <2>3. C \in Row /\ \A j \in Pakets : C[j] = Cardinality(UpTo(runs, row, upper, v, j))
    BY <1>1, CountedType
  <2>4. C \in Differences /\ \A j \in Pakets : C[j] = 0
    BY <2>2, <2>3, RowType, FS_EmptySet
  <2> HIDE DEF C
  <2>5. Total(C) = 0
    BY <2>4, SumsZero, PaketsType DEF Total
  <2> QED BY <2>1, <2>5, FS_EmptySet DEF C
<1> QED BY <1>4, <1>5 DEF MergesBetween, Ascending

\* One element more in front of a correct merge is a correct merge.
LEMMA MergeOne ==
  ASSUME NEW runs, SortedRuns(runs), NEW upper, Within(runs, upper), NEW row \in Rows(upper),
         Unfinished(row, upper) # {},
         NEW s, MergesBetween(runs, Advanced(runs, row, upper), upper, s)
  PROVE  MergesBetween(runs, row, upper, <<HeadOf(runs, row, upper)>> \o s)
<1> DEFINE j == LeastHead(runs, row, upper)
<1> DEFINE a == Advanced(runs, row, upper)
<1> DEFINE h == HeadOf(runs, row, upper)
<1> DEFINE t == <<h>> \o s
<1>1. runs \in RunSet /\ \A l \in Pakets : Ascending(runs[l])
  BY DEF SortedRuns
<1>2. /\ j \in Pakets /\ row[j] < upper[j] /\ h = runs[j][row[j] + 1] /\ h \in Values
      /\ \A l \in Unfinished(row, upper) : h <= runs[l][row[l] + 1]
      /\ a \in Rows(upper) /\ Total(a) = Total(row) + 1
      /\ \A l \in Pakets : a[l] = IF l = j THEN row[l] + 1 ELSE row[l]
  BY <1>1, AdvancedRow DEF HeadOf
<1>3. \A l \in Pakets : /\ row[l] \in Nat /\ upper[l] \in Nat /\ a[l] \in Nat /\ Len(runs[l]) \in Nat
                        /\ row[l] <= a[l] /\ a[l] <= upper[l] /\ upper[l] <= Len(runs[l])
                        /\ \A y \in 1 .. Len(runs[l]) : runs[l][y] \in Int
  <2>1. row \in Row /\ upper \in Row /\ a \in Row
    BY <1>2 DEF Rows, Within
  <2>2. \A l \in Pakets : a[l] <= upper[l] /\ upper[l] <= Len(runs[l])
    BY <1>2 DEF Rows, Within
  <2>3. \A l \in Pakets : row[l] \in Nat /\ upper[l] \in Nat /\ a[l] \in Nat
    BY <2>1, RowType
  <2>4. \A l \in Pakets : Len(runs[l]) \in Nat /\ \A y \in 1 .. Len(runs[l]) : runs[l][y] \in Int
    BY <1>1, RunsType
  <2>5. \A l \in Pakets : row[l] <= a[l]
    <3> HIDE DEF a, j
    <3> QED BY <2>3, <1>2
  <2> QED BY <2>2, <2>3, <2>4, <2>5
<1>4. /\ s \in Seq(Values) /\ Len(s) = Total(upper) - Total(a) /\ Ascending(s)
      /\ \A x \in 1 .. Len(s) : \E l \in Pakets : \E y \in 1 .. Len(runs[l]) :
           a[l] < y /\ y <= upper[l] /\ s[x] = runs[l][y]
      /\ \A v \in Int : Cardinality(Leq(s, v)) = Total(Counted(runs, a, upper, v))
  BY DEF MergesBetween
<1>5. Values \in SUBSET Int /\ h \in Int
  BY <1>2, SplittingAssumption
<1>6. s \in Seq(Int) /\ Len(s) \in Nat /\ \A x \in 1 .. Len(s) : s[x] \in Int
  BY <1>4, <1>5, IntSequence
<1> HIDE DEF j, a, h
<1>7. /\ t \in Seq(Values) /\ Len(t) = Len(s) + 1 /\ t[1] = h
      /\ \A x \in 1 .. Len(s) : t[x + 1] = s[x]
      /\ \A x \in 2 .. Len(t) : x - 1 \in 1 .. Len(s) /\ t[x] = s[x - 1]
  BY <1>2, <1>4, <1>6
<1> HIDE DEF t
<1>8. Len(t) = Total(upper) - Total(row)
  <2>1. upper \in Differences /\ row \in Differences
    BY RowType DEF Rows, Within
  <2>2. Total(upper) \in Int /\ Total(row) \in Int
    BY <2>1, TotalType
  <2> QED BY <2>2, <1>2, <1>4, <1>7
<1>9. ASSUME NEW x \in 1 .. Len(t)
      PROVE  \E l \in Pakets : \E y \in 1 .. Len(runs[l]) :
               row[l] < y /\ y <= upper[l] /\ t[x] = runs[l][y]
  <2>1. CASE x = 1
    <3>1. row[j] + 1 \in 1 .. Len(runs[j]) /\ row[j] < row[j] + 1 /\ row[j] + 1 <= upper[j]
      BY <1>2, <1>3
    <3>2. t[x] = runs[j][row[j] + 1]
      BY <2>1, <1>2, <1>7
    <3> QED BY <3>1, <3>2, <1>2
  <2>2. CASE x # 1
    <3>1. x \in 2 .. Len(t)
      BY <2>2, <1>6, <1>7
    <3>2. PICK l \in Pakets : \E y \in 1 .. Len(runs[l]) :
            a[l] < y /\ y <= upper[l] /\ s[x - 1] = runs[l][y]
      BY <3>1, <1>4, <1>7
    <3>3. PICK y \in 1 .. Len(runs[l]) : a[l] < y /\ y <= upper[l] /\ s[x - 1] = runs[l][y]
      BY <3>2
    <3>4. row[l] < y
      BY <3>3, <1>3
    <3>5. t[x] = runs[l][y]
      BY <3>1, <3>3, <1>7
    <3> QED BY <3>3, <3>4, <3>5
  <2> QED BY <2>1, <2>2
<1>10. \A x \in 1 .. Len(s) : h <= s[x]
  <2>1. SUFFICES ASSUME NEW x \in 1 .. Len(s) PROVE h <= s[x]
    OBVIOUS
  <2>2. PICK l \in Pakets : \E y \in 1 .. Len(runs[l]) :
          a[l] < y /\ y <= upper[l] /\ s[x] = runs[l][y]
    BY <1>4
  <2>3. PICK y \in 1 .. Len(runs[l]) : a[l] < y /\ y <= upper[l] /\ s[x] = runs[l][y]
    BY <2>2
  <2>4. row[l] + 1 \in 1 .. Len(runs[l]) /\ row[l] + 1 <= y /\ row[l] # upper[l]
    BY <2>3, <1>3
  <2>5. h <= runs[l][row[l] + 1]
    BY <2>4, <1>2 DEF Unfinished
  <2>6. runs[l][row[l] + 1] <= runs[l][y]
    BY <2>4, <1>1 DEF Ascending
  <2>7. runs[l][row[l] + 1] \in Int /\ runs[l][y] \in Int
    BY <2>4, <1>3
  <2> QED BY <2>3, <2>5, <2>6, <2>7, <1>5
<1>11. Ascending(t)
  <2>1. SUFFICES ASSUME NEW k \in 1 .. Len(t), NEW l \in 1 .. Len(t), k <= l PROVE t[k] <= t[l]
    BY DEF Ascending
  <2>2. CASE l = 1
    <3>1. k = 1
      BY <2>1, <2>2
    <3> QED BY <3>1, <2>2, <1>5, <1>7
  <2>3. CASE k = 1 /\ l # 1
    <3>1. l \in 2 .. Len(t)
      BY <2>3, <1>6, <1>7
    <3> QED BY <3>1, <2>3, <1>7, <1>10
  <2>4. CASE k # 1 /\ l # 1
    <3>1. k \in 2 .. Len(t) /\ l \in 2 .. Len(t) /\ k - 1 <= l - 1
      BY <2>1, <2>4, <1>6, <1>7
    <3>2. s[k - 1] <= s[l - 1]
      BY <3>1, <1>4, <1>7 DEF Ascending
    <3> QED BY <3>1, <3>2, <1>7
  <2> QED BY <2>2, <2>3, <2>4
<1>12. ASSUME NEW v \in Int PROVE Cardinality(Leq(t, v)) = Total(Counted(runs, row, upper, v))
  <2>1. Cardinality(Leq(t, v)) =
          IF h <= v THEN Cardinality(Leq(s, v)) + 1 ELSE Cardinality(Leq(s, v))
    BY <1>5, <1>6, LeqPrefixed DEF t
  <2>2. Total(Counted(runs, row, upper, v)) =
          IF h <= v THEN Total(Counted(runs, a, upper, v)) + 1 ELSE Total(Counted(runs, a, upper, v))
    BY <1>1, CountedAdvanced DEF a, h
  <2>3. Cardinality(Leq(s, v)) = Total(Counted(runs, a, upper, v))
    BY <1>4
  <2> QED BY <2>1, <2>2, <2>3
<1>13. MergesBetween(runs, row, upper, t)
  BY <1>7, <1>8, <1>9, <1>11, <1>12 DEF MergesBetween
<1> QED BY <1>13 DEF t, h

\* multiwaymerge does what it should between two rows none of which is above the
\* other.
THEOREM MultiwaymergeCorrect ==
  ASSUME NEW runs, SortedRuns(runs), NEW upper, Within(runs, upper), NEW lower \in Row,
         \A j \in Pakets : lower[j] <= upper[j]
  PROVE  MergesBetween(runs, lower, upper, multiwaymerge(runs, lower, upper))
<1> DEFINE A == {k \in Nat : \A r \in Rows(upper) : Total(upper) - Total(r) < k =>
                               MergesBetween(runs, r, upper, MergedFrom(runs, upper)[r])}
<1>0. \A r \in Rows(upper) : /\ Total(r) \in Int /\ Total(upper) \in Int
                             /\ Total(r) <= Total(upper)
  <2>1. SUFFICES ASSUME NEW r \in Rows(upper)
                 PROVE  /\ Total(r) \in Int /\ Total(upper) \in Int
                        /\ Total(r) <= Total(upper)
    OBVIOUS
  <2>2. \A j \in Pakets : r[j] <= upper[j]
    BY DEF Rows
  <2>3. r \in Differences /\ upper \in Differences
    BY RowType DEF Rows, Within
  <2>4. Total(r) \in Int /\ Total(upper) \in Int
    BY <2>3, TotalType
  <2>5. Total(r) <= Total(upper)
    BY <2>2, <2>3, SumsLeq, PaketsType DEF Total
  <2> QED BY <2>4, <2>5
<1>1. 0 \in A
  <2>1. \A r \in Rows(upper) : ~(Total(upper) - Total(r) < 0)
    BY <1>0
  <2> QED BY <2>1
<1>2. ASSUME NEW k \in Nat, k \in A PROVE k + 1 \in A
  <2>1. SUFFICES ASSUME NEW r \in Rows(upper), Total(upper) - Total(r) < k + 1
                 PROVE  MergesBetween(runs, r, upper, MergedFrom(runs, upper)[r])
    OBVIOUS
  <2>2. runs \in RunSet
    BY DEF SortedRuns
  <2>3. CASE Unfinished(r, upper) = {}
    <3>1. MergedFrom(runs, upper)[r] = <<>>
      BY <2>2, <2>3, MergedFromDef
    <3> QED BY <3>1, <2>2, <2>3, MergeNothing
  <2>4. CASE Unfinished(r, upper) # {}
    <3> DEFINE a == Advanced(runs, r, upper)
    <3>1. MergedFrom(runs, upper)[r] = <<HeadOf(runs, r, upper)>> \o MergedFrom(runs, upper)[a]
      BY <2>2, <2>4, MergedFromDef
    <3>2. a \in Rows(upper) /\ Total(a) = Total(r) + 1
      BY <2>2, <2>4, AdvancedRow
    <3> HIDE DEF a
    <3>3. Total(upper) - Total(a) < k
      BY <3>2, <2>1, <1>0
    <3>4. MergesBetween(runs, a, upper, MergedFrom(runs, upper)[a])
      BY <3>2, <3>3, <1>2
    <3>5. MergesBetween(runs, r, upper, <<HeadOf(runs, r, upper)>> \o MergedFrom(runs, upper)[a])
      BY <3>4, <2>4, MergeOne DEF a
    <3> QED BY <3>1, <3>5
  <2> QED BY <2>3, <2>4
<1>3. Nat \subseteq A
  <2> HIDE DEF A
  <2> QED BY <1>1, <1>2, NatSetInduction
<1>4. lower \in Rows(upper)
  BY DEF Rows
<1>5. Total(upper) - Total(lower) + 1 \in Nat
      /\ Total(upper) - Total(lower) < Total(upper) - Total(lower) + 1
  BY <1>0, <1>4
<1>6. MergesBetween(runs, lower, upper, MergedFrom(runs, upper)[lower])
  BY <1>3, <1>4, <1>5
<1>7. MergedFrom(runs, upper)[lower] = multiwaymerge(runs, lower, upper)
  BY DEF MergedFrom, multiwaymerge
<1> QED BY <1>6, <1>7

=============================================================================
