-------------------------- MODULE MalleableSortProofs --------------------------
(***************************************************************************)
(* Proofs about MalleableSort for every number of packets, every sequence   *)
(* of integers, every slack, every order of the packets and every choice of *)
(* pivots and of equal medians.                                             *)
(*                                                                          *)
(* QueueInv: between two barriers the queue holds packets of one phase.     *)
(* LoopingInv: a SplitPaket that repeats itself is never done.              *)
(* DataInv: what the packets done so far have computed.  That the segments  *)
(* merged are the sorted input is shown by counting: a sequence in which    *)
(* every value has as many elements below it, and up to it, as in the input *)
(* is Sort of the input (RankUnique).  The last section is about sorts that *)
(* do not return.                                                           *)
(***************************************************************************)
EXTENDS MalleableSort, SplittingProofs

USE MalleableSortAssumption

-----------------------------------------------------------------------------
(* Positions of the segments. *)

Sequence == input \in Seq(Values)

\* Quotient and remainder.
LEMMA DivMod ==
  ASSUME NEW a \in Nat, NEW b \in Nat, b >= 1
  PROVE  /\ a \div b \in Nat /\ a % b \in Nat /\ a % b < b
         /\ a = b * (a \div b) + (a % b)
OBVIOUS

\* The sizes of the packets are a row.
LEMMA SizeType ==
  ASSUME Sequence
  PROVE  /\ n \in Nat
         /\ \A l \in Pakets : paket_size(l) \in Nat
         /\ [j \in Pakets |-> paket_size(j)] \in Row
         /\ [j \in Pakets |-> paket_size(j)] \in Differences
<1>1. n \in Nat
  BY DEF n, Sequence
<1>2. n \div num_of_pakets \in Nat
  BY <1>1, PaketsType, DivMod
<1>3. \A l \in Pakets : paket_size(l) \in Nat
  BY <1>2 DEF paket_size
<1>4. [j \in Pakets |-> paket_size(j)] \in Row
  BY <1>3 DEF Row
<1> QED BY <1>1, <1>3, <1>4, RowType

\* Segments follow each other.
LEMMA Offsets ==
  ASSUME Sequence
  PROVE  /\ Offset(0) = 0
         /\ \A l \in 0 .. num_of_pakets : Offset(l) \in Nat
         /\ \A l \in Pakets : Offset(l + 1) = Offset(l) + paket_size(l)
         /\ \A k, l \in 0 .. num_of_pakets : k <= l => Offset(k) <= Offset(l)
         /\ Offset(num_of_pakets) = Total([j \in Pakets |-> paket_size(j)])
<1> DEFINE sizes == [j \in Pakets |-> paket_size(j)]
<1>1. sizes \in Row /\ sizes \in Differences
  BY SizeType
<1>2. \A j \in Pakets : sizes[j] = paket_size(j)
  OBVIOUS
<1>3. \A l : Offset(l) = Sums(sizes)[l]
  BY DEF Offset
<1> HIDE DEF sizes
<1>4. Total(sizes) = Sums(sizes)[num_of_pakets]
  BY DEF Total
<1>5. \A l \in Pakets : Sums(sizes)[l + 1] = Sums(sizes)[l] + sizes[l]
  BY <1>1, SumsDef
<1>6. Sums(sizes)[0] = 0
  BY <1>1, SumsDef
<1>7. Offset(num_of_pakets) = Total(sizes)
  BY <1>3, <1>4
<1>8. \A l \in Pakets : Offset(l + 1) = Offset(l) + paket_size(l)
  BY <1>2, <1>3, <1>5
<1>9. /\ \A l \in 0 .. num_of_pakets : Sums(sizes)[l] \in Nat
      /\ \A k, l \in 0 .. num_of_pakets : k <= l => Sums(sizes)[k] <= Sums(sizes)[l]
  BY <1>1, SumsMonotone
<1>10. Offset(0) = 0
  BY <1>3, <1>6
<1> QED BY <1>3, <1>7, <1>8, <1>9, <1>10 DEF sizes

\* The segments cover the sequence: the packets with a larger size are as many
\* as the division leaves over.
LEMMA OffsetEnd ==
  ASSUME Sequence
  PROVE  Offset(num_of_pakets) = n
<1> DEFINE q == n \div num_of_pakets
           r == n % num_of_pakets
           S == {l \in 0 .. num_of_pakets : Offset(l) = l * q + (IF l <= r THEN l ELSE r)}
<1>1. n \in Nat /\ num_of_pakets \in Nat /\ num_of_pakets >= 1
  BY SizeType, PaketsType
<1>2. q \in Nat /\ r \in Nat /\ r < num_of_pakets /\ n = num_of_pakets * q + r
  BY <1>1, DivMod
<1>3. \A l \in Pakets : paket_size(l) = q + (IF l < r THEN 1 ELSE 0)
  BY DEF paket_size
<1> HIDE DEF q, r
<1>4. 0 \in S
  BY <1>1, <1>2, Offsets
<1>5. ASSUME NEW l \in Pakets, l \in S PROVE l + 1 \in S
  <2>1. l \in Nat /\ l + 1 \in 0 .. num_of_pakets
    BY PaketsType
  <2>2. (l + 1) * q = l * q + q /\ l * q \in Nat
    BY <2>1, <1>2
  <2>3. Offset(l + 1) = Offset(l) + (q + (IF l < r THEN 1 ELSE 0))
    BY Offsets, <1>3
  <2>4. Offset(l) = l * q + (IF l <= r THEN l ELSE r)
    BY <1>5
  <2>5. Offset(l + 1) = (l + 1) * q + (IF l + 1 <= r THEN l + 1 ELSE r)
    BY <2>1, <2>2, <2>3, <2>4, <1>2
  <2> QED BY <2>1, <2>5
<1>6. num_of_pakets \in S
  <2> HIDE DEF S
  <2>1. 0 .. num_of_pakets \subseteq S
    BY <1>4, <1>5, PaketsInduction
  <2> QED BY <2>1, <1>1
<1>7. Offset(num_of_pakets) = num_of_pakets * q + r
  BY <1>1, <1>2, <1>6
<1> QED BY <1>2, <1>7

\* Every position is in one segment.
LEMMA Segments ==
  ASSUME Sequence
  PROVE  /\ \A l \in Pakets : \A x \in Segment(l) : x \in 1 .. n
         /\ \A k, l \in Pakets : \A x \in Segment(k) : x \in Segment(l) => k = l
         /\ \A x \in 1 .. n : \E l \in Pakets : x \in Segment(l)
<1>1. /\ n \in Nat
      /\ \A l \in 0 .. num_of_pakets : Offset(l) \in Nat /\ Offset(l) <= n
      /\ \A k, l \in 0 .. num_of_pakets : k <= l => Offset(k) <= Offset(l)
      /\ Offset(0) = 0 /\ Offset(num_of_pakets) = n
  BY Offsets, OffsetEnd, SizeType, PaketsType
<1>2. \A l \in Pakets : l \in 0 .. num_of_pakets /\ l + 1 \in 0 .. num_of_pakets /\ l \in Nat
  BY PaketsType
<1>3. \A l \in Pakets : \A x \in Segment(l) : x \in 1 .. n
  BY <1>1, <1>2 DEF Segment
<1>4. \A k, l \in Pakets : \A x \in Segment(k) : x \in Segment(l) => k = l
  <2>1. SUFFICES ASSUME NEW k \in Pakets, NEW l \in Pakets, NEW x \in Segment(k), x \in Segment(l),
                        k < l
                 PROVE FALSE
    BY <1>2
  <2>2. x <= Offset(k + 1) /\ Offset(l) + 1 <= x /\ x \in Int
    BY <2>1, <1>1, <1>2 DEF Segment
  <2>3. Offset(k + 1) <= Offset(l)
    BY <2>1, <1>1, <1>2
  <2> QED BY <2>2, <2>3, <1>1, <1>2
<1>5. ASSUME NEW x \in 1 .. n PROVE \E l \in Pakets : x \in Segment(l)
  <2> DEFINE S == {l \in 0 .. num_of_pakets : Offset(l) < x}
  <2>1. SUFFICES ASSUME \A l \in Pakets : x \notin Segment(l) PROVE FALSE
    OBVIOUS
  <2>2. 0 \in S
    BY <1>1, PaketsType
  <2>3. ASSUME NEW l \in Pakets, l \in S PROVE l + 1 \in S
    BY <2>1, <2>3, <1>1, <1>2 DEF Segment
  <2>4. num_of_pakets \in S
    <3> HIDE DEF S
    <3>1. 0 .. num_of_pakets \subseteq S
      BY <2>2, <2>3, PaketsInduction
    <3> QED BY <3>1, PaketsType
  <2> QED BY <2>4, <1>1
<1> QED BY <1>3, <1>4, <1>5

-----------------------------------------------------------------------------
(* What the runs are made of. *)

Filled(t) == t \in [Pakets -> Seq(Int)] /\ \A l \in Pakets : Len(t[l]) = paket_size(l)

\* s is the concatenation of t[0], t[1], ...
Concatenates(s, t) == \A l \in Pakets : \A x \in Segment(l) : s[x] = t[l][x - Offset(l)]

SmallUpTo(s, k, v) == {x \in 1 .. k : s[x] <= v}

\* The run t stands in s behind position o and ends at e.
StandsAt(s, t, o, e) == e = o + Len(t) /\ \A x \in o + 1 .. e : s[x] = t[x - o]

\* One segment more.
LEMMA SmallUpToGrows ==
  ASSUME NEW s, NEW t \in Seq(Int), NEW o \in Nat, NEW e \in Nat, StandsAt(s, t, o, e),
         NEW v \in Int
  PROVE  Cardinality(SmallUpTo(s, e, v)) = Cardinality(SmallUpTo(s, o, v)) + Cardinality(Leq(t, v))
<1> DEFINE A == SmallUpTo(s, o, v)
           C == SmallUpTo(s, e, v)
           B == {x \in o + 1 .. e : s[x] <= v}
           L == Leq(t, v)
<1>0. e = o + Len(t) /\ \A x \in o + 1 .. e : s[x] = t[x - o]
  BY DEF StandsAt
<1>1. Len(t) \in Nat /\ o <= e
  BY <1>0
<1>2. A \in SUBSET (1 .. o) /\ B \in SUBSET (1 .. e) /\ L \in SUBSET (1 .. Len(t))
  BY <1>1 DEF Leq, SmallUpTo
<1>3. C = A \cup B
  BY <1>1 DEF SmallUpTo
<1>4. A \cap B = {}
  BY <1>1 DEF SmallUpTo
<1>5. \A x \in L : x + o \in B /\ (x + o) - o = x
  <2>1. SUFFICES ASSUME NEW x \in L PROVE x + o \in B /\ (x + o) - o = x
    OBVIOUS
  <2>2. x \in 1 .. Len(t) /\ t[x] <= v
    BY DEF Leq
  <2>3. x + o \in o + 1 .. e /\ (x + o) - o = x
    BY <1>0, <1>1, <2>2
  <2>4. s[x + o] = t[x]
    BY <1>0, <2>3
  <2> QED BY <2>2, <2>3, <2>4
<1>6. \A y \in B : y - o \in L /\ (y - o) + o = y
  BY <1>0, <1>1 DEF Leq
<1> HIDE DEF A, B, C, L
<1>7. IsFiniteSet(A) /\ IsFiniteSet(B) /\ IsFiniteSet(L)
      /\ Cardinality(A) \in Nat /\ Cardinality(B) \in Nat /\ Cardinality(L) \in Nat
  BY <1>1, <1>2, CountPositions
<1>8. Cardinality(C) = Cardinality(A) + Cardinality(B) - Cardinality({})
  BY <1>3, <1>4, <1>7, FS_Union
<1>9. Cardinality(B) = Cardinality(L)
  <2> DEFINE f == [x \in L |-> x + o]
  <2>1. f \in [L -> B]
    BY <1>5
  <2>2. f \in Injection(L, B)
    <3>1. \A x, y \in L : f[x] = f[y] => x = y
      <4>1. \A x \in L : f[x] - o = x
        BY <1>5
      <4> HIDE DEF f
      <4> QED BY <4>1
    <3> HIDE DEF f
    <3> QED BY <2>1, <3>1 DEF Injection, IsInjective
  <2>3. f \in Surjection(L, B)
    <3>1. \A y \in B : y - o \in L /\ f[y - o] = y
      BY <1>6
    <3> HIDE DEF f
    <3> QED BY <2>1, <3>1 DEF Surjection
  <2> HIDE DEF f
  <2>4. ExistsBijection(L, B)
    BY <2>2, <2>3 DEF ExistsBijection, Bijection
  <2> QED BY <2>4, <1>7, FS_Bijection
<1> QED BY <1>7, <1>8, <1>9, FS_EmptySet DEF A, C, L

\* The count of small elements, segment by segment.
LEMMA SegmentsCount ==
  ASSUME Sequence, NEW s, NEW t, Filled(t), Concatenates(s, t), NEW v \in Int,
         NEW c \in Differences, \A l \in Pakets : c[l] = Cardinality(Leq(t[l], v))
  PROVE  Cardinality(SmallUpTo(s, n, v)) = Total(c)
<1> DEFINE S == {l \in 0 .. num_of_pakets : Cardinality(SmallUpTo(s, Offset(l), v)) = Sums(c)[l]}
<1>1. 0 \in S
  <2>1. SmallUpTo(s, Offset(0), v) = {}
    BY Offsets DEF SmallUpTo
  <2>2. Sums(c)[0] = 0
    BY SumsDef
  <2>3. 0 \in 0 .. num_of_pakets
    BY PaketsType
  <2>4. Cardinality(SmallUpTo(s, Offset(0), v)) = Sums(c)[0]
    BY <2>1, <2>2, FS_EmptySet, Zenon
  <2> QED BY <2>3, <2>4
<1>2. ASSUME NEW l \in Pakets, l \in S PROVE l + 1 \in S
  <2>1. l \in 0 .. num_of_pakets /\ l + 1 \in 0 .. num_of_pakets
    BY PaketsType
  <2>2. /\ Offset(l) \in Nat /\ Offset(l + 1) \in Nat
        /\ Offset(l + 1) = Offset(l) + Len(t[l]) /\ t[l] \in Seq(Int)
    BY <2>1, Offsets DEF Filled
  <2>3. \A x \in Offset(l) + 1 .. Offset(l + 1) : s[x] = t[l][x - Offset(l)]
    BY DEF Concatenates, Segment
  <2>4. Cardinality(SmallUpTo(s, Offset(l + 1), v))
          = Cardinality(SmallUpTo(s, Offset(l), v)) + Cardinality(Leq(t[l], v))
    <3>1. StandsAt(s, t[l], Offset(l), Offset(l + 1))
      BY <2>2, <2>3 DEF StandsAt
    <3> QED BY <2>2, <3>1, SmallUpToGrows
  <2>5. Sums(c)[l + 1] = Sums(c)[l] + c[l]
    BY SumsDef
  <2>6. Cardinality(SmallUpTo(s, Offset(l), v)) = Sums(c)[l]
    BY <1>2
  <2> QED BY <2>1, <2>4, <2>5, <2>6
<1>3. num_of_pakets \in S
  <2> HIDE DEF S
  <2>1. 0 .. num_of_pakets \subseteq S
    BY <1>1, <1>2, PaketsInduction
  <2> QED BY <2>1, PaketsType
<1>4. Cardinality(SmallUpTo(s, Offset(num_of_pakets), v)) = Sums(c)[num_of_pakets]
  BY <1>3
<1> QED BY <1>4, OffsetEnd DEF Total

\* What SortPaket l makes of its segment.
Piece(l) == SubSeq(input, Offset(l) + 1, Offset(l + 1))
Run(l) == Sort(Piece(l))

\* A packet's part of the input, position by position.
LEMMA Pieces ==
  ASSUME Sequence, NEW l \in Pakets
  PROVE  /\ Piece(l) \in Seq(Values) /\ Len(Piece(l)) = paket_size(l)
         /\ \A x \in Segment(l) : input[x] = Piece(l)[x - Offset(l)]
<1> DEFINE a == Offset(l)
           b == Offset(l + 1)
<1>1. a \in Nat /\ b \in Nat /\ paket_size(l) \in Nat /\ b = a + paket_size(l)
  BY Offsets, SizeType, PaketsType
<1>2. \A x \in a + 1 .. b : x \in 1 .. n
  BY Segments DEF Segment
<1>3. \A x \in 1 .. n : input[x] \in Values
  BY DEF Sequence, n
<1> HIDE DEF a, b
<1> DEFINE s == SubSeq(input, a + 1, b)
<1>4. /\ s \in Seq(Values) /\ Len(s) = (IF a + 1 <= b THEN b - (a + 1) + 1 ELSE 0)
      /\ \A x \in 1 .. b - (a + 1) + 1 : s[x] = input[(a + 1) + x - 1]
  <2>1. \A x \in a + 1 .. b : input[x] \in Values
    BY <1>2, <1>3
  <2> QED BY <1>1, <2>1, SubSeqProperties
<1>5. Len(s) = paket_size(l)
  BY <1>1, <1>4
<1>6. ASSUME NEW x \in a + 1 .. b PROVE input[x] = s[x - a]
  <2>1. x - a \in 1 .. b - (a + 1) + 1 /\ (a + 1) + (x - a) - 1 = x
    BY <1>1
  <2> QED BY <2>1, <1>4
<1> QED BY <1>4, <1>5, <1>6 DEF Segment, Piece, a, b

\* A run is its piece in ascending order.
LEMMA Runs ==
  ASSUME Sequence, NEW l \in Pakets
  PROVE  /\ Run(l) \in Seq(Values) /\ Len(Run(l)) = paket_size(l) /\ Ascending(Run(l))
         /\ \A v \in Int : Cardinality(Leq(Run(l), v)) = Cardinality(Leq(Piece(l), v))
  BY Pieces, SplittingAssumption, SortDef, SortAscends, SortCounts DEF Run

\* Every run is there.
Prepared == Sequence /\ buffers = [l \in Pakets |-> Run(l)]

\* Complete runs are what reduce_split and multiwaymerge ask for.
LEMMA PreparedRuns ==
  ASSUME Prepared
  PROVE  /\ Sequence /\ SortedRuns(buffers)
         /\ \A l \in Pakets : buffers[l] = Run(l) /\ Len(buffers[l]) = paket_size(l)
         /\ RunLengths(buffers) = [j \in Pakets |-> paket_size(j)]
         /\ Total(RunLengths(buffers)) = n
<1>1. Sequence /\ \A l \in Pakets : buffers[l] = Run(l)
  BY DEF Prepared
<1>2. \A l \in Pakets : buffers[l] \in Seq(Values) /\ Len(buffers[l]) = paket_size(l)
                        /\ Ascending(buffers[l])
  BY <1>1, Runs
<1>3. buffers \in RunSet
  <2>1. buffers = [l \in Pakets |-> buffers[l]]
    BY <1>1 DEF Prepared
  <2> QED BY <1>2, <2>1 DEF RunSet
<1>4. RunLengths(buffers) = [j \in Pakets |-> paket_size(j)]
  BY <1>2 DEF RunLengths
<1>5. Total(RunLengths(buffers)) = n
  BY <1>1, <1>4, Offsets, OffsetEnd
<1> QED BY <1>1, <1>2, <1>3, <1>4, <1>5 DEF SortedRuns

\* How often the runs have values up to v.
RunCounts(v) == [j \in Pakets |-> Cardinality(Leq(buffers[j], v))]

\* The runs have the elements of the input.
LEMMA InputCounts ==
  ASSUME Prepared, NEW v \in Int
  PROVE  /\ RunCounts(v) \in Row
         /\ Cardinality(Leq(input, v)) = Total(RunCounts(v))
<1> DEFINE t == [l \in Pakets |-> Piece(l)]
           c == RunCounts(v)
<1>1. Sequence /\ \A l \in Pakets : buffers[l] = Run(l)
  BY PreparedRuns
<1>2. \A l \in Pakets : t[l] = Piece(l) /\ Piece(l) \in Seq(Int) /\ Len(Piece(l)) = paket_size(l)
  BY <1>1, Pieces, SplittingAssumption, IntSequence
<1>3. Filled(t)
  BY <1>2 DEF Filled
<1>4. Concatenates(input, t)
  BY <1>1, <1>2, Pieces DEF Concatenates
<1>5. \A l \in Pakets : c[l] = Cardinality(Leq(t[l], v)) /\ c[l] \in Nat
  <2>1. \A l \in Pakets : c[l] = Cardinality(Leq(Run(l), v))
    BY <1>1 DEF RunCounts
  <2>2. \A l \in Pakets : c[l] = Cardinality(Leq(Piece(l), v))
    BY <2>1, <1>1, Runs
  <2>3. \A l \in Pakets : Cardinality(Leq(Piece(l), v)) \in Nat
    BY <1>2, LeqLess
  <2> QED BY <2>2, <2>3, <1>2
<1>6. c \in Row
  BY <1>5 DEF RunCounts, Row
<1> HIDE DEF t, c
<1>7. Cardinality(SmallUpTo(input, n, v)) = Total(c)
  BY <1>1, <1>3, <1>4, <1>5, <1>6, RowType, SegmentsCount
<1>8. SmallUpTo(input, n, v) = Leq(input, v)
  BY DEF SmallUpTo, Leq, n
<1> QED BY <1>6, <1>7, <1>8 DEF c

-----------------------------------------------------------------------------
(* Ranks. *)

\* Integers below v are those up to v - 1.
LEMMA LessIsLeq ==
  ASSUME NEW s \in Seq(Int), NEW v \in Int
  PROVE  v - 1 \in Int /\ Less(s, v) = Leq(s, v - 1)
<1>1. Len(s) \in Nat /\ \A x \in 1 .. Len(s) : s[x] \in Int
  OBVIOUS
<1>2. \A x \in 1 .. Len(s) : s[x] < v <=> s[x] <= v - 1
  BY <1>1
<1> QED BY <1>2 DEF Less, Leq

\* An ascending sequence that has every value as often as s is what std::sort makes of s.
LEMMA SortUnique ==
  ASSUME NEW s \in Seq(Values), NEW t \in Seq(Values), Len(t) = Len(s), Ascending(t),
         \A v \in Int : Cardinality(Leq(t, v)) = Cardinality(Leq(s, v))
  PROVE  t = Sort(s)
<1>1. s \in Seq(Int) /\ t \in Seq(Int) /\ Len(s) \in Nat /\ \A x \in 1 .. Len(t) : t[x] \in Int
  BY SplittingAssumption, IntSequence
<1>2. ASSUME NEW k \in 1 .. Len(s) PROVE t[k] = Sort(s)[k]
  <2> DEFINE a == t[k]
  <2>1. a \in Int /\ a - 1 \in Int /\ k \in Int
    BY <1>1
  <2>2. k <= Cardinality(Leq(t, a))
    <3>1. 1 .. k \in SUBSET Leq(t, a)
      <4>1. \A x \in 1 .. k : x \in 1 .. Len(t) /\ t[x] <= t[k]
        BY <1>1 DEF Ascending
      <4> QED BY <4>1 DEF Leq
    <3>2. Leq(t, a) \in SUBSET (1 .. Len(t))
      BY DEF Leq
    <3> HIDE DEF a
    <3>3. Cardinality(1 .. k) <= Cardinality(Leq(t, a))
      BY <3>1, <3>2, <1>1, CountMonotone
    <3>4. Cardinality(1 .. k) = k
      <4>1. k \in Nat
        BY <1>1
      <4> QED BY <4>1, CountPositions
    <3> QED BY <3>3, <3>4
  <2>3. Cardinality(Less(t, a)) < k
    <3>1. Less(t, a) \in SUBSET (1 .. k - 1)
      <4>1. SUFFICES ASSUME NEW x \in 1 .. Len(t), t[x] < t[k] PROVE x \in 1 .. k - 1
        BY DEF Less
      <4>2. t[x] \in Int /\ t[k] \in Int
        BY <1>1
      <4>3. ~(k <= x)
        BY <4>1, <4>2 DEF Ascending
      <4> QED BY <4>3
    <3> HIDE DEF a
    <3>2. k - 1 \in Nat
      BY <1>1
    <3>3. Cardinality(Less(t, a)) \in Nat /\ Cardinality(Less(t, a)) <= k - 1
      BY <3>1, <3>2, CountPositions
    <3> QED BY <3>3, <2>1
  <2> HIDE DEF a
  <2>4. k <= Cardinality(Leq(s, a))
    BY <2>1, <2>2
  <2>5. Cardinality(Less(s, a)) < k
    <3>1. Less(s, a) = Leq(s, a - 1) /\ Less(t, a) = Leq(t, a - 1)
      BY <1>1, <2>1, LessIsLeq
    <3>2. Cardinality(Leq(t, a - 1)) = Cardinality(Leq(s, a - 1))
      BY <2>1
    <3> QED BY <3>1, <3>2, <2>3
  <2>6. /\ Sort(s)[k] \in Int /\ Cardinality(Less(s, Sort(s)[k])) < k
        /\ k <= Cardinality(Leq(s, Sort(s)[k]))
    BY SplittingAssumption, SortDef
  <2>7. a = Sort(s)[k]
    BY <1>1, <2>1, <2>4, <2>5, <2>6, RankUnique
  <2> QED BY <2>7 DEF a
<1>3. Sort(s) \in Seq(Values) /\ Len(Sort(s)) = Len(s)
  BY SplittingAssumption, SortDef
<1> HIDE DEF Sort
<1> QED BY <1>1, <1>2, <1>3

-----------------------------------------------------------------------------
(* Rows. *)

\* What reduce_split promises of row l.
Splits(row, l) == Within(buffers, row) /\ Total(row) = Offset(l) /\ Cut(buffers, row)

FirstRow == [j \in Pakets |-> 0]
LastRow == [j \in Pakets |-> paket_size(j)]

\* The first and the last row are right.
LEMMA EndRows ==
  ASSUME Prepared
  PROVE  /\ FirstRow \in Row /\ LastRow \in Row
         /\ Splits(FirstRow, 0) /\ Splits(LastRow, num_of_pakets)
<1>1. /\ Sequence
      /\ \A l \in Pakets : Len(buffers[l]) = paket_size(l) /\ paket_size(l) \in Nat
  BY PreparedRuns, SizeType
<1>2. FirstRow \in Row /\ LastRow \in Row
  BY <1>1 DEF FirstRow, LastRow, Row
<1>3. \A j \in Pakets : FirstRow[j] = 0 /\ LastRow[j] = Len(buffers[j])
  BY <1>1 DEF FirstRow, LastRow
<1>4. Total(LastRow) = Offset(num_of_pakets) /\ Offset(0) = 0
  BY <1>1, Offsets DEF LastRow
<1> HIDE DEF FirstRow, LastRow
<1>5. Total(FirstRow) = 0
  BY <1>2, <1>3, RowType, SumsZero, PaketsType DEF Total
<1>6. Within(buffers, FirstRow) /\ Within(buffers, LastRow)
  BY <1>1, <1>2, <1>3 DEF Within
<1>7. Cut(buffers, FirstRow) /\ Cut(buffers, LastRow)
  <2>1. \A j \in Pakets : \A x \in 1 .. Len(buffers[j]) :
          ~(x <= FirstRow[j]) /\ ~(LastRow[j] < x)
    BY <1>1, <1>3
  <2> QED BY <2>1 DEF Cut
<1> QED BY <1>2, <1>4, <1>5, <1>6, <1>7 DEF Splits

\* Every row is there.
AllSplit ==
  /\ Prepared
  /\ splitters[0] = FirstRow /\ splitters[num_of_pakets] = LastRow
  /\ \A l \in 0 .. num_of_pakets : Splits(splitters[l], l)

\* Right rows lie within the runs.
LEMMA RowBounds ==
  ASSUME AllSplit, NEW l \in 0 .. num_of_pakets
  PROVE  /\ splitters[l] \in Row /\ splitters[l] \in Differences
         /\ Total(splitters[l]) = Offset(l) /\ Cut(buffers, splitters[l])
         /\ \A j \in Pakets : /\ splitters[l][j] \in Nat
                              /\ Len(buffers[j]) \in Nat /\ splitters[l][j] <= Len(buffers[j])
                              /\ Ascending(buffers[j]) /\ buffers[j] \in Seq(Int)
                              /\ \A x \in 1 .. Len(buffers[j]) : buffers[j][x] \in Int
<1>1. SortedRuns(buffers) /\ buffers \in RunSet
  BY PreparedRuns DEF AllSplit, SortedRuns
<1>2. \A j \in Pakets : buffers[j] \in Seq(Int) /\ Len(buffers[j]) \in Nat
                        /\ \A x \in 1 .. Len(buffers[j]) : buffers[j][x] \in Int
  BY <1>1, RunsType, SplittingAssumption, IntSequence
<1>3. /\ splitters[l] \in Row /\ Total(splitters[l]) = Offset(l) /\ Cut(buffers, splitters[l])
      /\ \A j \in Pakets : splitters[l][j] <= Len(buffers[j])
  BY DEF AllSplit, Splits, Within
<1>4. splitters[l] \in Differences /\ \A j \in Pakets : splitters[l][j] \in Nat
  BY <1>3, RowType
<1> QED BY <1>1, <1>2, <1>3, <1>4 DEF SortedRuns

\* Values less than the last one below a row all lie below it, and do not fill it.
LEMMA FewBelow ==
  ASSUME AllSplit, NEW l \in 0 .. num_of_pakets, NEW j \in Pakets, splitters[l][j] > 0
  PROVE  /\ buffers[j][splitters[l][j]] \in Int
         /\ Cardinality(Less(input, buffers[j][splitters[l][j]])) < Offset(l)
<1> DEFINE row == splitters[l]
           a == buffers[j][row[j]]
           c == RunCounts(a - 1)
<1>1. Prepared /\ input \in Seq(Int) /\ Sequence
  BY SplittingAssumption, IntSequence DEF AllSplit, Prepared, Sequence
<1>2. /\ row \in Row /\ row \in Differences /\ Total(row) = Offset(l) /\ Cut(buffers, row)
      /\ \A m \in Pakets : /\ row[m] \in Nat /\ Len(buffers[m]) \in Nat /\ row[m] <= Len(buffers[m])
                           /\ Ascending(buffers[m])
                           /\ \A x \in 1 .. Len(buffers[m]) : buffers[m][x] \in Int
  BY RowBounds
<1> HIDE DEF row
<1>3. row[j] \in 1 .. Len(buffers[j]) /\ a \in Int
  BY <1>2 DEF row
<1>4. ASSUME NEW m \in Pakets, NEW x \in 1 .. Len(buffers[m]), buffers[m][x] <= a - 1
      PROVE  x <= row[m] /\ (m = j => x < row[j])
  <2>1. buffers[m][x] \in Int /\ ~(a <= buffers[m][x])
    <3>1. buffers[m][x] \in Int
      BY <1>2
    <3> HIDE DEF a
    <3> QED BY <3>1, <1>3, <1>4
  <2>2. x <= row[m]
    <3>1. row[j] <= row[j] /\ Cut(buffers, row)
      BY <1>2, <1>3
    <3>2. row[m] < x => buffers[j][row[j]] <= buffers[m][x]
      BY <3>1, <1>3 DEF Cut
    <3>3. row[m] < x => a <= buffers[m][x]
      BY <3>2
    <3> QED BY <2>1, <3>3, <1>2
  <2>3. m = j => x # row[j]
    BY <2>1, <1>3
  <2> QED BY <2>2, <2>3, <1>2
<1> HIDE DEF a
<1>5. c \in Row /\ Cardinality(Leq(input, a - 1)) = Total(c)
  BY <1>1, <1>3, InputCounts
<1>6. ASSUME NEW m \in Pakets PROVE c[m] <= (IF m = j THEN row[m] - 1 ELSE row[m])
  <2> DEFINE k == IF m = j THEN row[m] - 1 ELSE row[m]
  <2>1. k \in Nat
    BY <1>2, <1>3
  <2>2. Leq(buffers[m], a - 1) \in SUBSET (1 .. k)
    <3>1. SUFFICES ASSUME NEW x \in 1 .. Len(buffers[m]), buffers[m][x] <= a - 1
                   PROVE  x \in 1 .. k
      BY DEF Leq
    <3>2. x <= row[m] /\ (m = j => x < row[j])
      BY <3>1, <1>4
    <3> QED BY <3>2, <1>2, <1>3
  <2> HIDE DEF k
  <2>3. Cardinality(Leq(buffers[m], a - 1)) <= k
    BY <2>1, <2>2, CountPositions
  <2> QED BY <2>3 DEF k, RunCounts
<1> HIDE DEF c
<1>7. c \in Differences /\ \A m \in Pakets : c[m] \in Nat
  BY <1>5, RowType
<1> DEFINE d == [c EXCEPT ![j] = @ + 1]
<1>8. d \in Differences /\ Total(d) = Total(c) + 1
  BY <1>7, TotalIncrement
<1>9. \A m \in Pakets : d[m] <= row[m]
  <2>1. \A m \in Pakets : d[m] = IF m = j THEN c[m] + 1 ELSE c[m]
    BY <1>7 DEF Differences
  <2> HIDE DEF d
  <2> QED BY <2>1, <1>2, <1>6, <1>7
<1> HIDE DEF d
<1>10. Total(d) <= Total(row)
  BY <1>2, <1>8, <1>9, SumsLeq, PaketsType DEF Total
<1>11. Total(c) \in Int /\ Total(row) \in Int /\ Total(d) \in Int
  BY <1>2, <1>7, <1>8, TotalType
<1>12. Cardinality(Less(input, a)) < Offset(l)
  <2>1. Less(input, a) = Leq(input, a - 1)
    BY <1>1, <1>3, LessIsLeq
  <2> QED BY <2>1, <1>2, <1>5, <1>8, <1>10, <1>11
<1> QED BY <1>3, <1>12 DEF a, row

\* Values up to the first one above a row are more than the row has below it.
LEMMA ManyUpTo ==
  ASSUME AllSplit, NEW l \in 0 .. num_of_pakets, NEW j \in Pakets,
         NEW y \in 1 .. Len(buffers[j]), splitters[l][j] < y
  PROVE  Offset(l) + 1 <= Cardinality(Leq(input, buffers[j][y]))
<1> DEFINE row == splitters[l]
           a == buffers[j][y]
           c == RunCounts(a)
<1>1. Prepared
  BY DEF AllSplit
<1>2. /\ row \in Row /\ row \in Differences /\ Total(row) = Offset(l) /\ Cut(buffers, row)
      /\ \A m \in Pakets : /\ row[m] \in Nat /\ Len(buffers[m]) \in Nat /\ row[m] <= Len(buffers[m])
                           /\ Ascending(buffers[m]) /\ buffers[m] \in Seq(Int)
                           /\ \A x \in 1 .. Len(buffers[m]) : buffers[m][x] \in Int
  BY RowBounds
<1> HIDE DEF row
<1>3. row[j] < y /\ a \in Int /\ row[j] + 1 \in Nat /\ row[j] + 1 <= y /\ y <= Len(buffers[j])
  BY <1>2 DEF row
<1>4. ASSUME NEW m \in Pakets, NEW x \in 1 .. Len(buffers[m]),
             x <= row[m] \/ (m = j /\ x <= y)
      PROVE  buffers[m][x] <= a
  <2>1. CASE x <= row[m]
    BY <2>1, <1>2, <1>3 DEF Cut
  <2>2. CASE m = j /\ x <= y
    BY <2>2, <1>2 DEF Ascending
  <2> QED BY <1>4, <2>1, <2>2
<1> HIDE DEF a
<1>5. c \in Row /\ Cardinality(Leq(input, a)) = Total(c)
  BY <1>1, <1>3, InputCounts
<1>6. ASSUME NEW m \in Pakets PROVE (IF m = j THEN row[m] + 1 ELSE row[m]) <= c[m]
  <2> DEFINE k == IF m = j THEN row[m] + 1 ELSE row[m]
  <2>1. k \in Nat /\ k <= Len(buffers[m])
    BY <1>2, <1>3
  <2>2. 1 .. k \in SUBSET Leq(buffers[m], a)
    <3>1. \A x \in 1 .. k : x \in 1 .. Len(buffers[m]) /\ (x <= row[m] \/ (m = j /\ x <= y))
      BY <2>1, <1>2, <1>3
    <3>2. \A x \in 1 .. k : buffers[m][x] <= a
      BY <3>1, <1>4
    <3> HIDE DEF k
    <3> QED BY <3>1, <3>2 DEF Leq
  <2> HIDE DEF k
  <2>3. Leq(buffers[m], a) \in SUBSET (1 .. Len(buffers[m])) /\ Len(buffers[m]) \in Nat
    BY <1>2 DEF Leq
  <2>4. Cardinality(1 .. k) <= Cardinality(Leq(buffers[m], a))
    BY <2>2, <2>3, CountMonotone
  <2>5. Cardinality(1 .. k) = k
    BY <2>1, CountPositions
  <2> QED BY <2>4, <2>5 DEF k, RunCounts
<1> HIDE DEF c
<1>7. c \in Differences /\ \A m \in Pakets : c[m] \in Nat
  BY <1>5, RowType
<1> DEFINE d == [row EXCEPT ![j] = @ + 1]
<1>8. d \in Differences /\ Total(d) = Total(row) + 1
  BY <1>2, TotalIncrement
<1>9. \A m \in Pakets : d[m] <= c[m]
  <2>1. \A m \in Pakets : d[m] = IF m = j THEN row[m] + 1 ELSE row[m]
    BY <1>2 DEF Differences
  <2> HIDE DEF d
  <2> QED BY <2>1, <1>2, <1>6, <1>7
<1> HIDE DEF d
<1>10. Total(d) <= Total(c)
  BY <1>7, <1>8, <1>9, SumsLeq, PaketsType DEF Total
<1> QED BY <1>2, <1>5, <1>8, <1>10 DEF a

-----------------------------------------------------------------------------
(* What follows from correct rows. *)

\* A row is above the next one in some run only if both cut the same value.
LEMMA InvertedIsATie ==
  ASSUME AllSplit, NEW l \in Pakets, Inverted(l)
  PROVE  /\ l > 0 /\ l < num_of_pakets - 1
         /\ Ordered[Offset(l)] = Ordered[Offset(l + 1) + 1]
<1>1. PICK j \in Pakets : splitters[l][j] > splitters[l + 1][j]
  BY DEF Inverted
<1> DEFINE y == splitters[l][j]
           a == buffers[j][y]
<1>2. /\ l \in 0 .. num_of_pakets /\ l + 1 \in 0 .. num_of_pakets /\ l \in Nat
      /\ num_of_pakets \in Nat
  BY PaketsType
<1>3. y \in Nat /\ splitters[l + 1][j] \in Nat /\ Len(buffers[j]) \in Nat /\ y <= Len(buffers[j])
  BY <1>2, RowBounds
<1>4. y > 0 /\ y \in 1 .. Len(buffers[j]) /\ splitters[l + 1][j] < y
  BY <1>1, <1>3
<1>5. Sequence /\ Prepared /\ input \in Seq(Int) /\ n \in Nat /\ Len(input) = n
  BY SplittingAssumption, IntSequence DEF AllSplit, Prepared, Sequence, n
<1>6. l > 0
  <2>1. l # 0
    <3>1. splitters[0][j] = 0
      BY DEF AllSplit, FirstRow
    <3> QED BY <3>1, <1>4
  <2> QED BY <2>1, <1>2
<1>7. l < num_of_pakets - 1
  <2>1. l + 1 # num_of_pakets
    <3>1. splitters[num_of_pakets][j] = Len(buffers[j])
      BY <1>5, PreparedRuns DEF AllSplit, LastRow
    <3> HIDE DEF y
    <3> QED BY <3>1, <1>3, <1>4
  <2> QED BY <2>1, <1>2, PaketsType
<1>8. a \in Int /\ Cardinality(Less(input, a)) < Offset(l)
  BY <1>2, <1>4, FewBelow
<1>9. Offset(l + 1) + 1 <= Cardinality(Leq(input, a))
  BY <1>2, <1>4, ManyUpTo
<1> HIDE DEF a, y
<1>10. /\ Offset(l) \in Nat /\ Offset(l + 1) \in Nat /\ Offset(l) <= Offset(l + 1)
       /\ Cardinality(Less(input, a)) \in Nat /\ Cardinality(Leq(input, a)) \in Nat
       /\ Cardinality(Leq(input, a)) <= n
  BY <1>2, <1>5, <1>8, Offsets, LeqLess
<1>11. ASSUME NEW k \in Int, k = Offset(l) \/ k = Offset(l + 1) + 1 PROVE Ordered[k] = a
  <2>1. /\ Cardinality(Less(input, a)) < k /\ k <= Cardinality(Leq(input, a))
        /\ k \in 1 .. Len(input)
    BY <1>5, <1>8, <1>9, <1>10, <1>11
  <2>2. /\ Sort(input)[k] \in Int /\ Cardinality(Less(input, Sort(input)[k])) < k
        /\ k <= Cardinality(Leq(input, Sort(input)[k]))
    BY <2>1, <1>5, SplittingAssumption, SortDef DEF Sequence
  <2> QED BY <2>1, <2>2, <1>5, <1>8, RankUnique DEF Ordered
<1>12. Ordered[Offset(l)] = a /\ Ordered[Offset(l + 1) + 1] = a
  <2>1. Offset(l) \in Int /\ Offset(l + 1) + 1 \in Int
    BY <1>10
  <2> QED BY <2>1, <1>11
<1> QED BY <1>6, <1>7, <1>12

NoneInverted == \A l \in Pakets : ~Inverted(l)

\* What MergePaket l writes.
Merge(l) == multiwaymerge(buffers, splitters[l], splitters[l + 1])

\* What multiwaymerge makes of the runs between two rows.
LEMMA Merges ==
  ASSUME AllSplit, NEW l \in Pakets, ~Inverted(l)
  PROVE  /\ MergesBetween(buffers, splitters[l], splitters[l + 1], Merge(l))
         /\ Merge(l) \in Seq(Values) /\ Merge(l) \in Seq(Int)
         /\ Len(Merge(l)) = paket_size(l)
         /\ Output(l) = Segment(l)
<1>1. l \in 0 .. num_of_pakets /\ l + 1 \in 0 .. num_of_pakets
  BY PaketsType
<1>2. /\ splitters[l] \in Row /\ \A j \in Pakets : splitters[l][j] \in Nat
      /\ splitters[l + 1] \in Row /\ \A j \in Pakets : splitters[l + 1][j] \in Nat
      /\ Total(splitters[l]) = Offset(l) /\ Total(splitters[l + 1]) = Offset(l + 1)
  BY <1>1, RowBounds
<1>3. SortedRuns(buffers) /\ Within(buffers, splitters[l + 1]) /\ Sequence
  BY <1>1, PreparedRuns DEF AllSplit, Splits
<1>4. \A j \in Pakets : splitters[l][j] <= splitters[l + 1][j]
  BY <1>2 DEF Inverted
<1>5. MergesBetween(buffers, splitters[l], splitters[l + 1], Merge(l))
  BY <1>2, <1>3, <1>4, MultiwaymergeCorrect DEF Merge
<1>6. /\ Merge(l) \in Seq(Values) /\ Len(Merge(l)) = Offset(l + 1) - Offset(l)
  BY <1>2, <1>5 DEF MergesBetween
<1>7. /\ Offset(l) \in Nat /\ Offset(l + 1) \in Nat /\ paket_size(l) \in Nat
      /\ Offset(l + 1) = Offset(l) + paket_size(l)
  BY <1>1, <1>3, Offsets, SizeType
<1>8. Offset(l) + Offset(l + 1) - Offset(l) = Offset(l + 1)
  BY <1>7
<1>9. Output(l) = Segment(l)
  BY <1>2, <1>8 DEF Output, Segment, Place
<1> QED BY <1>5, <1>6, <1>7, <1>9, SplittingAssumption, IntSequence

\* Every merge has been executed, and none has overrun.
AllMerged ==
  /\ AllSplit /\ NoneInverted
  /\ data \in [1 .. n -> Values]
  /\ Concatenates(data, [l \in Pakets |-> Merge(l)])

\* The values merged so far are those below the row.
LEMMA MergedCounts ==
  ASSUME AllMerged, NEW v \in Int
  PROVE  Cardinality(Leq(data, v)) = Cardinality(Leq(input, v))
<1> DEFINE t == [l \in Pakets |-> Merge(l)]
           c == [l \in Pakets |-> Cardinality(Leq(Merge(l), v))]
           D(l) == Counted(buffers, FirstRow, splitters[l], v)
           E(l) == Counted(buffers, splitters[l], splitters[l + 1], v)
           S == {l \in 0 .. num_of_pakets : Sums(c)[l] = Total(D(l))}
<1>1. /\ AllSplit /\ Prepared /\ Sequence /\ \A l \in Pakets : ~Inverted(l)
      /\ FirstRow \in Row /\ \A j \in Pakets : FirstRow[j] = 0
  BY EndRows DEF AllMerged, AllSplit, Prepared, NoneInverted, FirstRow
<1>2. \A l \in Pakets : /\ t[l] = Merge(l) /\ Merge(l) \in Seq(Int) /\ Len(Merge(l)) = paket_size(l)
                        /\ c[l] = Cardinality(Leq(Merge(l), v)) /\ c[l] \in Nat
  BY <1>1, Merges, LeqLess
<1>3. Filled(t) /\ Concatenates(data, t)
  BY <1>2 DEF Filled, AllMerged
<1>4. c \in Differences
  BY <1>2, RowType DEF Row
<1>5. \A l \in Pakets : c[l] = Cardinality(Leq(t[l], v))
  BY <1>2
<1>6. \A l \in Pakets : c[l] = Total(E(l))
  BY <1>1, <1>2, Merges DEF MergesBetween
<1> HIDE DEF t, c
<1>7. Cardinality(SmallUpTo(data, n, v)) = Total(c)
  BY <1>1, <1>3, <1>4, <1>5, SegmentsCount
<1>8. \A l \in 0 .. num_of_pakets : splitters[l] \in Row /\ D(l) \in Row /\ D(l) \in Differences
  BY <1>1, RowBounds, CountedType, RowType
<1>9. 0 \in S
  <2>1. \A j \in Pakets : D(0)[j] = 0
    <3>1. splitters[0] = FirstRow
      BY <1>1 DEF AllSplit
    <3>2. \A j \in Pakets : UpTo(buffers, FirstRow, FirstRow, v, j) = {}
      BY <1>1 DEF UpTo
    <3>3. \A j \in Pakets : D(0)[j] = Cardinality(UpTo(buffers, FirstRow, FirstRow, v, j))
      BY <3>1, <1>1, CountedType
    <3> QED BY <3>2, <3>3, FS_EmptySet
  <2>2. 0 \in 0 .. num_of_pakets /\ num_of_pakets \in 0 .. num_of_pakets
    BY PaketsType
  <2>3. D(0) \in Differences
    BY <1>8, <2>2
  <2> HIDE DEF D
  <2>4. Total(D(0)) = 0
    BY <2>1, <2>2, <2>3, SumsZero DEF Total
  <2>5. Sums(c)[0] = 0
    BY <1>4, SumsDef
  <2> QED BY <2>2, <2>4, <2>5
<1>10. ASSUME NEW l \in Pakets, l \in S PROVE l + 1 \in S
  <2>1. l \in 0 .. num_of_pakets /\ l + 1 \in 0 .. num_of_pakets
    BY PaketsType
  <2>2. \A j \in Pakets : /\ splitters[l][j] \in Nat /\ splitters[l + 1][j] \in Nat
                          /\ splitters[l][j] <= splitters[l + 1][j]
    BY <2>1, <1>1, RowBounds DEF Inverted
  <2>3. E(l) \in Differences /\ \A j \in Pakets : E(l)[j] \in Nat
    BY <2>1, <1>8, CountedType, RowType
  <2>4. ASSUME NEW j \in Pakets PROVE D(l + 1)[j] = D(l)[j] + E(l)[j]
    <3> DEFINE A == UpTo(buffers, FirstRow, splitters[l], v, j)
               B == UpTo(buffers, splitters[l], splitters[l + 1], v, j)
               C == UpTo(buffers, FirstRow, splitters[l + 1], v, j)
    <3>1. /\ D(l)[j] = Cardinality(A) /\ E(l)[j] = Cardinality(B) /\ D(l + 1)[j] = Cardinality(C)
          /\ IsFiniteSet(A) /\ IsFiniteSet(B)
      BY <2>1, <1>1, <1>8, CountedType
    <3>2. C = A \cup B /\ A \cap B = {}
      <4>1. \A x : x \in FirstRow[j] + 1 .. splitters[l + 1][j]
                     <=> x \in FirstRow[j] + 1 .. splitters[l][j]
                           \/ x \in splitters[l][j] + 1 .. splitters[l + 1][j]
        BY <2>2, <1>1
      <4>2. \A x : ~(x \in FirstRow[j] + 1 .. splitters[l][j]
                       /\ x \in splitters[l][j] + 1 .. splitters[l + 1][j])
        BY <2>2, <1>1
      <4> QED BY <4>1, <4>2 DEF UpTo
    <3> HIDE DEF A, B, C, D, E
    <3>3. Cardinality(A \cup B) = Cardinality(A) + Cardinality(B) - Cardinality({})
      BY <3>1, <3>2, FS_Union
    <3>4. Cardinality(A) \in Nat /\ Cardinality(B) \in Nat
      BY <3>1, FS_CardinalityType
    <3> QED BY <3>1, <3>2, <3>3, <3>4, FS_EmptySet
  <2>5. D(l) \in Differences /\ D(l + 1) \in Differences /\ num_of_pakets \in 0 .. num_of_pakets
    BY <2>1, <1>8, PaketsType
  <2>6. c[l] = Total(E(l)) /\ Sums(c)[l] = Total(D(l))
    BY <1>6, <1>10
  <2>7. Sums(c)[l + 1] = Sums(c)[l] + c[l]
    BY <1>4, SumsDef
  <2> HIDE DEF D, E
  <2>8. Total(D(l + 1)) = Total(D(l)) + Total(E(l))
    BY <2>3, <2>4, <2>5, SumsAdd DEF Total
  <2> QED BY <2>1, <2>6, <2>7, <2>8
<1>11. num_of_pakets \in S
  <2> HIDE DEF S
  <2>1. 0 .. num_of_pakets \subseteq S
    BY <1>9, <1>10, PaketsInduction
  <2> QED BY <2>1, PaketsType
<1>12. D(num_of_pakets) = RunCounts(v)
  <2>1. \A j \in Pakets : LastRow[j] = Len(buffers[j])
    BY <1>1, PreparedRuns DEF LastRow
  <2>2. \A j \in Pakets : UpTo(buffers, FirstRow, LastRow, v, j) = Leq(buffers[j], v)
    BY <2>1, <1>1 DEF UpTo, Leq
  <2> QED BY <2>2, <1>1 DEF Counted, RunCounts, AllSplit
<1>13. Total(c) = Total(RunCounts(v))
  BY <1>11, <1>12 DEF Total
<1>14. SmallUpTo(data, n, v) = Leq(data, v)
  <2>1. n \in Nat /\ Len(data) = n
    BY <1>1, SizeType DEF AllMerged
  <2> QED BY <2>1 DEF SmallUpTo, Leq
<1> QED BY <1>1, <1>7, <1>13, <1>14, InputCounts

\* No row is above a later one.
LEMMA RowsAscend ==
  ASSUME AllSplit, NoneInverted, NEW l \in 0 .. num_of_pakets
  PROVE  \A k \in 0 .. l : \A j \in Pakets : splitters[k][j] <= splitters[l][j]
<1> DEFINE S == {m \in 0 .. num_of_pakets :
                   \A k \in 0 .. m : \A j \in Pakets : splitters[k][j] <= splitters[m][j]}
<1>1. \A m \in 0 .. num_of_pakets : \A j \in Pakets : splitters[m][j] \in Nat
  BY RowBounds
<1>2. 0 \in S
  <2>1. 0 \in 0 .. num_of_pakets
    BY PaketsType
  <2> QED BY <2>1, <1>1
<1>3. ASSUME NEW m \in Pakets, m \in S PROVE m + 1 \in S
  <2>1. m \in 0 .. num_of_pakets /\ m + 1 \in 0 .. num_of_pakets /\ m \in Nat
    BY PaketsType
  <2>2. \A j \in Pakets : splitters[m][j] <= splitters[m + 1][j]
    BY <2>1, <1>1 DEF NoneInverted, Inverted
  <2>3. ASSUME NEW k \in 0 .. m + 1, NEW j \in Pakets
        PROVE  splitters[k][j] <= splitters[m + 1][j]
    <3>1. CASE k = m + 1
      <4>1. splitters[m + 1][j] \in Nat
        BY <2>1, <1>1
      <4>2. splitters[m + 1][j] <= splitters[m + 1][j]
        BY <4>1
      <4> QED BY <3>1, <4>2, Zenon
    <3>2. CASE k # m + 1
      <4>1. k \in 0 .. m /\ k \in 0 .. num_of_pakets
        BY <3>2, <2>1, PaketsType
      <4>2. splitters[k][j] <= splitters[m][j]
        BY <4>1, <1>3
      <4> QED BY <4>1, <4>2, <2>1, <2>2, <1>1
    <3> QED BY <3>1, <3>2
  <2> QED BY <2>1, <2>3
<1>4. l \in S
  <2> HIDE DEF S
  <2> QED BY <1>2, <1>3, PaketsInduction
<1> QED BY <1>4

\* What is merged lies between its rows, so that the merges are in order too.
LEMMA MergedAscends ==
  ASSUME AllMerged
  PROVE  data \in Seq(Values) /\ Len(data) = n /\ Ascending(data)
<1>1. /\ AllSplit /\ Prepared /\ Sequence /\ NoneInverted /\ \A l \in Pakets : ~Inverted(l)
      /\ n \in Nat /\ data \in [1 .. n -> Values]
  BY SizeType DEF AllMerged, AllSplit, Prepared, NoneInverted
<1>2. data \in Seq(Values) /\ Len(data) = n
  BY <1>1
<1>3. ASSUME NEW l \in Pakets, NEW x \in Segment(l)
      PROVE  /\ x - Offset(l) \in 1 .. Len(Merge(l)) /\ data[x] = Merge(l)[x - Offset(l)]
             /\ \E j \in Pakets : \E z \in 1 .. Len(buffers[j]) :
                  /\ splitters[l][j] < z /\ z <= splitters[l + 1][j]
                  /\ data[x] = buffers[j][z]
  <2>1. l \in 0 .. num_of_pakets /\ l + 1 \in 0 .. num_of_pakets
    BY PaketsType
  <2>2. /\ Offset(l) \in Nat /\ Offset(l + 1) = Offset(l) + paket_size(l)
        /\ paket_size(l) \in Nat /\ Len(Merge(l)) = paket_size(l)
        /\ MergesBetween(buffers, splitters[l], splitters[l + 1], Merge(l))
    BY <1>1, <2>1, Offsets, SizeType, Merges
  <2>3. x - Offset(l) \in 1 .. Len(Merge(l))
    BY <2>2 DEF Segment
  <2>4. data[x] = Merge(l)[x - Offset(l)]
    BY DEF AllMerged, Concatenates
  <2>5. \A z \in 1 .. Len(Merge(l)) : \E j \in Pakets : \E y \in 1 .. Len(buffers[j]) :
          /\ splitters[l][j] < y /\ y <= splitters[l + 1][j]
          /\ Merge(l)[z] = buffers[j][y]
    BY <2>2, Zenon DEF MergesBetween
  <2> DEFINE q == x - Offset(l)
             between(v) == \E j \in Pakets : \E y \in 1 .. Len(buffers[j]) :
                             /\ splitters[l][j] < y /\ y <= splitters[l + 1][j]
                             /\ v = buffers[j][y]
  <2>6. between(Merge(l)[q])
    BY <2>3, <2>5
  <2>7. between(data[x])
    <3> HIDE DEF between
    <3> QED BY <2>4, <2>6
  <2> QED BY <2>3, <2>4, <2>7
<1>4. ASSUME NEW x \in 1 .. n, NEW y \in 1 .. n, x <= y PROVE data[x] <= data[y]
  <2>1. PICK k \in Pakets : x \in Segment(k)
    BY <1>1, Segments
  <2>2. PICK l \in Pakets : y \in Segment(l)
    BY <1>1, Segments
  <2>3. /\ k \in 0 .. num_of_pakets /\ k + 1 \in 0 .. num_of_pakets /\ k \in Nat
        /\ l \in 0 .. num_of_pakets /\ l + 1 \in 0 .. num_of_pakets /\ l \in Nat
    BY PaketsType
  <2>4. /\ Offset(k) \in Nat /\ Offset(l + 1) \in Nat
        /\ l + 1 <= k => Offset(l + 1) <= Offset(k)
    BY <1>1, <2>3, Offsets
  <2>5. ~(l + 1 <= k)
    BY <2>1, <2>2, <2>4, <1>4 DEF Segment
  <2>6. CASE k = l
    <3>1. /\ x - Offset(l) \in 1 .. Len(Merge(l)) /\ data[x] = Merge(l)[x - Offset(l)]
          /\ y - Offset(l) \in 1 .. Len(Merge(l)) /\ data[y] = Merge(l)[y - Offset(l)]
      BY <2>1, <2>2, <2>6, <1>3
    <3>2. x - Offset(l) <= y - Offset(l)
      BY <2>4, <2>6, <1>4
    <3>3. Ascending(Merge(l))
      BY <1>1, Merges DEF MergesBetween
    <3> QED BY <3>1, <3>2, <3>3 DEF Ascending
  <2>7. CASE k # l
    <3>1. k + 1 <= l
      BY <2>3, <2>5, <2>7
    <3>2. PICK j \in Pakets : \E z \in 1 .. Len(buffers[j]) :
            splitters[k][j] < z /\ z <= splitters[k + 1][j] /\ data[x] = buffers[j][z]
      BY <2>1, <1>3
    <3>3. PICK z \in 1 .. Len(buffers[j]) : z <= splitters[k + 1][j] /\ data[x] = buffers[j][z]
      BY <3>2
    <3>4. PICK m \in Pakets : \E w \in 1 .. Len(buffers[m]) :
            splitters[l][m] < w /\ w <= splitters[l + 1][m] /\ data[y] = buffers[m][w]
      BY <2>2, <1>3
    <3>5. PICK w \in 1 .. Len(buffers[m]) : splitters[l][m] < w /\ data[y] = buffers[m][w]
      BY <3>4
    <3>6. splitters[k + 1][j] <= splitters[l][j]
      <4>1. k + 1 \in 0 .. l
        BY <2>3, <3>1
      <4> QED BY <4>1, <1>1, <2>3, RowsAscend
    <3>7. z <= splitters[l][j]
      <4>1. /\ splitters[k + 1][j] \in Nat /\ splitters[l][j] \in Nat /\ Len(buffers[j]) \in Nat
        BY <1>1, <2>3, RowBounds
      <4> QED BY <4>1, <3>3, <3>6
    <3>8. Cut(buffers, splitters[l])
      BY <1>1, <2>3, RowBounds
    <3> QED BY <3>3, <3>5, <3>7, <3>8 DEF Cut
  <2> QED BY <2>6, <2>7
<1>5. Ascending(data)
  BY <1>2, <1>4 DEF Ascending
<1> QED BY <1>2, <1>5

\* The caller finds its elements in order.
LEMMA MergedIsSorted ==
  ASSUME AllMerged
  PROVE  data = Ordered
<1>1. Sequence /\ Len(input) = n
  BY DEF AllMerged, AllSplit, Prepared, n
<1>2. \A v \in Int : Cardinality(Leq(data, v)) = Cardinality(Leq(input, v))
  BY MergedCounts
<1> QED BY <1>1, <1>2, MergedAscends, SortUnique DEF Ordered, Sequence

-----------------------------------------------------------------------------
(* The queue between two barriers holds packets of one phase. *)

Phases == {"sort", "split", "merge"}
Count(phase) == IF phase = "split" THEN num_of_pakets - 1 ELSE num_of_pakets

ControlTypes ==
  /\ todo \in [{Queue} -> SUBSET Packets]
  /\ doing \in [{Queue} -> SUBSET Packets]
  /\ done \in SUBSET Packets
  /\ barrier \in [{Caller} -> {Queue, NULL}]
  /\ pc \in {"sort", "split", "merge", "cleanup", "returned"}
  /\ i \in 0 .. num_of_pakets
  /\ overrun \in BOOLEAN

\* Only packets of this phase that have been pushed wait or run; what has been
\* pushed is not lost; a packet of a later phase is not done; and sort waits
\* only when it has pushed all of a phase.
QueueInv ==
  /\ ControlTypes
  /\ \A packet \in todo[Queue] \cup doing[Queue] : packet.kind = pc /\ packet.paket < i
  /\ pc \in Phases =>
       /\ i <= Count(pc)
       /\ \A l \in Pakets : l < i => Packet(pc, l) \in todo[Queue] \cup doing[Queue] \cup done
  /\ pc = "sort" => \A packet \in done : packet.kind = "sort"
  /\ pc = "split" => \A packet \in done : packet.kind \in {"sort", "split"}
  /\ barrier[Caller] = Queue => pc \in Phases /\ i = Count(pc)

\* The packets of a phase.
LEMMA PacketTypes ==
  /\ \A l \in Pakets : Packet("sort", l) \in Packets /\ Packet("merge", l) \in Packets
  /\ \A l \in 0 .. num_of_pakets - 2 : Packet("split", l) \in Packets /\ l \in Pakets
  /\ \A kind, l : Packet(kind, l).kind = kind /\ Packet(kind, l).paket = l
  /\ \A packet \in Packets : /\ packet.kind \in Phases /\ packet.paket \in Pakets
                             /\ packet = Packet(packet.kind, packet.paket)
                             /\ packet.kind = "split" => packet.paket \in 0 .. num_of_pakets - 2
BY PaketsType DEF Packet, Packets, Phases

\* The queue is empty before the first phase.
LEMMA QueueInit == Init => QueueInv
<1>1. SUFFICES ASSUME Init PROVE QueueInv
  OBVIOUS
<1>2. /\ todo = [j \in {Queue} |-> {}] /\ doing = [j \in {Queue} |-> {}] /\ done = {}
      /\ barrier = [c \in {Caller} |-> NULL] /\ pc = "sort" /\ i = 0 /\ overrun = FALSE
  BY <1>1 DEF Init, JB!Init
<1>3. ControlTypes
  <2>1. i \in 0 .. num_of_pakets
    BY <1>2, PaketsType
  <2>3. overrun \in BOOLEAN
    BY <1>2, Zenon
  <2>2. /\ todo \in [{Queue} -> SUBSET Packets] /\ doing \in [{Queue} -> SUBSET Packets]
        /\ done \in SUBSET Packets /\ barrier \in [{Caller} -> {Queue, NULL}]
    BY <1>2
  <2> QED BY <1>2, <2>1, <2>2, <2>3 DEF ControlTypes
<1>4. todo[Queue] = {} /\ doing[Queue] = {} /\ barrier[Caller] = NULL
  BY <1>2
<1>5. Queue # NULL
  BY MalleableSortAssumption
<1> QED BY <1>2, <1>3, <1>4, <1>5, PaketsType DEF QueueInv, Count, Phases

\* A push adds a packet of the phase that was not there.
LEMMA PushKeepsQueue ==
  ASSUME QueueInv, NEW kind \in Phases, Push(kind, Count(kind))
  PROVE  QueueInv'
<1> DEFINE packet == Packet(kind, i)
<1>1. /\ pc = kind /\ i < Count(kind) /\ i' = i + 1 /\ pc' = pc /\ overrun' = overrun
      /\ todo' = [todo EXCEPT ![Queue] = @ \cup {packet}]
      /\ doing' = doing /\ done' = done /\ barrier' = barrier
  BY DEF Push, JB!Submit
<1>2. ControlTypes
  BY DEF QueueInv
<1>3. /\ i \in Nat /\ i + 1 \in 0 .. num_of_pakets /\ i + 1 <= Count(kind) /\ packet \in Packets
      /\ packet.kind = kind /\ packet.paket = i
  <2>1. i \in Nat /\ num_of_pakets \in Nat
    BY <1>2, PaketsType DEF ControlTypes
  <2>2. i + 1 \in 0 .. num_of_pakets /\ i + 1 <= Count(kind)
    BY <1>1, <2>1 DEF Count
  <2>3. i \in Pakets /\ (kind = "split" => i \in 0 .. num_of_pakets - 2)
    BY <1>1, <2>1, PaketsType DEF Count
  <2>4. packet \in Packets
    BY <2>3, PacketTypes DEF Phases
  <2> QED BY <2>1, <2>2, <2>4, PacketTypes
<1> HIDE DEF packet
<1>4. todo'[Queue] = todo[Queue] \cup {packet} /\ doing'[Queue] = doing[Queue]
  BY <1>1, <1>2 DEF ControlTypes
<1>5. ControlTypes'
  BY <1>1, <1>2, <1>3 DEF ControlTypes
<1>6. ASSUME NEW other \in todo'[Queue] \cup doing'[Queue]
      PROVE  other.kind = pc' /\ other.paket < i'
  <2>1. CASE other = packet
    BY <2>1, <1>1, <1>3
  <2>2. CASE other # packet
    <3>1. other \in todo[Queue] \cup doing[Queue]
      BY <2>2, <1>4
    <3>2. other.kind = pc /\ other.paket < i
      BY <3>1 DEF QueueInv
    <3>3. other.paket \in Int
      BY <3>1, <1>2, PacketTypes, PaketsType DEF ControlTypes
    <3> QED BY <3>2, <3>3, <1>1, <1>3
  <2> QED BY <2>1, <2>2
<1>7. ASSUME NEW l \in Pakets, l < i'
      PROVE  Packet(pc', l) \in todo'[Queue] \cup doing'[Queue] \cup done'
  <2>1. CASE l = i
    BY <2>1, <1>1, <1>4 DEF packet
  <2>2. CASE l # i
    <3>1. l < i
      BY <2>2, <1>1, <1>3, <1>7, PaketsType
    <3>2. Packet(pc, l) \in todo[Queue] \cup doing[Queue] \cup done
      BY <3>1, <1>1 DEF QueueInv
    <3> QED BY <3>2, <1>1, <1>4
  <2> QED BY <2>1, <2>2
<1>8. barrier'[Caller] # Queue
  <2>1. i # Count(kind)
    BY <1>1, <1>3, PaketsType DEF Count
  <2> QED BY <2>1, <1>1 DEF QueueInv
<1>9. /\ pc' = "sort" => \A other \in done' : other.kind = "sort"
      /\ pc' = "split" => \A other \in done' : other.kind \in {"sort", "split"}
  BY <1>1 DEF QueueInv
<1>10. pc' \in Phases => i' <= Count(pc')
  BY <1>1, <1>3
<1> QED BY <1>5, <1>6, <1>7, <1>8, <1>9, <1>10 DEF QueueInv

\* What is pushed and taken stays pushed, what is taken and completed too.
LEMMA MovesKeepQueue ==
  ASSUME QueueInv, ControlTypes', UNCHANGED <<pc, i, barrier>>,
         todo'[Queue] \cup doing'[Queue] \subseteq todo[Queue] \cup doing[Queue],
         todo'[Queue] \cup doing'[Queue] \cup done' = todo[Queue] \cup doing[Queue] \cup done,
         done \subseteq done', done' \ done \subseteq doing[Queue]
  PROVE  QueueInv'
<1>1. \A packet \in todo'[Queue] \cup doing'[Queue] : packet.kind = pc' /\ packet.paket < i'
  BY DEF QueueInv
<1>2. pc' \in Phases =>
        /\ i' <= Count(pc')
        /\ \A l \in Pakets : l < i' =>
             Packet(pc', l) \in todo'[Queue] \cup doing'[Queue] \cup done'
  BY DEF QueueInv
<1>3. \A packet \in done' : packet \in done \/ packet.kind = pc
  BY DEF QueueInv
<1>4. /\ pc' = "sort" => \A packet \in done' : packet.kind = "sort"
      /\ pc' = "split" => \A packet \in done' : packet.kind \in {"sort", "split"}
  BY <1>3 DEF QueueInv
<1>5. barrier'[Caller] = Queue => pc' \in Phases /\ i' = Count(pc')
  BY DEF QueueInv
<1> QED BY <1>1, <1>2, <1>4, <1>5 DEF QueueInv

\* A worker takes one that is to be done.
LEMMA TakeKeepsQueue ==
  ASSUME QueueInv, NEW packet, Take(packet)
  PROVE  QueueInv'
<1>1. /\ packet \in todo[Queue]
      /\ todo' = [todo EXCEPT ![Queue] = @ \ {packet}]
      /\ doing' = [doing EXCEPT ![Queue] = @ \cup {packet}]
      /\ UNCHANGED <<done, barrier, pc, i, overrun>>
  BY DEF Take, JB!Start
<1>2. ControlTypes
  BY DEF QueueInv
<1>3. ControlTypes'
  BY <1>1, <1>2 DEF ControlTypes
<1>4. /\ todo'[Queue] = todo[Queue] \ {packet}
      /\ doing'[Queue] = doing[Queue] \cup {packet} /\ done' = done
  BY <1>1, <1>2 DEF ControlTypes
<1> QED BY <1>1, <1>3, <1>4, MovesKeepQueue

\* Completed(packet): what every packet does to the queue when it ends.
Completed(packet) == JB!Complete(Queue, packet) /\ UNCHANGED <<pc, i>> /\ overrun' \in BOOLEAN

\* What has been executed is done.
LEMMA CompletedKeepsQueue ==
  ASSUME QueueInv, NEW packet, Completed(packet)
  PROVE  /\ QueueInv' /\ packet \in doing[Queue] /\ done' = done \cup {packet}
         /\ pc' = pc /\ i' = i /\ packet.kind = pc
<1>1. /\ packet \in doing[Queue] /\ done' = done \cup {packet}
      /\ doing' = [doing EXCEPT ![Queue] = @ \ {packet}]
      /\ UNCHANGED <<todo, barrier, pc, i>> /\ overrun' \in BOOLEAN
  BY DEF Completed, JB!Complete
<1>2. ControlTypes
  BY DEF QueueInv
<1>3. packet \in Packets
  BY <1>1, <1>2 DEF ControlTypes
<1>4. ControlTypes'
  BY <1>1, <1>2, <1>3 DEF ControlTypes
<1>5. todo'[Queue] = todo[Queue] /\ doing'[Queue] = doing[Queue] \ {packet}
  BY <1>1, <1>2 DEF ControlTypes
<1>6. QueueInv'
  BY <1>1, <1>4, <1>5, MovesKeepQueue
<1>7. packet.kind = pc
  BY <1>1 DEF QueueInv
<1> QED BY <1>1, <1>6, <1>7

\* A barrier that opens: everything of the phase has been executed.
Opened == JB!Return(Caller, Queue)

\* blockuntildone returns when all packets of the phase are done.
LEMMA OpenedPhase ==
  ASSUME QueueInv, Opened
  PROVE  /\ \A l \in 0 .. Count(pc) - 1 : Packet(pc, l) \in done
         /\ pc \in Phases /\ todo[Queue] = {} /\ doing[Queue] = {}
<1>1. barrier[Caller] = Queue /\ todo[Queue] = {} /\ doing[Queue] = {}
  BY DEF Opened, JB!Return
<1>2. pc \in Phases /\ i = Count(pc)
  BY <1>1 DEF QueueInv
<1>3. \A l \in 0 .. Count(pc) - 1 : l \in Pakets /\ l < i
  BY <1>2, PaketsType DEF Count
<1> QED BY <1>1, <1>2, <1>3 DEF QueueInv

\* What sort does to the queue when a phase is over.
NextPhase(phase) == Opened /\ pc' = phase /\ UNCHANGED overrun /\ i' \in {0, i}

\* The next phase starts with an empty queue.
LEMMA NextPhaseKeepsQueue ==
  ASSUME QueueInv, NEW phase,
         \/ pc = "sort" /\ phase = "split" /\ i' = 0
         \/ pc = "split" /\ phase = "merge" /\ i' = 0
         \/ pc = "merge" /\ phase = "cleanup",
         NextPhase(phase)
  PROVE  QueueInv'
<1>1. /\ barrier' = [barrier EXCEPT ![Caller] = NULL] /\ UNCHANGED <<todo, doing, done, overrun>>
      /\ pc' = phase /\ i' \in {0, i} /\ todo[Queue] = {} /\ doing[Queue] = {}
  BY DEF NextPhase, Opened, JB!Return
<1>2. ControlTypes
  BY DEF QueueInv
<1>3. ControlTypes'
  BY <1>1, <1>2, PaketsType DEF ControlTypes
<1>4. barrier'[Caller] # Queue
  BY <1>1, <1>2, MalleableSortAssumption DEF ControlTypes
<1>5. todo'[Queue] = {} /\ doing'[Queue] = {} /\ done' = done
  BY <1>1
<1>6. pc' \in Phases => i' = 0 /\ i' <= Count(pc')
  BY <1>1, PaketsType DEF Phases, Count
<1>7. pc' \in Phases => \A l \in Pakets : ~(l < i')
  BY <1>6, PaketsType
<1>8. pc' # "sort" /\ (pc' = "split" => \A packet \in done' : packet.kind \in {"sort", "split"})
  BY <1>1 DEF QueueInv
<1> QED BY <1>3, <1>4, <1>5, <1>6, <1>7, <1>8 DEF QueueInv

\* Each packet executes by completing its kind.
LEMMA PacketsComplete ==
  /\ \A l \in Pakets : SortPaket(l) /\ overrun \in BOOLEAN => Completed(Packet("sort", l))
  /\ \A l \in 0 .. num_of_pakets - 2 :
       SplitPaket(l) /\ overrun \in BOOLEAN => Completed(Packet("split", l))
  /\ \A l \in Pakets : MergePaket(l) /\ overrun \in BOOLEAN => Completed(Packet("merge", l))
  /\ \A l \in Pakets : MergePaketOverruns(l) => Completed(Packet("merge", l)) /\ overrun'
<1>1. ASSUME NEW l \in Pakets, SortPaket(l), overrun \in BOOLEAN PROVE Completed(Packet("sort", l))
  BY <1>1 DEF SortPaket, Completed
<1>2. ASSUME NEW l \in 0 .. num_of_pakets - 2, SplitPaket(l), overrun \in BOOLEAN
      PROVE  Completed(Packet("split", l))
  BY <1>2 DEF SplitPaket, Completed
<1>3. ASSUME NEW l \in Pakets, MergePaket(l), overrun \in BOOLEAN
      PROVE  Completed(Packet("merge", l))
  BY <1>3 DEF MergePaket, Completed
<1>4. ASSUME NEW l \in Pakets, MergePaketOverruns(l)
      PROVE  Completed(Packet("merge", l)) /\ overrun'
  <2>1. JB!Complete(Queue, Packet("merge", l)) /\ overrun' = TRUE /\ UNCHANGED <<pc, i>>
    BY <1>4 DEF MergePaketOverruns
  <2> QED BY <2>1, Zenon DEF Completed
<1> QED BY <1>1, <1>2, <1>3, <1>4

\* Each phase ends by the return of blockuntildone.
LEMMA PhasesEnd ==
  /\ Sorted => NextPhase("split") /\ pc = "sort" /\ i' = 0
  /\ Split => NextPhase("merge") /\ pc = "split" /\ i' = 0
  /\ Merged => NextPhase("cleanup") /\ pc = "merge"
BY DEF Sorted, Split, Merged, NextPhase, Opened

\* Every step keeps what is known of the queue.
LEMMA QueueStep ==
  ASSUME QueueInv, [Next]_vars
  PROVE  QueueInv'
<1>0. ControlTypes
  BY DEF QueueInv
<1>1. CASE PushSort \/ PushSplit \/ PushMerge
  <2>1. PICK kind \in Phases : Push(kind, Count(kind))
    BY <1>1 DEF PushSort, PushSplit, PushMerge, Phases, Count
  <2> QED BY <2>1, PushKeepsQueue
<1>2. CASE BlockUntilDone
  <2>1. /\ pc \in Phases /\ Pushed /\ barrier' = [barrier EXCEPT ![Caller] = Queue]
        /\ UNCHANGED <<todo, doing, done, pc, i, overrun>>
    BY <1>2 DEF BlockUntilDone, JB!Wait, Phases
  <2>2. i = Count(pc)
    BY <2>1 DEF Pushed, Count
  <2>3. ControlTypes'
    BY <2>1, <1>0 DEF ControlTypes
  <2> QED BY <2>1, <2>2, <2>3 DEF QueueInv
<1>3. CASE Sorted \/ Split \/ Merged
  BY <1>3, PhasesEnd, NextPhaseKeepsQueue
<1>4. CASE Cleanup
  <2>1. pc = "cleanup" /\ pc' = "returned" /\ UNCHANGED <<todo, doing, done, barrier, i, overrun>>
    BY <1>4 DEF Cleanup, queueVars
  <2>2. pc \notin Phases /\ pc' \notin Phases
    BY <2>1 DEF Phases
  <2>3. ControlTypes'
    BY <2>1, <1>0 DEF ControlTypes
  <2>4. barrier'[Caller] # Queue
    BY <2>1, <2>2 DEF QueueInv
  <2>5. todo[Queue] \cup doing[Queue] = {}
    <3>1. \A packet \in todo[Queue] \cup doing[Queue] : packet \in Packets /\ packet.kind = pc
      BY <1>0 DEF QueueInv, ControlTypes
    <3> QED BY <3>1, <2>2, PacketTypes
  <2> QED BY <2>1, <2>2, <2>3, <2>4, <2>5 DEF QueueInv
<1>5. CASE \E packet \in todo[Queue] : Take(packet)
  BY <1>5, TakeKeepsQueue
<1>6. CASE \E l \in Pakets : SortPaket(l) \/ MergePaket(l) \/ MergePaketOverruns(l)
  BY <1>6, <1>0, PacketsComplete, CompletedKeepsQueue DEF ControlTypes
<1>7. CASE \E l \in 0 .. num_of_pakets - 2 : SplitPaket(l)
  BY <1>7, <1>0, PacketsComplete, CompletedKeepsQueue DEF ControlTypes
<1>8. CASE \E l \in 0 .. num_of_pakets - 2 : SplitPaketHangs(l)
  <2>1. UNCHANGED <<pc, i, overrun, todo, doing, done, barrier>>
    BY <1>8 DEF SplitPaketHangs, queueVars
  <2> QED BY <2>1 DEF QueueInv, ControlTypes
<1>9. CASE UNCHANGED vars
  BY <1>9 DEF vars, QueueInv, ControlTypes
<1> QED BY <1>1, <1>2, <1>3, <1>4, <1>5, <1>6, <1>7, <1>8, <1>9 DEF Next, CallerStep, PacketStep

-----------------------------------------------------------------------------
(* What has been computed, phase by phase. *)

DataTypes ==
  /\ Sequence
  /\ data \in [1 .. n -> Values]
  /\ buffers \in [Pakets -> Seq(Values) \cup {NULL}]
  /\ splitters \in [0 .. num_of_pakets -> Row \cup {NULL}]

SortPhase ==
  /\ data = input
  /\ \A l \in 0 .. num_of_pakets : splitters[l] = NULL
  /\ \A l \in Pakets : Packet("sort", l) \in done => buffers[l] = Run(l)

\* The runs are complete and the first and last row are set; the others may be.
RowsRight ==
  /\ Prepared
  /\ splitters[0] = FirstRow /\ splitters[num_of_pakets] = LastRow
  /\ \A l \in 1 .. num_of_pakets - 1 : splitters[l] = NULL \/ Splits(splitters[l], l)

SplitPhase ==
  /\ data = input
  /\ RowsRight
  /\ \A l \in 0 .. num_of_pakets - 2 : Packet("split", l) \in done => splitters[l + 1] # NULL

\* A merge that has been executed has not overrun, and its part is in place.
PartMerged(l) == ~Inverted(l) /\ \A x \in Segment(l) : data[x] = Merge(l)[x - Offset(l)]

MergePhase ==
  /\ AllSplit
  /\ ~overrun => \A l \in Pakets : Packet("merge", l) \in done => PartMerged(l)

DataInv ==
  /\ DataTypes
  /\ pc = "sort" => SortPhase
  /\ pc = "split" => SplitPhase
  /\ pc = "merge" => MergePhase
  /\ pc \in {"cleanup", "returned"} => data = Ordered

\* A SplitPaket that repeats itself is never completed, and what it reads stays.
LoopingInv ==
  \A l \in looping :
    /\ l \in 0 .. num_of_pakets - 2
    /\ Packet("split", l) \in doing[Queue]
    /\ Hangs(buffers, Offset(l + 1))

Inv == QueueInv /\ DataInv /\ LoopingInv

\* The invariant holds when sort is called.
LEMMA InitInv == Init => Inv
<1>1. SUFFICES ASSUME Init PROVE Inv
  OBVIOUS
<1>2. PICK size \in Sizes : input \in [1 .. size -> Values]
  BY <1>1 DEF Init
<1>3. size \in Nat
  BY MalleableSortAssumption
<1>4. input \in Seq(Values) /\ n = size
  BY <1>2, <1>3 DEF n
<1>5. /\ data = input /\ buffers = [l \in Pakets |-> NULL]
      /\ splitters = [l \in 0 .. num_of_pakets |-> NULL] /\ pc = "sort" /\ done = {}
      /\ looping = {}
  BY <1>1 DEF Init, JB!Init
<1>6. DataTypes
  BY <1>2, <1>4, <1>5 DEF DataTypes, Sequence
<1>7. SortPhase
  BY <1>5 DEF SortPhase
<1>8. LoopingInv
  BY <1>5 DEF LoopingInv
<1> QED BY <1>1, <1>5, <1>6, <1>7, <1>8, QueueInit DEF Inv, DataInv

\* What depends on the input alone.
LEMMA SameInput ==
  ASSUME input' = input
  PROVE  /\ n' = n /\ Sequence' = Sequence /\ Ordered' = Ordered
         /\ FirstRow' = FirstRow /\ LastRow' = LastRow
         /\ \A l : paket_size(l)' = paket_size(l)
         /\ \A l : Offset(l)' = Offset(l)
         /\ \A l : Segment(l)' = Segment(l)
         /\ \A l : Run(l)' = Run(l)
BY DEF n, Sequence, Ordered, FirstRow, LastRow, paket_size, Offset, Segment, Run, Piece

\* What is said of runs and rows stays while the input and the buffers do.
LEMMA SameRuns ==
  ASSUME input' = input, buffers' = buffers
  PROVE  /\ Prepared' = Prepared
         /\ \A row, l : Splits(row, l)' = Splits(row, l)
<1>1. Prepared' = Prepared
  BY SameInput DEF Prepared
<1>2. \A row, l : Splits(row, l)' = Splits(row, l)
  BY SameInput DEF Splits
<1> QED BY <1>1, <1>2

\* What is known of rows does not change while they do not.
LEMMA SameRows ==
  ASSUME input' = input, buffers' = buffers, splitters' = splitters
  PROVE  /\ AllSplit' = AllSplit /\ RowsRight' = RowsRight
         /\ \A l : Inverted(l)' = Inverted(l)
         /\ \A l : Merge(l)' = Merge(l)
         /\ \A l : Output(l)' = Output(l)
<1>1. AllSplit' = AllSplit /\ RowsRight' = RowsRight
  <2>1. \A l : Splits(splitters[l], l)' = Splits(splitters[l], l)
    BY SameInput DEF Splits
  <2> QED BY <2>1, SameInput, SameRuns DEF AllSplit, RowsRight
<1>2. \A l : Inverted(l)' = Inverted(l)
  BY DEF Inverted
<1>3. \A l : Merge(l)' = Merge(l)
  BY DEF Merge
<1>4. \A l : Output(l)' = Output(l)
  BY SameInput DEF Output, Place
<1> QED BY <1>1, <1>2, <1>3, <1>4

\* Nothing of it changes.
LEMMA DataStays ==
  ASSUME DataInv, UNCHANGED <<input, data, buffers, splitters, pc, done, overrun>>
  PROVE  DataInv'
<1>1. DataTypes'
  BY SameInput DEF DataInv, DataTypes
<1>2. pc' = "sort" => SortPhase'
  BY SameInput DEF DataInv, SortPhase
<1>3. pc' = "split" => SplitPhase'
  BY SameRows DEF DataInv, SplitPhase
<1>4. pc' = "merge" => MergePhase'
  <2>1. \A l : PartMerged(l)' = PartMerged(l)
    BY SameRows, SameInput DEF PartMerged
  <2> QED BY <2>1, SameRows DEF DataInv, MergePhase
<1>5. pc' \in {"cleanup", "returned"} => data' = Ordered'
  BY SameInput DEF DataInv
<1> QED BY <1>1, <1>2, <1>3, <1>4, <1>5 DEF DataInv

\* A SortPaket makes its run.
LEMMA SortPaketData ==
  ASSUME Inv, NEW l \in Pakets, SortPaket(l)
  PROVE  DataInv'
<1>1. /\ pc = "sort" /\ pc' = "sort" /\ done' = done \cup {Packet("sort", l)}
      /\ UNCHANGED <<input, data, splitters, overrun>>
      /\ buffers' = [buffers EXCEPT ![l] = Sort(SubSeq(data, Offset(l) + 1, Offset(l + 1)))]
  <2>1. Completed(Packet("sort", l))
    BY PacketsComplete DEF Inv, QueueInv, ControlTypes
  <2>2. Packet("sort", l).kind = "sort"
    BY PacketTypes
  <2> QED BY <2>1, <2>2, CompletedKeepsQueue DEF Inv, SortPaket
<1>2. DataTypes /\ SortPhase
  BY <1>1 DEF Inv, DataInv
<1>3. Sort(SubSeq(data, Offset(l) + 1, Offset(l + 1))) = Run(l) /\ Run(l) \in Seq(Values)
  BY <1>2, Runs DEF SortPhase, DataTypes, Run, Piece
<1>4. \A k \in Pakets : buffers'[k] = IF k = l THEN Run(l) ELSE buffers[k]
  BY <1>1, <1>2, <1>3 DEF DataTypes
<1>5. buffers' \in [Pakets -> Seq(Values) \cup {NULL}]
  BY <1>1, <1>2, <1>3 DEF DataTypes
<1>6. DataTypes'
  BY <1>1, <1>2, <1>5, SameInput DEF DataTypes
<1>7. SortPhase'
  <2>1. ASSUME NEW k \in Pakets, Packet("sort", k) \in done' PROVE buffers'[k] = Run(k)
    <3>1. CASE k = l
      BY <3>1, <1>4
    <3>2. CASE k # l
      <4>1. Packet("sort", k) # Packet("sort", l)
        BY <3>2, PacketTypes
      <4> QED BY <4>1, <3>2, <2>1, <1>1, <1>2, <1>4 DEF SortPhase
    <3> QED BY <3>1, <3>2
  <2> QED BY <2>1, <1>1, <1>2, SameInput DEF SortPhase
<1> QED BY <1>1, <1>6, <1>7 DEF DataInv

\* A SplitPaket makes its row, by ReduceSplitCorrect.
LEMMA SplitPaketData ==
  ASSUME Inv, NEW l \in 0 .. num_of_pakets - 2, SplitPaket(l)
  PROVE  DataInv'
<1>1. /\ pc = "split" /\ pc' = "split" /\ done' = done \cup {Packet("split", l)}
      /\ UNCHANGED <<input, data, buffers, overrun>>
  <2>1. Completed(Packet("split", l))
    BY PacketsComplete DEF Inv, QueueInv, ControlTypes
  <2>2. Packet("split", l).kind = "split"
    BY PacketTypes
  <2> QED BY <2>1, <2>2, CompletedKeepsQueue DEF Inv, SplitPaket
<1>2. DataTypes /\ SplitPhase
  BY <1>1 DEF Inv, DataInv
<1>3. PICK row \in reduce_split(buffers, Offset(l + 1)) :
        splitters' = [splitters EXCEPT ![l + 1] = row]
  BY DEF SplitPaket
<1>4. /\ l \in Pakets /\ l + 1 \in 0 .. num_of_pakets /\ l + 1 \in 1 .. num_of_pakets - 1
      /\ num_of_pakets \in 0 .. num_of_pakets
  BY PaketsType
<1>5. Splits(row, l + 1) /\ row \in Row
  <2>1. Prepared
    BY <1>2 DEF SplitPhase, RowsRight
  <2>2. SortedRuns(buffers) /\ Total(RunLengths(buffers)) = n /\ Sequence
    BY <2>1, PreparedRuns
  <2>3. Offset(l + 1) \in 0 .. Total(RunLengths(buffers))
    BY <1>4, <2>2, Offsets, OffsetEnd
  <2>4. Within(buffers, row) /\ Total(row) = Offset(l + 1) /\ Cut(buffers, row)
    BY <2>2, <2>3, ReduceSplitCorrect
  <2> QED BY <2>4 DEF Splits, Within
<1>6. row # NULL
  BY <1>5, MalleableSortAssumption
<1>7. \A k \in 0 .. num_of_pakets : splitters'[k] = IF k = l + 1 THEN row ELSE splitters[k]
  BY <1>2, <1>3, <1>4 DEF DataTypes
<1>8. DataTypes'
  <2>1. splitters' \in [0 .. num_of_pakets -> Row \cup {NULL}]
    BY <1>2, <1>3, <1>4, <1>5 DEF DataTypes
  <2> QED BY <2>1, <1>1, <1>2, SameInput DEF DataTypes
<1>9. RowsRight'
  <2>1. Prepared' /\ FirstRow' = FirstRow /\ LastRow' = LastRow
    BY <1>1, <1>2, SameInput, SameRuns DEF SplitPhase, RowsRight
  <2>2. splitters'[0] = FirstRow /\ splitters'[num_of_pakets] = LastRow
    <3>1. 0 # l + 1 /\ num_of_pakets # l + 1 /\ 0 \in 0 .. num_of_pakets
      BY <1>4, PaketsType
    <3> QED BY <3>1, <1>2, <1>4, <1>7 DEF SplitPhase, RowsRight
  <2>3. ASSUME NEW k \in 1 .. num_of_pakets - 1
        PROVE  splitters'[k] = NULL \/ Splits(splitters[k], k)'
    <3>1. k \in 0 .. num_of_pakets
      BY PaketsType
    <3>2. splitters'[k] = NULL \/ Splits(splitters'[k], k)
      BY <3>1, <1>2, <1>5, <1>7 DEF SplitPhase, RowsRight
    <3> QED BY <3>2, <1>1, SameInput DEF Splits
  <2> QED BY <2>1, <2>2, <2>3 DEF RowsRight
<1>10. SplitPhase'
  <2>1. ASSUME NEW k \in 0 .. num_of_pakets - 2, Packet("split", k) \in done'
        PROVE  splitters'[k + 1] # NULL
    <3>1. k + 1 \in 0 .. num_of_pakets
      BY PaketsType
    <3>2. CASE k = l
      BY <3>1, <3>2, <1>6, <1>7
    <3>3. CASE k # l
      <4>1. Packet("split", k) # Packet("split", l) /\ k + 1 # l + 1
        BY <3>3, PacketTypes
      <4> QED BY <4>1, <3>1, <2>1, <1>1, <1>2, <1>7 DEF SplitPhase
    <3> QED BY <3>2, <3>3
  <2> QED BY <2>1, <1>1, <1>2, <1>9 DEF SplitPhase
<1> QED BY <1>1, <1>8, <1>10 DEF DataInv

\* Between two right rows lie as many elements as the segment has.
LEMMA OutputIsSegment ==
  ASSUME AllSplit, NEW l \in Pakets
  PROVE  Output(l) = Segment(l)
<1>1. l \in 0 .. num_of_pakets /\ l + 1 \in 0 .. num_of_pakets
  BY PaketsType
<1>2. Total(splitters[l]) = Offset(l) /\ Total(splitters[l + 1]) = Offset(l + 1)
  BY <1>1, RowBounds
<1>3. Offset(l) \in Nat /\ Offset(l + 1) \in Nat
  BY <1>1, Offsets DEF AllSplit, Prepared
<1>4. Offset(l) + Offset(l + 1) - Offset(l) = Offset(l + 1)
  BY <1>3
<1> QED BY <1>2, <1>4 DEF Output, Segment, Place

\* A MergePaket fills its segment and no other's.
LEMMA MergePaketData ==
  ASSUME Inv, ~overrun, NEW l \in Pakets, MergePaket(l)
  PROVE  DataInv'
<1>1. /\ pc = "merge" /\ pc' = "merge" /\ done' = done \cup {Packet("merge", l)}
      /\ UNCHANGED <<input, buffers, splitters, overrun>> /\ ~Inverted(l)
      /\ data' = [x \in DOMAIN data |->
                    IF x \in Output(l) THEN Merge(l)[x - Place(l)] ELSE data[x]]
  <2>1. Completed(Packet("merge", l))
    BY PacketsComplete DEF Inv, QueueInv, ControlTypes
  <2>2. Packet("merge", l).kind = "merge"
    BY PacketTypes
  <2>3. /\ UNCHANGED <<input, buffers, splitters, overrun>> /\ ~Inverted(l)
        /\ data' = [x \in DOMAIN data |->
                      IF x \in Output(l) THEN Merge(l)[x - Place(l)] ELSE data[x]]
    BY DEF MergePaket, Merge
  <2> QED BY <2>1, <2>2, <2>3, CompletedKeepsQueue DEF Inv
<1>2. DataTypes /\ MergePhase /\ AllSplit /\ Sequence
  BY <1>1 DEF Inv, DataInv, MergePhase, DataTypes
<1>3. /\ Output(l) = Segment(l) /\ Merge(l) \in Seq(Values) /\ Len(Merge(l)) = paket_size(l)
      /\ Place(l) = Offset(l)
  BY <1>1, <1>2, Merges DEF Place
<1>4. \A x \in 1 .. n : data'[x] = IF x \in Segment(l) THEN Merge(l)[x - Offset(l)] ELSE data[x]
  BY <1>1, <1>2, <1>3 DEF DataTypes
<1>5. data' \in [1 .. n -> Values]
  <2>1. ASSUME NEW x \in Segment(l) PROVE Merge(l)[x - Offset(l)] \in Values
    <3>1. /\ Offset(l) \in Nat /\ Offset(l + 1) = Offset(l) + paket_size(l) /\ paket_size(l) \in Nat
      BY <1>2, Offsets, SizeType, PaketsType
    <3>2. x - Offset(l) \in 1 .. Len(Merge(l))
      BY <3>1, <1>3 DEF Segment
    <3> QED BY <3>2, <1>3
  <2>2. \A x \in 1 .. n : data'[x] \in Values
    BY <2>1, <1>2, <1>4 DEF DataTypes
  <2>3. DOMAIN data = 1 .. n
    BY <1>2 DEF DataTypes
  <2>4. data' = [x \in 1 .. n |-> data'[x]]
    BY <2>3, <1>1
  <2> QED BY <2>2, <2>4
<1>6. DataTypes'
  BY <1>1, <1>2, <1>5, SameInput DEF DataTypes
<1>7. MergePhase'
  <2>1. AllSplit'
    BY <1>1, <1>2, SameRows
  <2>2. ASSUME NEW k \in Pakets, Packet("merge", k) \in done'
        PROVE  ~Inverted(k) /\ \A x \in Segment(k) : data'[x] = Merge(k)[x - Offset(k)]
    <3>0. \A x \in Segment(k) : x \in 1 .. n
      BY <1>2, Segments
    <3>1. CASE k = l
      BY <3>0, <3>1, <1>1, <1>4
    <3>2. CASE k # l
      <4>1. Packet("merge", k) # Packet("merge", l)
        BY <3>2, PacketTypes
      <4>2. PartMerged(k)
        BY <4>1, <2>2, <1>1, <1>2 DEF MergePhase
      <4>3. \A x \in Segment(k) : x \notin Segment(l)
        BY <3>2, <1>2, Segments
      <4>4. \A x \in Segment(k) : data'[x] = data[x]
        BY <3>0, <4>3, <1>4
      <4> QED BY <4>2, <4>4 DEF PartMerged
    <3> QED BY <3>1, <3>2
  <2>3. ASSUME NEW k \in Pakets, Packet("merge", k) \in done' PROVE PartMerged(k)'
    <3>1. Inverted(k)' = Inverted(k) /\ Merge(k)' = Merge(k) /\ Segment(k)' = Segment(k)
          /\ Offset(k)' = Offset(k)
      BY <1>1, SameRows, SameInput
    <3> QED BY <2>2, <2>3, <3>1 DEF PartMerged
  <2> QED BY <2>1, <2>3 DEF MergePhase
<1> QED BY <1>1, <1>6, <1>7 DEF DataInv

\* An overrun ends the model.
LEMMA OverrunData ==
  ASSUME Inv, NEW l \in Pakets, MergePaketOverruns(l)
  PROVE  DataInv'
<1>1. /\ pc = "merge" /\ pc' = "merge" /\ overrun'
      /\ UNCHANGED <<input, data, buffers, splitters>>
  <2>1. Completed(Packet("merge", l)) /\ overrun'
    BY PacketsComplete
  <2>2. Packet("merge", l).kind = "merge"
    BY PacketTypes
  <2>3. UNCHANGED <<input, data, buffers, splitters>>
    BY DEF MergePaketOverruns
  <2> QED BY <2>1, <2>2, <2>3, CompletedKeepsQueue DEF Inv
<1>2. DataTypes /\ AllSplit
  BY <1>1 DEF Inv, DataInv, MergePhase
<1>3. DataTypes' /\ AllSplit'
  BY <1>1, <1>2, SameInput, SameRows DEF DataTypes
<1> QED BY <1>1, <1>3 DEF DataInv, MergePhase

\* After the first phase all runs are there.
LEMMA SortedData ==
  ASSUME Inv, Sorted
  PROVE  DataInv'
<1>1. /\ pc = "sort" /\ pc' = "split" /\ UNCHANGED <<input, data, buffers, overrun, done>>
      /\ splitters' = [splitters EXCEPT ![0] = FirstRow, ![num_of_pakets] = LastRow]
  BY DEF Sorted, FirstRow, LastRow, JB!Return
<1>2. DataTypes /\ SortPhase /\ Sequence
  BY <1>1 DEF Inv, DataInv, DataTypes
<1>3. \A l \in Pakets : Packet("sort", l) \in done
  BY <1>1, PhasesEnd, OpenedPhase DEF Inv, NextPhase, Count, Pakets
<1>4. Prepared
  <2>1. \A l \in Pakets : buffers[l] = Run(l)
    BY <1>2, <1>3 DEF SortPhase
  <2> QED BY <2>1, <1>2 DEF Prepared, DataTypes
<1>5. /\ FirstRow \in Row /\ LastRow \in Row
      /\ Splits(FirstRow, 0) /\ Splits(LastRow, num_of_pakets)
  BY <1>4, EndRows
<1>6. 0 \in 0 .. num_of_pakets /\ num_of_pakets \in 0 .. num_of_pakets /\ 0 # num_of_pakets
  BY PaketsType
<1>7. /\ splitters' \in [0 .. num_of_pakets -> Row \cup {NULL}]
      /\ splitters'[0] = FirstRow /\ splitters'[num_of_pakets] = LastRow
      /\ \A l \in 0 .. num_of_pakets : l # 0 /\ l # num_of_pakets => splitters'[l] = NULL
  <2> HIDE DEF FirstRow, LastRow
  <2> QED BY <1>1, <1>2, <1>5, <1>6 DEF DataTypes, SortPhase
<1>8. DataTypes'
  BY <1>1, <1>2, <1>7, SameInput DEF DataTypes
<1>9. RowsRight'
  <2>1. Prepared' /\ FirstRow' = FirstRow /\ LastRow' = LastRow
    BY <1>1, <1>4, SameInput, SameRuns
  <2>2. \A l \in 1 .. num_of_pakets - 1 : splitters'[l] = NULL
    BY <1>7, PaketsType
  <2> QED BY <2>1, <2>2, <1>7 DEF RowsRight
<1>10. SplitPhase'
  <2>1. \A l \in 0 .. num_of_pakets - 2 : Packet("split", l) \notin done'
    <3>1. \A packet \in done : packet.kind = "sort"
      BY <1>1 DEF Inv, QueueInv
    <3>2. done' = done
      BY <1>1
    <3> QED BY <3>1, <3>2, PacketTypes
  <2>2. data' = input'
    BY <1>1, <1>2 DEF SortPhase
  <2> QED BY <2>1, <2>2, <1>9 DEF SplitPhase
<1> QED BY <1>1, <1>8, <1>10 DEF DataInv

\* After the second phase all rows are there.
LEMMA SplitData ==
  ASSUME Inv, Split
  PROVE  DataInv'
<1>1. /\ pc = "split" /\ pc' = "merge"
      /\ UNCHANGED <<input, data, buffers, splitters, overrun, done>>
  BY DEF Split, JB!Return
<1>2. DataTypes /\ SplitPhase /\ RowsRight /\ Prepared
  BY <1>1 DEF Inv, DataInv, SplitPhase, RowsRight
<1>3. \A l \in 0 .. num_of_pakets - 2 : Packet("split", l) \in done
  <2>1. Count(pc) - 1 = num_of_pakets - 2
    BY <1>1, PaketsType DEF Count
  <2> QED BY <2>1, <1>1, PhasesEnd, OpenedPhase DEF Inv, NextPhase
<1>4. ASSUME NEW l \in 0 .. num_of_pakets PROVE Splits(splitters[l], l)
  <2>1. CASE l = 0
    BY <2>1, <1>2, EndRows DEF RowsRight
  <2>2. CASE l = num_of_pakets
    BY <2>2, <1>2, EndRows DEF RowsRight
  <2>3. CASE l # 0 /\ l # num_of_pakets
    <3>1. /\ l \in 1 .. num_of_pakets - 1 /\ l - 1 \in 0 .. num_of_pakets - 2 /\ (l - 1) + 1 = l
      BY <2>3, PaketsType
    <3>2. splitters[(l - 1) + 1] # NULL
      BY <3>1, <1>2, <1>3 DEF SplitPhase
    <3> QED BY <3>1, <3>2, <1>2 DEF RowsRight
  <2> QED BY <2>1, <2>2, <2>3
<1>5. AllSplit
  BY <1>2, <1>4 DEF AllSplit, RowsRight
<1>6. AllSplit'
  BY <1>1, <1>5, SameRows
<1>7. DataTypes'
  BY <1>1, <1>2, SameInput DEF DataTypes
<1>8. \A l \in Pakets : Packet("merge", l) \notin done'
  <2>1. \A packet \in done : packet.kind \in {"sort", "split"}
    BY <1>1 DEF Inv, QueueInv
  <2>2. done' = done
    BY <1>1
  <2> QED BY <2>1, <2>2, PacketTypes
<1> QED BY <1>1, <1>6, <1>7, <1>8 DEF DataInv, MergePhase

\* After the third phase all segments are merged, hence sorted.
LEMMA MergedData ==
  ASSUME Inv, ~overrun, Merged
  PROVE  DataInv'
<1>1. /\ pc = "merge" /\ pc' = "cleanup"
      /\ UNCHANGED <<input, data, buffers, splitters, overrun, done>>
  BY DEF Merged, JB!Return
<1>2. DataTypes /\ MergePhase /\ AllSplit
  BY <1>1 DEF Inv, DataInv, MergePhase
<1>3. \A l \in Pakets : Packet("merge", l) \in done
  BY <1>1, PhasesEnd, OpenedPhase DEF Inv, NextPhase, Count, Pakets
<1>4. \A l \in Pakets : PartMerged(l)
  BY <1>2, <1>3 DEF MergePhase
<1>5. AllMerged
  <2>1. Concatenates(data, [l \in Pakets |-> Merge(l)])
    BY <1>4 DEF Concatenates, PartMerged
  <2> QED BY <2>1, <1>2, <1>4 DEF AllMerged, NoneInverted, PartMerged, DataTypes
<1>6. data = Ordered
  BY <1>5, MergedIsSorted
<1>7. data' = Ordered' /\ DataTypes'
  BY <1>1, <1>2, <1>6, SameInput DEF DataTypes
<1> QED BY <1>1, <1>7 DEF DataInv

\* The result stays when buffers and splitters are deleted.
LEMMA CleanupData ==
  ASSUME Inv, Cleanup
  PROVE  DataInv'
<1>1. /\ pc = "cleanup" /\ pc' = "returned" /\ UNCHANGED <<input, data, overrun>>
      /\ buffers' = [l \in Pakets |-> NULL]
      /\ splitters' = [l \in 0 .. num_of_pakets |-> NULL]
  BY DEF Cleanup
<1>2. DataTypes /\ data = Ordered
  BY <1>1 DEF Inv, DataInv
<1>3. DataTypes'
  BY <1>1, <1>2, SameInput DEF DataTypes
<1>4. data' = Ordered'
  BY <1>1, <1>2, SameInput
<1> QED BY <1>1, <1>3, <1>4 DEF DataInv

\* What loops goes on looping, as long as it stays with its worker.
LEMMA LoopingStays ==
  ASSUME LoopingInv, looping' = looping, input' = input,
         looping = {} \/ buffers' = buffers,
         \A l \in looping : Packet("split", l) \in doing'[Queue]
  PROVE  LoopingInv'
<1>1. SUFFICES ASSUME NEW l \in looping
               PROVE  /\ l \in 0 .. num_of_pakets - 2
                      /\ Packet("split", l) \in doing'[Queue]
                      /\ Hangs(buffers, Offset(l + 1))'
  BY DEF LoopingInv, Packet
<1>2. Offset(l + 1)' = Offset(l + 1)
  BY SameInput
<1>3. buffers' = buffers
  OBVIOUS
<1>4. Hangs(buffers, Offset(l + 1)) /\ l \in 0 .. num_of_pakets - 2
  BY DEF LoopingInv
<1> QED BY <1>2, <1>3, <1>4

\* A packet that ends is not one of those that loop.
LEMMA CompletedIsNotLooping ==
  ASSUME QueueInv, LoopingInv, looping' = looping, input' = input,
         NEW kind \in Phases, NEW m, Completed(Packet(kind, m)),
         kind = "sort" \/ buffers' = buffers, kind = "split" => m \notin looping
  PROVE  LoopingInv'
<1>1. /\ Packet(kind, m) \in doing[Queue] /\ doing' = [doing EXCEPT ![Queue] = @ \ {Packet(kind, m)}]
  BY DEF Completed, JB!Complete
<1>2. doing'[Queue] = doing[Queue] \ {Packet(kind, m)}
  BY <1>1 DEF QueueInv, ControlTypes
<1>3. pc = kind
  BY <1>1, PacketTypes DEF QueueInv
<1>4. ASSUME NEW l \in looping PROVE Packet("split", l) \in doing'[Queue] /\ kind = "split"
  <2>1. Packet("split", l) \in doing[Queue]
    BY DEF LoopingInv
  <2>2. pc = "split"
    BY <2>1, PacketTypes DEF QueueInv
  <2>3. Packet("split", l) # Packet(kind, m)
    BY <2>2, <1>3, PacketTypes
  <2> QED BY <2>1, <2>2, <2>3, <1>2, <1>3
<1>5. looping = {} \/ buffers' = buffers
  BY <1>4
<1> QED BY <1>4, <1>5, LoopingStays

\* Every step keeps what is known of the SplitPakets that loop.
LEMMA LoopingStep ==
  ASSUME QueueInv, LoopingInv, [Next]_vars
  PROVE  LoopingInv'
<1>0. ControlTypes
  BY DEF QueueInv
<1>1. ASSUME pc # "split" \/ doing[Queue] = {} PROVE looping = {}
  <2>1. SUFFICES ASSUME NEW l \in looping PROVE FALSE
    OBVIOUS
  <2>2. Packet("split", l) \in doing[Queue]
    BY DEF LoopingInv
  <2>3. pc = "split"
    BY <2>2, PacketTypes DEF QueueInv
  <2> QED BY <2>2, <2>3, <1>1
<1>2. CASE UNCHANGED <<input, buffers, looping>> /\ doing[Queue] \subseteq doing'[Queue]
  <2>1. \A l \in looping : Packet("split", l) \in doing'[Queue]
    BY <1>2 DEF LoopingInv
  <2> QED BY <2>1, <1>2, LoopingStays
<1>3. CASE looping = {} /\ UNCHANGED <<input, looping>>
  BY <1>3, LoopingStays
<1>4. CASE PushSort \/ PushSplit \/ PushMerge
  <2>1. UNCHANGED <<input, buffers, looping, doing>>
    BY <1>4 DEF PushSort, PushSplit, PushMerge, Push, JB!Submit
  <2> QED BY <2>1, <1>2
<1>5. CASE BlockUntilDone
  <2>1. UNCHANGED <<input, buffers, looping, doing>>
    BY <1>5 DEF BlockUntilDone, JB!Wait
  <2> QED BY <2>1, <1>2
<1>6. CASE Sorted \/ Split \/ Merged
  <2>1. UNCHANGED <<input, looping>>
    BY <1>6 DEF Sorted, Split, Merged
  <2>2. doing[Queue] = {}
    BY <1>6 DEF Sorted, Split, Merged, JB!Return
  <2> QED BY <2>1, <2>2, <1>1, <1>3
<1>7. CASE Cleanup
  <2>1. pc # "split" /\ UNCHANGED <<input, looping>>
    BY <1>7 DEF Cleanup
  <2> QED BY <2>1, <1>1, <1>3
<1>8. CASE \E packet \in todo[Queue] : Take(packet)
  <2>1. PICK packet \in todo[Queue] : Take(packet)
    BY <1>8
  <2>2. /\ UNCHANGED <<input, buffers, looping>>
        /\ doing' = [doing EXCEPT ![Queue] = @ \cup {packet}]
    BY <2>1 DEF Take, JB!Start
  <2>3. doing[Queue] \subseteq doing'[Queue]
    BY <2>2, <1>0 DEF ControlTypes
  <2> QED BY <2>2, <2>3, <1>2
<1>9. CASE \E l \in Pakets : SortPaket(l)
  <2>1. PICK l \in Pakets : SortPaket(l)
    BY <1>9
  <2>2. Completed(Packet("sort", l))
    BY <2>1, <1>0, PacketsComplete DEF ControlTypes
  <2>3. UNCHANGED <<input, looping>>
    BY <2>1 DEF SortPaket
  <2> QED BY <2>2, <2>3, CompletedIsNotLooping DEF Phases
<1>10. CASE \E l \in Pakets : MergePaket(l) \/ MergePaketOverruns(l)
  <2>1. PICK l \in Pakets : MergePaket(l) \/ MergePaketOverruns(l)
    BY <1>10
  <2>2. Completed(Packet("merge", l))
    BY <2>1, <1>0, PacketsComplete DEF ControlTypes
  <2>3. UNCHANGED <<input, buffers, looping>>
    BY <2>1 DEF MergePaket, MergePaketOverruns
  <2> QED BY <2>2, <2>3, CompletedIsNotLooping DEF Phases
<1>11. CASE \E l \in 0 .. num_of_pakets - 2 : SplitPaket(l)
  <2>1. PICK l \in 0 .. num_of_pakets - 2 : SplitPaket(l)
    BY <1>11
  <2>2. Completed(Packet("split", l))
    BY <2>1, <1>0, PacketsComplete DEF ControlTypes
  <2>3. UNCHANGED <<input, buffers, looping>> /\ l \notin looping
    BY <2>1 DEF SplitPaket
  <2> QED BY <2>2, <2>3, CompletedIsNotLooping DEF Phases
<1>12. CASE \E l \in 0 .. num_of_pakets - 2 : SplitPaketHangs(l)
  <2>1. PICK l \in 0 .. num_of_pakets - 2 : SplitPaketHangs(l)
    BY <1>12
  <2>2. /\ looping' = looping \cup {l} /\ UNCHANGED <<input, buffers, doing>>
        /\ Packet("split", l) \in doing[Queue] /\ Hangs(buffers, Offset(l + 1))
    BY <2>1 DEF SplitPaketHangs, queueVars
  <2>3. SUFFICES ASSUME NEW k \in looping'
                 PROVE  /\ k \in 0 .. num_of_pakets - 2
                        /\ Packet("split", k) \in doing'[Queue]
                        /\ Hangs(buffers, Offset(k + 1))'
    BY DEF LoopingInv, Packet
  <2>4. /\ k \in 0 .. num_of_pakets - 2 /\ Packet("split", k) \in doing[Queue]
        /\ Hangs(buffers, Offset(k + 1))
    BY <2>2 DEF LoopingInv
  <2>5. Offset(k + 1)' = Offset(k + 1)
    BY <2>2, SameInput
  <2> QED BY <2>2, <2>4, <2>5
<1>13. CASE UNCHANGED vars
  BY <1>13, <1>2 DEF vars
<1> QED BY <1>4, <1>5, <1>6, <1>7, <1>8, <1>9, <1>10, <1>11, <1>12, <1>13
     DEF Next, CallerStep, PacketStep

\* The invariant is kept by every step.
LEMMA InvStep ==
  ASSUME Inv, [Next]_vars
  PROVE  Inv'
<1>0. QueueInv' /\ LoopingInv'
  BY QueueStep, LoopingStep DEF Inv
<1>1. CASE PushSort \/ PushSplit \/ PushMerge
  <2>1. UNCHANGED <<input, data, buffers, splitters, pc, done, overrun>>
    BY <1>1 DEF PushSort, PushSplit, PushMerge, Push, JB!Submit
  <2> QED BY <2>1, <1>0, DataStays DEF Inv
<1>2. CASE BlockUntilDone
  <2>1. UNCHANGED <<input, data, buffers, splitters, pc, done, overrun>>
    BY <1>2 DEF BlockUntilDone, JB!Wait
  <2> QED BY <2>1, <1>0, DataStays DEF Inv
<1>3. CASE \E packet \in todo[Queue] : Take(packet)
  <2>1. UNCHANGED <<input, data, buffers, splitters, pc, done, overrun>>
    BY <1>3 DEF Take, JB!Start
  <2> QED BY <2>1, <1>0, DataStays DEF Inv
<1>4. CASE UNCHANGED vars
  <2>1. UNCHANGED <<input, data, buffers, splitters, pc, done, overrun>>
    BY <1>4 DEF vars
  <2> QED BY <2>1, <1>0, DataStays DEF Inv
<1>5. CASE Sorted
  BY <1>5, <1>0, SortedData DEF Inv
<1>6. CASE Split
  BY <1>6, <1>0, SplitData DEF Inv
<1>7. CASE ~overrun /\ Merged
  BY <1>7, <1>0, MergedData DEF Inv
<1>8. CASE Cleanup
  BY <1>8, <1>0, CleanupData DEF Inv
<1>9. CASE ~overrun /\ \E l \in Pakets : SortPaket(l) \/ MergePaket(l) \/ MergePaketOverruns(l)
  BY <1>9, <1>0, SortPaketData, MergePaketData, OverrunData DEF Inv
<1>10. CASE \E l \in 0 .. num_of_pakets - 2 : SplitPaket(l)
  BY <1>10, <1>0, SplitPaketData DEF Inv
<1>11. CASE \E l \in 0 .. num_of_pakets - 2 : SplitPaketHangs(l)
  <2>1. UNCHANGED <<input, data, buffers, splitters, pc, done, overrun>>
    BY <1>11 DEF SplitPaketHangs, queueVars
  <2> QED BY <2>1, <1>0, DataStays DEF Inv
<1> QED BY <1>1, <1>2, <1>3, <1>4, <1>5, <1>6, <1>7, <1>8, <1>9, <1>10, <1>11
     DEF Next, CallerStep, PacketStep

\* The inductive invariant: what the queue holds, and what has been computed.
THEOREM Invariance == Spec => []Inv
<1>1. Inv /\ [Next]_vars => Inv'
  BY InvStep
<1> QED BY <1>1, InitInv, PTL DEF Spec

-----------------------------------------------------------------------------
(* The properties. *)

\* Every array keeps its shape and every element its type, and sort pushes
\* packets there are.
THEOREM TypeCorrect == Spec => []TypeOK
<1>1. ASSUME Inv PROVE TypeOK
  <2>1. looping \subseteq 0 .. num_of_pakets - 2
    BY <1>1 DEF Inv, LoopingInv
  <2> QED BY <2>1, <1>1 DEF Inv, QueueInv, ControlTypes, DataInv, DataTypes, TypeOK
<1> QED BY <1>1, Invariance, PTL

\* A packet that runs is of the phase sort is in.
LEMMA Running ==
  ASSUME Inv, NEW packet \in doing[Queue]
  PROVE  /\ packet \in Packets /\ packet.kind = pc /\ packet.paket \in Pakets
         /\ packet = Packet(pc, packet.paket) /\ pc \in Phases
         /\ pc = "split" => packet.paket \in 0 .. num_of_pakets - 2
<1>1. packet \in Packets /\ packet.kind = pc
  BY DEF Inv, QueueInv, ControlTypes
<1> QED BY <1>1, PacketTypes

\* Exists, kind by kind.
LEMMA Existing ==
  /\ \A x : Exists(<<"data", x>>)
  /\ \A j : buffers[j] # NULL => Exists(<<"buffer", j>>)
  /\ \A l : splitters[l] # NULL => Exists(<<"row", l>>)
BY DEF Exists

\* While SplitPakets and MergePakets run, every run they read is complete, and so
\* are the rows: the two blockuntildone order the phases, and sort deletes
\* nothing before the third.
THEOREM ReadsThere == Spec => []ReadsAreReady
<1>1. ASSUME Inv, NEW packet \in doing[Queue], NEW location \in Reads(packet) PROVE Exists(location)
  <2> DEFINE l == packet.paket
  <2>1. packet.kind = pc /\ l \in Pakets /\ pc \in Phases
    BY <1>1, Running
  <2>2. DataInv
    BY <1>1 DEF Inv
  <2>3. ASSUME pc \in {"split", "merge"}
        PROVE  /\ \A j \in Pakets : buffers[j] # NULL
               /\ splitters[0] # NULL /\ splitters[num_of_pakets] # NULL
    <3>1. Prepared /\ splitters[0] = FirstRow /\ splitters[num_of_pakets] = LastRow
      BY <2>2, <2>3 DEF DataInv, SplitPhase, MergePhase, RowsRight, AllSplit
    <3>2. FirstRow \in Row /\ LastRow \in Row
      BY <3>1, EndRows
    <3>3. \A j \in Pakets : buffers[j] \in Seq(Values)
      BY <3>1, PreparedRuns, RunsType DEF SortedRuns
    <3> QED BY <3>1, <3>2, <3>3, MalleableSortAssumption
  <2>4. ASSUME pc = "merge" PROVE splitters[l] # NULL /\ splitters[l + 1] # NULL
    <3>1. l \in 0 .. num_of_pakets /\ l + 1 \in 0 .. num_of_pakets
      BY <2>1, PaketsType
    <3>2. splitters[l] \in Row /\ splitters[l + 1] \in Row
      BY <3>1, <2>2, <2>4, RowBounds DEF DataInv, MergePhase
    <3> QED BY <3>2, MalleableSortAssumption
  <2> HIDE DEF l
  <2>5. CASE pc = "sort"
    <3>1. Reads(packet) = {<<"data", x>> : x \in Segment(l)}
      BY <2>1, <2>5 DEF Reads, l
    <3>2. PICK x \in Segment(l) : location = <<"data", x>>
      BY <3>1, <1>1
    <3> QED BY <3>2, Existing
  <2>6. CASE pc = "split"
    <3>1. Reads(packet) = {<<"buffer", j>> : j \in Pakets}
                            \cup {<<"row", 0>>, <<"row", num_of_pakets>>}
      BY <2>1, <2>6 DEF Reads
    <3>2. \/ \E j \in Pakets : location = <<"buffer", j>>
          \/ location = <<"row", 0>> \/ location = <<"row", num_of_pakets>>
      BY <3>1, <1>1
    <3> QED BY <3>2, <2>3, <2>6, Existing
  <2>7. CASE pc = "merge"
    <3>1. Reads(packet) = {<<"buffer", j>> : j \in Pakets} \cup {<<"row", l>>, <<"row", l + 1>>}
      BY <2>1, <2>7 DEF Reads, l
    <3>2. \/ \E j \in Pakets : location = <<"buffer", j>>
          \/ location = <<"row", l>> \/ location = <<"row", l + 1>>
      BY <3>1, <1>1
    <3> QED BY <3>2, <2>3, <2>4, <2>7, Existing
  <2> QED BY <2>1, <2>5, <2>6, <2>7 DEF Phases
<1>2. Inv => ReadsAreReady
  BY <1>1 DEF ReadsAreReady
<1> QED BY <1>2, Invariance, PTL

\* Packets that run at the same time do not disturb each other: the parts of the
\* merges that write into [begin, end) do not overlap even where a row lies above
\* the next one, because each starts where the one before it ends.
THEOREM Independent == Spec => []NoConflict
<1>1. ASSUME Inv, NEW a \in doing[Queue], NEW b \in doing[Queue], a # b
      PROVE  Writes(a) \cap (Reads(b) \cup Writes(b)) = {}
  <2> DEFINE k == a.paket
             l == b.paket
  <2>1. /\ a.kind = pc /\ b.kind = pc /\ k \in Pakets /\ l \in Pakets /\ k # l /\ pc \in Phases
        /\ pc = "split" => k \in 0 .. num_of_pakets - 2
    BY <1>1, Running
  <2>2. CASE pc = "sort"
    <3>1. Writes(a) = {<<"buffer", k>>} /\ Writes(b) = {<<"buffer", l>>}
      BY <2>1, <2>2 DEF Writes
    <3>2. Reads(b) = {<<"data", x>> : x \in Segment(l)}
      BY <2>1, <2>2 DEF Reads
    <3>3. \A x : <<"buffer", k>> # <<"data", x>>
      OBVIOUS
    <3>4. <<"buffer", k>> # <<"buffer", l>>
      BY <2>1
    <3> QED BY <3>1, <3>2, <3>3, <3>4
  <2>3. CASE pc = "split"
    <3>1. Writes(a) = {<<"row", k + 1>>} /\ Writes(b) = {<<"row", l + 1>>}
      BY <2>1, <2>3 DEF Writes
    <3>2. Reads(b) = {<<"buffer", j>> : j \in Pakets}
                       \cup {<<"row", 0>>, <<"row", num_of_pakets>>}
      BY <2>1, <2>3 DEF Reads
    <3>3. \A x : <<"row", k + 1>> # <<"buffer", x>>
      OBVIOUS
    <3>4. k + 1 # l + 1 /\ k + 1 # 0 /\ k + 1 # num_of_pakets
      BY <2>1, <2>3, PaketsType
    <3>5. /\ <<"row", k + 1>> # <<"row", l + 1>> /\ <<"row", k + 1>> # <<"row", 0>>
          /\ <<"row", k + 1>> # <<"row", num_of_pakets>>
      BY <3>4
    <3> QED BY <3>1, <3>2, <3>3, <3>5
  <2>4. CASE pc = "merge"
    <3>1. AllSplit /\ Sequence
      BY <1>1, <2>4 DEF Inv, DataInv, MergePhase, DataTypes
    <3>2. Output(k) = Segment(k) /\ Output(l) = Segment(l)
      BY <2>1, <3>1, OutputIsSegment
    <3>3. \A x \in Segment(k) : x \notin Segment(l)
      BY <2>1, <3>1, Segments
    <3> HIDE DEF k, l
    <3>4. /\ Writes(a) = {<<"data", x>> : x \in Segment(k)}
          /\ Writes(b) = {<<"data", x>> : x \in Segment(l)}
      BY <2>1, <2>4, <3>2 DEF Writes, k, l
    <3>5. Reads(b) = {<<"buffer", j>> : j \in Pakets} \cup {<<"row", l>>, <<"row", l + 1>>}
      BY <2>1, <2>4 DEF Reads, l
    <3>6. ASSUME NEW location \in Writes(a) PROVE location \notin Reads(b) \cup Writes(b)
      <4>1. PICK x \in Segment(k) : location = <<"data", x>>
        BY <3>4, <3>6
      <4>2. location \notin Reads(b)
        BY <4>1, <3>5
      <4>3. \A y \in Segment(l) : x # y
        BY <3>3
      <4>4. \A y \in Segment(l) : location # <<"data", y>>
        BY <4>1, <4>3
      <4> QED BY <4>2, <4>4, <3>4
    <3> QED BY <3>6
  <2> QED BY <2>1, <2>2, <2>3, <2>4 DEF Phases
<1>2. Inv => NoConflict
  BY <1>1 DEF NoConflict
<1> QED BY <1>2, Invariance, PTL

\* Every row that has been computed has Offset(l) elements below it, none of them
\* greater than one above it: for every choice of pivots and equal values too.
THEOREM RowsRightly == Spec => []RowsSplit
<1>1. ASSUME Inv, pc \in {"split", "merge"}, NEW l \in 1 .. num_of_pakets - 1, splitters[l] # NULL
      PROVE  /\ Total(splitters[l]) = Offset(l)
             /\ \A j, m \in Pakets :
                  splitters[l][j] > 0 /\ splitters[l][m] < Len(buffers[m]) =>
                    buffers[j][splitters[l][j]] <= buffers[m][splitters[l][m] + 1]
  <2>1. Prepared /\ Splits(splitters[l], l)
    <3>1. l \in 0 .. num_of_pakets
      BY PaketsType
    <3> QED BY <3>1, <1>1 DEF Inv, DataInv, SplitPhase, MergePhase, RowsRight, AllSplit
  <2>2. /\ Total(splitters[l]) = Offset(l) /\ Cut(buffers, splitters[l])
        /\ splitters[l] \in Row /\ \A j \in Pakets : splitters[l][j] <= Len(buffers[j])
    BY <2>1 DEF Splits, Within
  <2>3. \A j \in Pakets : splitters[l][j] \in Nat /\ Len(buffers[j]) \in Nat
    BY <2>1, <2>2, RowType, PreparedRuns, RunsType DEF SortedRuns
  <2>4. ASSUME NEW j \in Pakets, NEW m \in Pakets,
               splitters[l][j] > 0, splitters[l][m] < Len(buffers[m])
        PROVE  buffers[j][splitters[l][j]] <= buffers[m][splitters[l][m] + 1]
    <3>1. /\ splitters[l][j] \in 1 .. Len(buffers[j]) /\ splitters[l][j] <= splitters[l][j]
          /\ splitters[l][m] + 1 \in 1 .. Len(buffers[m]) /\ splitters[l][m] < splitters[l][m] + 1
      BY <2>2, <2>3, <2>4
    <3> QED BY <3>1, <2>2 DEF Cut
  <2> QED BY <2>2, <2>4
<1>2. Inv => RowsSplit
  BY <1>1 DEF RowsSplit
<1> QED BY <1>2, Invariance, PTL

\* multiwaymerge runs past its splitters only between two inner rows that cut the
\* same value: the rank below the one row and the rank above the other hold it.
THEOREM OverrunsAreTies == Spec => []OverrunIsATie
<1>1. ASSUME Inv, NEW l \in Pakets, Packet("merge", l) \in doing[Queue], Inverted(l)
      PROVE  l > 0 /\ l < num_of_pakets - 1 /\ Ordered[Offset(l)] = Ordered[Offset(l + 1) + 1]
  <2>1. pc = "merge"
    BY <1>1, Running, PacketTypes
  <2>2. AllSplit
    BY <1>1, <2>1 DEF Inv, DataInv, MergePhase
  <2> QED BY <1>1, <2>2, InvertedIsATie
<1>2. Inv => OverrunIsATie
  BY <1>1 DEF OverrunIsATie
<1> QED BY <1>2, Invariance, PTL

\* When sort returns and no merge has overrun, [begin, end) holds what std::sort
\* would have made of it: for every number of packets, every sequence, every
\* order of the packets and every pivot.
THEOREM Sorts == Spec => []SortsUnlessOverrun
<1>1. Inv => SortsUnlessOverrun
  BY DEF Inv, DataInv, SortsUnlessOverrun
<1> QED BY <1>1, Invariance, PTL

\* Every loop of reduce_split that a SplitPaket runs leaves less to decide at each
\* turn, and keeps the row within what is left, or it comes to a reduction of which
\* half are single elements of the least value and stands still: for every number
\* of packets and every slack, more packets than the 16 of the code allow included.
THEOREM ReductionsShrink == Spec => []ReductionShrinks
<1>1. ASSUME Inv, pc = "split", NEW l \in 1 .. num_of_pakets - 1,
             NEW r \in Reductions(buffers)[InitialReduction(buffers, Offset(l))],
             r.N > num_of_pakets + Slack, NEW t \in median_split(buffers, r)
      PROVE  IF LeastSingles(buffers, r) THEN t = r ELSE t.N < r.N /\ t.prefix \in 1 .. t.N
  <2> DEFINE initial == InitialReduction(buffers, Offset(l))
  <2>1. Prepared
    BY <1>1 DEF Inv, DataInv, SplitPhase, RowsRight
  <2>2. Sequence /\ SortedRuns(buffers) /\ Total(RunLengths(buffers)) = n
    BY <2>1, PreparedRuns
  <2>3. n \in Nat /\ \A j \in Pakets : paket_size(j) \in Nat
    BY <2>2, SizeType
  <2>4. /\ l \in 0 .. num_of_pakets /\ 1 \in 0 .. num_of_pakets /\ num_of_pakets \in 0 .. num_of_pakets
        /\ 1 <= l /\ l <= num_of_pakets /\ 0 \in Pakets /\ num_of_pakets \in Nat
    BY PaketsType
  <2>5. Offset(l) \in Nat /\ Offset(l) <= n
    BY <2>2, <2>4, Offsets, OffsetEnd
  <2>6. initial.N = n /\ Narrowed(buffers, Offset(l), initial)
    <3>1. Offset(l) \in 0 .. Total(RunLengths(buffers))
      BY <2>2, <2>3, <2>5
    <3> QED BY <3>1, <2>2, InitialNarrowed DEF InitialReduction
  <2> HIDE DEF initial
  <2>7. n > num_of_pakets + Slack
    <3>1. initial \in Reduction
      BY <2>6 DEF Narrowed
    <3>2. n <= num_of_pakets + Slack => r = initial
      <4>1. r \in Reductions(buffers)[initial]
        BY DEF initial
      <4>2. num_of_pakets + Slack \in Nat
        BY SplittingAssumption
      <4>3. n <= num_of_pakets + Slack => ~(initial.N > num_of_pakets + Slack)
        BY <2>3, <2>6, <4>2
      <4> QED BY <3>1, <4>1, <4>3, ReductionsDef
    <3>3. Slack \in Nat
      BY SplittingAssumption
    <3> QED BY <3>2, <3>3, <2>3, <2>4, <2>6, <1>1
  <2>8. paket_size(0) >= 1
    <3> DEFINE q == n \div num_of_pakets
               m == n % num_of_pakets
    <3>1. q \in Nat /\ m \in Nat /\ m < num_of_pakets /\ n = num_of_pakets * q + m
      BY <2>3, <2>4, DivMod
    <3>2. n >= num_of_pakets
      BY <2>3, <2>4, <2>7, SplittingAssumption
    <3>3. q # 0
      <4>1. num_of_pakets * 0 = 0
        BY <2>4
      <4> HIDE DEF q, m
      <4> QED BY <4>1, <3>1, <3>2, <2>4
    <3>4. paket_size(0) = q + (IF 0 < m THEN 1 ELSE 0)
      BY DEF paket_size
    <3> HIDE DEF q, m
    <3> QED BY <3>1, <3>3, <3>4
  <2>9. Offset(l) >= 1
    <3>1. Offset(0 + 1) = Offset(0) + paket_size(0) /\ Offset(0) = 0
      BY <2>2, <2>4, Offsets
    <3>2. Offset(1) <= Offset(l) /\ Offset(1) \in Nat
      BY <2>2, <2>4, Offsets
    <3> QED BY <3>1, <3>2, <2>3, <2>4, <2>5, <2>8
  <2>10. Offset(l) \in 1 .. Total(RunLengths(buffers))
    BY <2>2, <2>3, <2>5, <2>9
  <2> QED BY <1>1, <2>2, <2>10, ReductionEnds
<1>2. Inv => ReductionShrinks
  BY <1>1 DEF ReductionShrinks
<1> QED BY <1>2, Invariance, PTL

\* Every SplitPaket has a row to come to, or repeats itself for ever.
RowsExist ==
  pc = "split" => \A l \in 1 .. num_of_pakets - 1 :
    reduce_split(buffers, Offset(l)) # {} \/ Hangs(buffers, Offset(l))

\* No SplitPaket is left without something to do, for every number of packets
\* (reduce_split, quickselect).
THEOREM SplitsReturn == Spec => []RowsExist
<1>1. ASSUME Inv, pc = "split", NEW l \in 1 .. num_of_pakets - 1
      PROVE  reduce_split(buffers, Offset(l)) # {} \/ Hangs(buffers, Offset(l))
  <2>1. Prepared
    BY <1>1 DEF Inv, DataInv, SplitPhase, RowsRight
  <2>2. Sequence /\ SortedRuns(buffers) /\ Total(RunLengths(buffers)) = n
    BY <2>1, PreparedRuns
  <2>3. /\ n \in Nat /\ l \in 0 .. num_of_pakets /\ num_of_pakets \in 0 .. num_of_pakets
        /\ l <= num_of_pakets
    BY <2>2, SizeType, PaketsType
  <2>4. Offset(l) \in Nat /\ Offset(l) <= n
    BY <2>2, <2>3, Offsets, OffsetEnd
  <2>5. Offset(l) \in 0 .. Total(RunLengths(buffers))
    BY <2>2, <2>3, <2>4
  <2> QED BY <2>2, <2>5, ReduceSplitReturns
<1>2. Inv => RowsExist
  BY <1>1 DEF RowsExist
<1> QED BY <1>2, Invariance, PTL

-----------------------------------------------------------------------------
(* A sort that does not return. *)

\* Once a SplitPaket repeats itself its phase is the last: the barrier behind it
\* never opens, and sort never merges, cleans up or returns.
StaysSplitting == looping # {} => pc = "split"

THEOREM LoopsForEver == Spec => []StaysSplitting /\ [][looping \subseteq looping']_vars
<1>1. ASSUME Inv PROVE StaysSplitting
  <2>1. SUFFICES ASSUME NEW l \in looping PROVE pc = "split"
    BY DEF StaysSplitting
  <2>2. Packet("split", l) \in doing[Queue]
    BY <1>1 DEF Inv, LoopingInv
  <2> QED BY <2>2, <1>1, PacketTypes DEF Inv, QueueInv
<1>2. ASSUME [Next]_vars PROVE [looping \subseteq looping']_vars
  BY <1>2 DEF Next, CallerStep, PacketStep, PushSort, PushSplit, PushMerge, Push, BlockUntilDone,
              Sorted, Split, Merged, Cleanup, Take, SortPaket, SplitPaket, SplitPaketHangs,
              MergePaket, MergePaketOverruns, vars
<1> QED BY <1>1, <1>2, Invariance, PTL DEF Spec

\* A sequence of one element more than the slack allows: the packets with two
\* elements get a greater value, the others one least element each.
StuckInput(a, b) ==
  [x \in 1 .. num_of_pakets + Slack + 1 |-> IF x <= 2 * (Slack + 1) THEN b ELSE a]

\* The packets of this sequence.
LEMMA StuckSizes ==
  ASSUME num_of_pakets >= Slack + 2, n = num_of_pakets + Slack + 1, Sequence
  PROVE  /\ \A l \in Pakets : paket_size(l) = IF l < Slack + 1 THEN 2 ELSE 1
         /\ \A l \in 0 .. num_of_pakets : Offset(l) = IF l <= Slack + 1 THEN 2 * l ELSE l + Slack + 1
<1>1. num_of_pakets \in Nat /\ Slack \in Nat
  BY SplittingAssumption
<1>2. n \div num_of_pakets = 1 /\ n % num_of_pakets = Slack + 1
  <2>1. \A p, s \in Nat : p >= s + 2 => (p + s + 1) \div p = 1 /\ (p + s + 1) % p = s + 1
    <3>1. SUFFICES ASSUME NEW p \in Nat, NEW s \in Nat, p >= s + 2
                   PROVE  (p + s + 1) \div p = 1 /\ (p + s + 1) % p = s + 1
      OBVIOUS
    <3> DEFINE q == (p + s + 1) \div p
    <3> DEFINE m == (p + s + 1) % p
    <3>2. q \in Nat /\ m \in Nat /\ m < p /\ p + s + 1 = p * q + m
      BY <3>1, DivMod
    <3> HIDE DEF q, m
    <3>3. q # 0
      <4>1. p * 0 = 0
        OBVIOUS
      <4> QED BY <4>1, <3>2
    <3>4. q < 2
      <4>1. SUFFICES ASSUME q >= 2 PROVE FALSE
        BY <3>2
      <4>2. p * q >= p * 2
        BY <4>1, <3>2, SMTT(30)
      <4>3. p * q \in Nat /\ p * 2 = p + p
        BY <3>2
      <4> QED BY <4>2, <4>3, <3>1, <3>2
    <3>5. q = 1
      BY <3>2, <3>3, <3>4
    <3>6. p * 1 = p
      OBVIOUS
    <3> QED BY <3>2, <3>5, <3>6 DEF q, m
  <2> QED BY <2>1, <1>1
<1>3. \A l \in Pakets : paket_size(l) = IF l < Slack + 1 THEN 2 ELSE 1
  BY <1>2 DEF paket_size
<1> DEFINE at(l) == IF l <= Slack + 1 THEN 2 * l ELSE l + Slack + 1
<1> DEFINE A == {l \in 0 .. num_of_pakets : Offset(l) = at(l)}
<1>4. 0 \in A
  BY <1>1, Offsets
<1>5. ASSUME NEW l \in Pakets, l \in A PROVE l + 1 \in A
  <2>1. l \in Nat /\ l + 1 \in 0 .. num_of_pakets
    BY PaketsType
  <2>2. Offset(l + 1) = Offset(l) + (IF l < Slack + 1 THEN 2 ELSE 1)
    BY <1>3, Offsets
  <2>3. Offset(l) = at(l)
    BY <1>5
  <2>4. at(l + 1) = at(l) + (IF l < Slack + 1 THEN 2 ELSE 1)
    BY <2>1, <1>1
  <2> HIDE DEF at
  <2> QED BY <2>1, <2>2, <2>3, <2>4
<1>6. 0 .. num_of_pakets \subseteq A
  <2> HIDE DEF A
  <2> QED BY <1>4, <1>5, PaketsInduction
<1> QED BY <1>3, <1>6

\* Every run of this sequence has one value.
LEMMA StuckRuns ==
  ASSUME Prepared, num_of_pakets >= Slack + 2, NEW a \in Values, NEW b \in Values,
         input = StuckInput(a, b), NEW l \in Pakets
  PROVE  LET v == IF l < Slack + 1 THEN b ELSE a
             size == IF l < Slack + 1 THEN 2 ELSE 1
         IN Len(buffers[l]) = size /\ \A x \in 1 .. size : buffers[l][x] = v
<1> DEFINE v == IF l < Slack + 1 THEN b ELSE a
<1> DEFINE size == IF l < Slack + 1 THEN 2 ELSE 1
<1>1. num_of_pakets \in Nat /\ Slack \in Nat /\ l \in Nat /\ l < num_of_pakets
  BY SplittingAssumption, PaketsType
<1>2. Sequence /\ buffers[l] = Run(l)
  BY PreparedRuns
<1>3. n = num_of_pakets + Slack + 1
  BY <1>1 DEF n, StuckInput
<1>4. paket_size(l) = size
  BY <1>2, <1>3, StuckSizes
<1>5. Offset(l) = (IF l <= Slack + 1 THEN 2 * l ELSE l + Slack + 1) /\ Offset(l + 1) = Offset(l) + size
  <2>1. l \in 0 .. num_of_pakets
    BY <1>1
  <2> QED BY <2>1, <1>2, <1>3, <1>4, StuckSizes, Offsets
<1>6. Piece(l) \in Seq({v})
  <2>1. /\ Piece(l) \in Seq(Values) /\ Len(Piece(l)) = size
        /\ \A x \in Segment(l) : input[x] = Piece(l)[x - Offset(l)]
    BY <1>2, <1>4, Pieces
  <2>2. Offset(l) \in Nat /\ size \in Nat
    BY <1>1, <1>5
  <2>3. ASSUME NEW x \in 1 .. size PROVE Piece(l)[x] = v
    <3>1. Offset(l) + x \in Segment(l) /\ (Offset(l) + x) - Offset(l) = x
      BY <2>2, <1>5 DEF Segment
    <3>2. Piece(l)[x] = input[Offset(l) + x]
      BY <3>1, <2>1
    <3>3. Offset(l) + x \in 1 .. n
      BY <3>1, <1>2, Segments
    <3>4. input[Offset(l) + x] = IF Offset(l) + x <= 2 * (Slack + 1) THEN b ELSE a
      BY <3>3, <1>3 DEF StuckInput
    <3>5. Offset(l) + x <= 2 * (Slack + 1) <=> l < Slack + 1
      <4>1. CASE l < Slack + 1
        BY <4>1, <1>1, <1>5
      <4>2. CASE ~(l < Slack + 1)
        BY <4>2, <1>1, <1>5
      <4> QED BY <4>1, <4>2
    <3> QED BY <3>2, <3>4, <3>5
  <2> HIDE DEF v, size
  <2>4. \A x \in 1 .. Len(Piece(l)) : Piece(l)[x] \in {v}
    BY <2>1, <2>3
  <2>5. Piece(l) = [x \in 1 .. Len(Piece(l)) |-> Piece(l)[x]] /\ Len(Piece(l)) \in Nat
    BY <2>1
  <2> QED BY <2>4, <2>5, SeqDef
<1>7. v \in Int
  BY SplittingAssumption
<1>8. Len(Piece(l)) = size
  BY <1>2, <1>4, Pieces
<1> HIDE DEF v, size
<1>9. Sort(Piece(l)) \in Seq({v}) /\ Len(Sort(Piece(l))) = size
  <2>1. {v} \in SUBSET Int
    BY <1>7
  <2> QED BY <2>1, <1>6, <1>8, SortDef
<1>10. Len(buffers[l]) = size /\ \A x \in 1 .. size : buffers[l][x] = v
  BY <1>2, <1>9 DEF Run
<1> QED BY <1>10 DEF v, size

\* With three times as many packets as there is slack, and two, no row of this
\* sequence is ever found.
LEMMA StuckRows ==
  ASSUME Prepared, num_of_pakets >= 3 * Slack + 2,
         NEW a \in Values, NEW b \in Values, a < b, input = StuckInput(a, b),
         NEW l \in 1 .. num_of_pakets - 1
  PROVE  Hangs(buffers, Offset(l)) /\ reduce_split(buffers, Offset(l)) = {}
<1> DEFINE P == num_of_pakets
<1> DEFINE r == InitialReduction(buffers, Offset(l))
<1> DEFINE S == {j \in Nonempty(r) : r.last[j] - r.first[j] = 1 /\ buffers[j][r.last[j]] = a}
<1>1. P \in Nat /\ Slack \in Nat /\ P >= 3 * Slack + 2 /\ P >= Slack + 2
  BY SplittingAssumption
<1>2. /\ Sequence /\ SortedRuns(buffers) /\ Total(RunLengths(buffers)) = n
      /\ n = P + Slack + 1
  BY <1>1, PreparedRuns DEF n, StuckInput
<1>3. \A j \in Pakets : /\ Len(buffers[j]) = IF j < Slack + 1 THEN 2 ELSE 1
                        /\ \A x \in 1 .. (IF j < Slack + 1 THEN 2 ELSE 1) :
                             buffers[j][x] = IF j < Slack + 1 THEN b ELSE a
  BY <1>1, StuckRuns
<1>4. /\ r.N = n
      /\ \A j \in Pakets : /\ r.first[j] = 0 /\ r.last[j] = Len(buffers[j])
                           /\ Median(r)[j] = 0 + (Len(buffers[j]) - 0) \div 2
  BY <1>2, Zenon DEF InitialReduction, RunLengths, Median
<1>5. Offset(l) \in 1 .. Total(RunLengths(buffers))
  <2>1. l \in 0 .. P /\ l \in Nat /\ l >= 1 /\ P \in 0 .. P /\ l <= P
    BY <1>1
  <2>2. Offset(l) = IF l <= Slack + 1 THEN 2 * l ELSE l + Slack + 1
    BY <2>1, <1>1, <1>2, StuckSizes
  <2>3. Offset(l) \in Nat /\ Offset(l) >= 1
    BY <2>1, <2>2, <1>1
  <2>4. Offset(l) <= n
    BY <2>1, <1>2, Offsets, OffsetEnd
  <2> QED BY <2>3, <2>4, <1>1, <1>2
<1> HIDE DEF r
<1>6. S = Slack + 1 .. P - 1
  <2>1. ASSUME NEW j \in Pakets, ~(j < Slack + 1) PROVE j \in S
    <3>1. r.first[j] = 0 /\ r.last[j] = 1
      BY <2>1, <1>3, <1>4
    <3>2. buffers[j][1] = a
      BY <2>1, <1>3
    <3>3. j \in Nonempty(r)
      BY <3>1 DEF Nonempty
    <3> QED BY <3>1, <3>2, <3>3
  <2>2. ASSUME NEW j \in S PROVE j \in Pakets /\ ~(j < Slack + 1)
    <3>1. j \in Pakets /\ r.last[j] - r.first[j] = 1
      BY DEF Nonempty
    <3>2. r.first[j] = 0 /\ r.last[j] = IF j < Slack + 1 THEN 2 ELSE 1
      BY <3>1, <1>3, <1>4
    <3> HIDE DEF S
    <3> QED BY <3>1, <3>2
  <2>3. \A j : j \in Slack + 1 .. P - 1 <=> j \in Pakets /\ ~(j < Slack + 1)
    BY <1>1, PaketsType
  <2> HIDE DEF S, P
  <2> QED BY <2>1, <2>2, <2>3
<1>7. Cardinality(S) >= r.N \div 2
  <2>1. Cardinality(Slack + 1 .. P - 1) = P - Slack - 1
    <3>1. /\ Slack + 1 \in Int /\ P - 1 \in Int /\ (P - 1) - (Slack + 1) + 1 = P - Slack - 1
          /\ ~(Slack + 1 > P - 1)
      BY <1>1
    <3> QED BY <3>1, FS_Interval
  <2>2. (P + Slack + 1) \div 2 <= P - Slack - 1
    BY <1>1
  <2> HIDE DEF S
  <2> QED BY <2>1, <2>2, <1>2, <1>4, <1>6
<1>8. ASSUME NEW j \in Nonempty(r) \ S
      PROVE  a <= buffers[j][r.first[j] + 1] /\ a < buffers[j][Median(r)[j] + 1]
  <2>1. j \in Pakets /\ j < Slack + 1
    <3>1. j \in Pakets /\ j \notin Slack + 1 .. P - 1
      BY <1>6 DEF Nonempty
    <3> QED BY <3>1, <1>1, PaketsType
  <2>2. r.first[j] = 0 /\ Median(r)[j] = 0 + (2 - 0) \div 2
    BY <2>1, <1>3, <1>4
  <2>3. buffers[j][1] = b /\ buffers[j][2] = b
    BY <2>1, <1>3
  <2>4. r.first[j] + 1 = 1 /\ Median(r)[j] + 1 = 2
    BY <2>2
  <2> QED BY <2>3, <2>4, SplittingAssumption
<1>9. LeastSingles(buffers, r)
  BY <1>7, <1>8 DEF LeastSingles
<1>10. n > P + Slack
  BY <1>1, <1>2
<1> QED BY <1>2, <1>5, <1>9, <1>10, SinglesHang DEF r

\* sort does not return with many packets: with 16 elements of slack and 50 packets
\* or more there is a sequence, of any two values, for which the loop of
\* reduce_split (median_split.h:171) ends in no SplitPaket.
NeverSplits(a, b) ==
  input = StuckInput(a, b) =>
    /\ pc \in {"sort", "split"}
    /\ pc = "split" => \A l \in 1 .. num_of_pakets - 1 : splitters[l] = NULL /\ Hangs(buffers, Offset(l))

THEOREM SortHangs ==
  ASSUME num_of_pakets >= 3 * Slack + 2, NEW a \in Values, NEW b \in Values, a < b
  PROVE  Spec => []NeverSplits(a, b)
<1> DEFINE Rowless == /\ pc \in {"sort", "split"}
                      /\ \A l \in 0 .. num_of_pakets - 2 : Packet("split", l) \notin done
                      /\ \A l \in 1 .. num_of_pakets - 1 : splitters[l] = NULL
<1> DEFINE J == input = StuckInput(a, b) => Rowless
<1>0. num_of_pakets \in Nat /\ num_of_pakets >= 2 /\ Slack \in Nat
  BY SplittingAssumption
<1>1. Init => J
  <2>1. SUFFICES ASSUME Init PROVE Rowless
    OBVIOUS
  <2>2. pc = "sort" /\ done = {} /\ splitters = [l \in 0 .. num_of_pakets |-> NULL]
    BY <2>1 DEF Init, JB!Init
  <2> QED BY <2>2, <1>0
<1>2. ASSUME Inv, J, [Next]_vars PROVE J'
  <2>0. input' = input
    BY <1>2 DEF Next, CallerStep, PacketStep, PushSort, PushSplit, PushMerge, Push, BlockUntilDone,
                Sorted, Split, Merged, Cleanup, Take, SortPaket, SplitPaket, SplitPaketHangs,
                MergePaket, MergePaketOverruns, vars
  <2>1. StuckInput(a, b)' = StuckInput(a, b)
    BY DEF StuckInput
  <2>2. SUFFICES ASSUME input = StuckInput(a, b) PROVE Rowless'
    BY <2>0, <2>1
  <2>3. Rowless /\ ControlTypes
    BY <1>2, <2>2 DEF Inv, QueueInv
  <2>4. CASE UNCHANGED <<pc, done, splitters>>
    BY <2>3, <2>4 DEF Packet
  <2>5. CASE PushSort \/ PushSplit \/ PushMerge \/ BlockUntilDone
    BY <2>4, <2>5 DEF PushSort, PushSplit, PushMerge, Push, BlockUntilDone, JB!Submit, JB!Wait
  <2>6. CASE Sorted
    <3>1. /\ pc' = "split" /\ done' = done
          /\ splitters' = [splitters EXCEPT ![0] = [j \in Pakets |-> 0],
                                            ![num_of_pakets] = [j \in Pakets |-> paket_size(j)]]
      BY <2>6 DEF Sorted, JB!Return
    <3>2. \A l \in 1 .. num_of_pakets - 1 : splitters'[l] = splitters[l]
      <4>1. splitters \in [0 .. num_of_pakets -> Row \cup {NULL}]
        BY <1>2 DEF Inv, DataInv, DataTypes
      <4>2. \A l \in 1 .. num_of_pakets - 1 : l \in 0 .. num_of_pakets /\ l # 0 /\ l # num_of_pakets
        BY <1>0
      <4> QED BY <3>1, <4>1, <4>2, Zenon
    <3> QED BY <3>1, <3>2, <2>3 DEF Packet
  <2>7. CASE Split
    <3>1. pc = "split" /\ QueueInv /\ Opened
      BY <2>7, <1>2 DEF Split, Opened, Inv
    <3>2. 0 \in 0 .. Count(pc) - 1 /\ 0 \in 0 .. num_of_pakets - 2
      BY <3>1, <1>0 DEF Count
    <3>3. Packet("split", 0) \in done
      BY <3>1, <3>2, OpenedPhase
    <3> QED BY <3>2, <3>3, <2>3
  <2>8. CASE Merged \/ Cleanup
    BY <2>8, <2>3 DEF Merged, Cleanup
  <2>9. CASE \E packet \in todo[Queue] : Take(packet)
    BY <2>4, <2>9 DEF Take, JB!Start
  <2>10. CASE \E l \in Pakets : SortPaket(l)
    <3>1. PICK l \in Pakets : SortPaket(l)
      BY <2>10
    <3>2. pc' = pc /\ splitters' = splitters /\ done' = done \cup {Packet("sort", l)}
      BY <3>1 DEF SortPaket, JB!Complete
    <3>3. \A m : Packet("split", m) # Packet("sort", l)
      BY PacketTypes
    <3> QED BY <3>2, <3>3, <2>3 DEF Packet
  <2>11. CASE \E l \in Pakets : MergePaket(l) \/ MergePaketOverruns(l)
    <3>1. PICK l \in Pakets : MergePaket(l) \/ MergePaketOverruns(l)
      BY <2>11
    <3>2. Packet("merge", l) \in doing[Queue]
      BY <3>1 DEF MergePaket, MergePaketOverruns, JB!Complete
    <3>3. pc = "merge"
      BY <3>2, <1>2, PacketTypes DEF Inv, QueueInv
    <3> QED BY <3>3, <2>3
  <2>12. CASE \E l \in 0 .. num_of_pakets - 2 : SplitPaket(l)
    <3>1. PICK l \in 0 .. num_of_pakets - 2 : SplitPaket(l)
      BY <2>12
    <3>2. Packet("split", l) \in doing[Queue] /\ \E row \in reduce_split(buffers, Offset(l + 1)) : TRUE
      BY <3>1 DEF SplitPaket, JB!Complete
    <3>3. pc = "split"
      BY <3>2, <1>2, PacketTypes DEF Inv, QueueInv
    <3>4. Prepared
      BY <3>3, <1>2 DEF Inv, DataInv, SplitPhase, RowsRight
    <3>5. l + 1 \in 1 .. num_of_pakets - 1
      BY <1>0
    <3>6. reduce_split(buffers, Offset(l + 1)) = {}
      BY <3>4, <3>5, <2>2, StuckRows
    <3> QED BY <3>2, <3>6
  <2>13. CASE \E l \in 0 .. num_of_pakets - 2 : SplitPaketHangs(l)
    BY <2>4, <2>13 DEF SplitPaketHangs, queueVars
  <2>14. CASE UNCHANGED vars
    BY <2>4, <2>14 DEF vars
  <2> QED BY <1>2, <2>5, <2>6, <2>7, <2>8, <2>9, <2>10, <2>11, <2>12, <2>13, <2>14
       DEF Next, CallerStep, PacketStep
<1>3. ASSUME Inv, J PROVE NeverSplits(a, b)
  <2>1. SUFFICES ASSUME input = StuckInput(a, b)
                 PROVE  /\ pc \in {"sort", "split"}
                        /\ pc = "split" => \A l \in 1 .. num_of_pakets - 1 :
                                             splitters[l] = NULL /\ Hangs(buffers, Offset(l))
    BY DEF NeverSplits
  <2>2. Rowless
    BY <1>3, <2>1
  <2>3. ASSUME pc = "split", NEW l \in 1 .. num_of_pakets - 1
        PROVE  splitters[l] = NULL /\ Hangs(buffers, Offset(l))
    <3>1. Prepared
      BY <2>3, <1>3 DEF Inv, DataInv, SplitPhase, RowsRight
    <3> QED BY <3>1, <2>1, <2>2, StuckRows
  <2> QED BY <2>2, <2>3
<1> HIDE DEF J
<1> QED BY <1>1, <1>2, <1>3, Invariance, PTL DEF Spec

=============================================================================
