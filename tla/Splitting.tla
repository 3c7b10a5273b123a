------------------------------ MODULE Splitting ------------------------------
(***************************************************************************)
(* The data side of the mergesort: how reduce_split                         *)
(* (malms/median_split.h) finds the splitters of one row, and what          *)
(* multiwaymerge (malms/loser_merge.h) makes of the runs between two rows.  *)
(*                                                                          *)
(* An iterator into run j is the number of elements of run j before it.     *)
(* quickselect takes its pivots from rand() and std::sort leaves the order  *)
(* of equal elements open, so the operators return the set of all results.  *)
(*                                                                          *)
(* Recursion is written as recursive functions over large sets of           *)
(* arguments, which are never enumerated.  Where a function is defined only *)
(* for some arguments its domain says so: the loops of the code end, or     *)
(* stay within their sequences, for these.                                  *)
(***************************************************************************)
EXTENDS Integers, Sequences, FiniteSets, FiniteSetsExt

CONSTANTS
  num_of_pakets,  \* number of runs, and of packets per phase
  Values,         \* what is sorted
  Slack           \* the 16 of reduceUntil in reduce_split

ASSUME SplittingAssumption ==
  /\ num_of_pakets \in Nat \ {0}
  /\ Values \subseteq Int
  /\ Slack \in Nat

Pakets == 0 .. num_of_pakets - 1
Row == [Pakets -> Nat]
RunSet == [Pakets -> Seq(Values)]
PartitionElement == [value : Values, paket : Pakets]

\* row[0] + ... + row[l - 1], for every l.
Sums(row) ==
  LET sum[l \in 0 .. num_of_pakets] == IF l = 0 THEN 0 ELSE sum[l - 1] + row[l - 1]
  IN sum

Total(row) == Sums(row)[num_of_pakets]
RunLengths(runs) == [j \in Pakets |-> Len(runs[j])]

\* std::sort: the k-th value has fewer than k below it.
Sort(s) ==
  [k \in 1 .. Len(s) |->
    CHOOSE v \in {s[x] : x \in 1 .. Len(s)} :
      /\ Cardinality({x \in 1 .. Len(s) : s[x] < v}) < k
      /\ k <= Cardinality({x \in 1 .. Len(s) : s[x] <= v})]

-----------------------------------------------------------------------------
(* quickselect.                                                             *)

SwapAt(s, i, j) == [s EXCEPT ![i] = s[j], ![j] = s[i]]

\* Both scans run without looking at b and e: the calls that stop them in time.
PartitionCall ==
  {c \in [s : Seq(PartitionElement), b : Nat \ {0}, e : Nat, pivot : Values] :
     /\ c.e <= Len(c.s) + 1
     /\ \E i \in c.b .. c.e : i <= Len(c.s) /\ ~(c.s[i].value < c.pivot)
     /\ \E i \in c.b - 1 .. c.e - 1 : 1 <= i /\ ~(c.pivot < c.s[i].value)}

\* partitionPivot on positions b .. e-1 of s: the sequence it leaves and the
\* position it returns.
partitionPivot[c \in PartitionCall] ==
  LET left == Min({i \in c.b .. Len(c.s) : ~(c.s[i].value < c.pivot)})
      right == Max({i \in 1 .. c.e - 1 : ~(c.pivot < c.s[i].value)})
  IN IF left < right
     THEN partitionPivot[[s |-> SwapAt(c.s, left, right), b |-> left + 1, e |-> right, pivot |-> c.pivot]]
     ELSE [s |-> c.s, cut |-> left]

QuickselectCall ==
  {c \in [s : Seq(PartitionElement), b : Nat \ {0}, e : Nat, k : Int] :
     c.b <= c.e /\ c.e <= Len(c.s) + 1}

\* quickselect for the element of rank k in b .. e-1, for every pivot.  A pivot
\* that changes nothing is drawn again.
quickselect[c \in QuickselectCall] ==
  IF c.e - c.b <= 1 THEN {c.s}
  ELSE UNION {
    LET result == partitionPivot[[s |-> c.s, b |-> c.b, e |-> c.e, pivot |-> c.s[i].value]]
        cut == result.cut
    IN IF cut - c.b > c.k THEN quickselect[[c EXCEPT !.s = result.s, !.e = cut]]
       ELSE IF cut = c.b THEN {}
       ELSE quickselect[[c EXCEPT !.s = result.s, !.b = cut, !.k = c.k - (cut - c.b)]]
    : i \in c.b .. c.e - 1 }

-----------------------------------------------------------------------------
(* median_split.  A reduction has narrowed run j to the elements between    *)
(* first[j] and last[j], N in all, of which prefix belong below the row.    *)

Reduction == [first : Row, last : Row, prefix : Int, N : Int]

\* std::lower_bound on positions from .. to of a sorted run.
LowerBound(run, from, to, v) == from + Cardinality({i \in from + 1 .. to : run[i] < v})

\* Faulty variant: the lower of two middle elements.
MedianLow(r) == [j \in Pakets |-> r.first[j] + (r.last[j] - r.first[j] - 1) \div 2]

Median(r) == [j \in Pakets |-> r.first[j] + (r.last[j] - r.first[j]) \div 2]

Nonempty(r) == {j \in Pakets : r.first[j] # r.last[j]}

\* The runs that may turn out as the weighted median of the medians, depending
\* on how std::sort orders equal ones.
Picks(runs, r) ==
  LET value(j) == runs[j][Median(r)[j] + 1]
      weight(S) == Total([j \in Pakets |-> IF j \in S THEN r.last[j] - r.first[j] ELSE 0])
      below(j) == {l \in Nonempty(r) : value(l) < value(j)}
      equal(j) == {l \in Nonempty(r) \ {j} : value(l) = value(j)}
  IN {j \in Nonempty(r) :
        \E S \in SUBSET equal(j) :
          /\ weight(below(j) \cup S) < r.N \div 2
          /\ weight(below(j) \cup S \cup {j}) >= r.N \div 2}

\* The splitters around the chosen median.  For a run without elements left,
\* current is where it ended and stays there.
Current(runs, r, pick) ==
  LET median == runs[pick][Median(r)[pick] + 1]
  IN [j \in Pakets |->
        IF j = pick \/ j \notin Nonempty(r) \/ runs[j][Median(r)[j] + 1] = median
        THEN Median(r)[j]
        ELSE IF runs[j][Median(r)[j] + 1] < median
             THEN LowerBound(runs[j], Median(r)[j], r.last[j], median)
             ELSE LowerBound(runs[j], r.first[j], Median(r)[j], median)]

Narrow(r, current) ==
  LET sum_els == Total(current) - Total(r.first)
  IN IF sum_els < r.prefix
     THEN [r EXCEPT !.first = current, !.prefix = r.prefix - sum_els, !.N = r.N - sum_els]
     ELSE [r EXCEPT !.last = current, !.N = sum_els]

median_split(runs, r) == {Narrow(r, Current(runs, r, pick)) : pick \in Picks(runs, r)}

-----------------------------------------------------------------------------
(* reduce_split.                                                            *)

\* Every reduction the loop of reduce_split goes through.
Reductions(runs) ==
  LET reductions[r \in Reduction] ==
        {r} \cup
          IF r.N > num_of_pakets + Slack
          THEN UNION {reductions[t] : t \in {u \in median_split(runs, r) : u.N < r.N}}
          ELSE {}
  IN reductions

\* Half of what is left, or more, are single elements of one value, each the only
\* one left of its run; nothing that is left is less, and no other run has this
\* value in its middle.
LeastSingles(runs, r) ==
  \E v \in Values :
    LET single == {j \in Nonempty(r) : r.last[j] - r.first[j] = 1 /\ runs[j][r.last[j]] = v}
    IN /\ Cardinality(single) >= r.N \div 2
       /\ \A j \in Nonempty(r) \ single :
            v <= runs[j][r.first[j] + 1] /\ v < runs[j][Median(r)[j] + 1]

Reduced(runs, r) == {t \in Reductions(runs)[r] : t.N <= num_of_pakets + Slack}

\* The elements between first and last, run after run.
Undecided(runs, r) ==
  LET before == Sums([j \in Pakets |-> r.last[j] - r.first[j]])
      run(i) == CHOOSE j \in Pakets : before[j] < i /\ i <= before[j + 1]
  IN [i \in 1 .. r.N |->
        [value |-> runs[run(i)][r.first[run(i)] + i - before[run(i)]], paket |-> run(i)]]

\* quickselect of the element at position k of all of s.
Selected(s, k) == quickselect[[s |-> s, b |-> 1, e |-> Len(s) + 1, k |-> k]]

\* Faulty variant: one element too many is counted into the lower part.
LowerPartLong(r, s) ==
  [j \in Pakets |-> r.first[j] + Cardinality({i \in DOMAIN s : i <= r.prefix + 1 /\ s[i].paket = j})]

\* The first prefix elements after quickselect lie below the row.
LowerPart(r, s) ==
  [j \in Pakets |-> r.first[j] + Cardinality({i \in 1 .. r.prefix : s[i].paket = j})]

InitialReduction(runs, prefix_size) ==
  [first |-> [j \in Pakets |-> 0], last |-> RunLengths(runs),
   prefix |-> prefix_size, N |-> Total(RunLengths(runs))]

\* The loop comes to a reduction that a median_split leaves as it was: it does the
\* same again, for ever.
Hangs(runs, prefix_size) ==
  \E r \in Reductions(runs)[InitialReduction(runs, prefix_size)] :
    r.N > num_of_pakets + Slack /\ r \in median_split(runs, r)

\* Faulty variant: the element selected is one too low.
reduce_split_low(runs, prefix_size) ==
  UNION {
    {LowerPart(r, s) : s \in Selected(Undecided(runs, r), r.prefix - 2)}
    : r \in Reduced(runs, InitialReduction(runs, prefix_size)) }

reduce_split(runs, prefix_size) ==
  UNION {
    {LowerPart(r, s) : s \in Selected(Undecided(runs, r), r.prefix - 1)}
    : r \in Reduced(runs, InitialReduction(runs, prefix_size)) }

-----------------------------------------------------------------------------
(* multiwaymerge: always the least head of the runs that have not reached   *)
(* their upper splitter.  None may start above it.                          *)

multiwaymerge(runs, lower, upper) ==
  LET merged[row \in {r \in Row : \A j \in Pakets : r[j] <= upper[j]}] ==
        LET left == {j \in Pakets : row[j] # upper[j]}
            head(j) == runs[j][row[j] + 1]
            min_i == CHOOSE j \in left : \A l \in left : head(j) <= head(l)
        IN IF left = {} THEN <<>>
           ELSE <<head(min_i)>> \o merged[[row EXCEPT ![min_i] = @ + 1]]
  IN merged[lower]

=============================================================================
