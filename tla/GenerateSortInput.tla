-------------------------- MODULE GenerateSortInput --------------------------
(***************************************************************************)
(* utils/generatesortinput.cpp with the generators of                       *)
(* utils/sorting_benchmarks.h: the command line selects a generator, which  *)
(* is called n times for the values of the file that timesortfile sorts.    *)
(*                                                                          *)
(* Arguments come in flag-value pairs, a value that is no number being 0    *)
(* (atoi).  Of the array only the value last written is kept.  An unsigned  *)
(* int counts modulo Word, an int is its two's complement; a long long is   *)
(* an integer: the products formed in it stay below 2^63 for every file     *)
(* that fits into memory and p up to 2^14.                                  *)
(***************************************************************************)
EXTENDS Integers

CONSTANTS
  Word,  \* 2^32, the number of values of an unsigned int
  Sizes  \* the values -n is given

VARIABLES
  pc,              \* "args", "fill"; "usage", "crashed" or "written" at the end
  n, t, p, g,
  inputGenerator,  \* the class of the generator, or "NULL"
  counter,         \* main's i, and the generator's counter of its calls
  loccount, m,     \* DeterministicDuplicates
  value            \* what the generator returned last

argVars == <<n, t, p, g>>
duplicateVars == <<loccount, m>>
vars == <<pc, n, t, p, g, inputGenerator, counter, loccount, m, value>>

Benchmarks == {"U", "G", "Z", "B", "gG", "S", "DD"}

Init ==
  /\ pc = "args"
  /\ n = 0 /\ t = "U" /\ p = 0 /\ g = 0
  /\ inputGenerator = "NULL"
  /\ counter = 0
  /\ loccount = 0 /\ m = 1
  /\ value = 0

-----------------------------------------------------------------------------
(* Integers of the machine.                                                 *)

INT_MAX == (Word \div 2) - 1
RAND_MAX == INT_MAX
Rand == 0 .. RAND_MAX

Unsigned(x) == x % Word
Signed(x) == IF Unsigned(x) <= INT_MAX THEN Unsigned(x) ELSE Unsigned(x) - Word
Quotient(a, b) == IF a >= 0 THEN a \div b ELSE -((-a) \div b)

-----------------------------------------------------------------------------
(* The generators.                                                          *)

\* The cast binds tighter than the division: the sum is cut down to an int.
Gaussian(r1, r2, r3, r4) == Quotient(Signed(r1 + r2 + r3 + r4), 4)

\* The share of the values that belongs to one of p processors, and a value in
\* it; BuckedSorted, gGroup and Staggered differ in the choice of the share.
Width == RAND_MAX \div p
InBucket(r, from) == Signed((r % Width) + from * Width)

\* The processor whose block of the input position c is in.
Block(c) == (c * p) \div n

BuckedSortedFrom(c) == ((c * p * p) \div n) % p

\* p / 2 - 1 wraps for p = 1, the remainder puts that right.
gGroupFrom(c) ==
  LET j == (Block(c) \div g) + 1
      i == ((c * p * g) \div n) % g
      from == (Unsigned((j - 1) * g + (p \div 2) - 1 + i) % p) + 1
  IN  IF from = p THEN 0 ELSE from

StaggeredFrom(c) ==
  LET i == Block(c) + 1
  IN  Unsigned(IF i <= p \div 2 THEN 2 * i - 1 ELSE 2 * i - p - 2)

From(c) ==
  CASE inputGenerator = "B" -> BuckedSortedFrom(c)
    [] inputGenerator = "gG" -> gGroupFrom(c)
    [] inputGenerator = "S" -> StaggeredFrom(c)

log2(val) == IF val <= 1 THEN 0 ELSE CHOOSE k \in 0 .. 62 : 2 ^ k <= val /\ val < 2 ^ (k + 1)

\* DeterministicDuplicates.  Its reset when counter = n waits for a call that
\* main does not make.
Duplicate ==
  LET over == loccount >= (n \div 2) \div m
  IN  /\ m' = IF over THEN 2 * m ELSE m
      /\ loccount' = IF over THEN 1 ELSE loccount + 1
      /\ value' = log2(n \div m')

\* operator() of the generator, on the numbers rand returns.
Generate ==
  \/ /\ inputGenerator = "U"
     /\ \E r \in Rand : value' = r
     /\ UNCHANGED duplicateVars
  \/ /\ inputGenerator = "G"
     /\ \E r1, r2, r3, r4 \in Rand : value' = Gaussian(r1, r2, r3, r4)
     /\ UNCHANGED duplicateVars
  \/ /\ inputGenerator = "Z"
     /\ value' = 0
     /\ UNCHANGED duplicateVars
  \/ /\ inputGenerator \in {"B", "gG", "S"}
     /\ \E r \in Rand : value' = InBucket(r, From(counter))
     /\ UNCHANGED duplicateVars
  \/ inputGenerator = "DD" /\ Duplicate

-----------------------------------------------------------------------------
(* main.                                                                    *)

\* The branch that is meant for -g compares with "-p" once more: g stays 0.
ReadArgument ==
  /\ pc = "args"
  /\ \/ n' \in Sizes /\ UNCHANGED <<t, p, g>>
     \/ t' \in Benchmarks \cup {"RD", "unknown"} /\ UNCHANGED <<n, p, g>>
     \/ p' \in 0 .. Word - 1 /\ UNCHANGED <<n, t, g>>
     \/ UNCHANGED argVars
  /\ UNCHANGED <<pc, inputGenerator, counter, duplicateVars, value>>

Refused ==
  \/ n = 0
  \/ t \in {"B", "gG", "S"} /\ p = 0
  \/ t = "gG" /\ g = 0

PrintUsage ==
  /\ pc = "args"
  /\ Refused
  /\ pc' = "usage"
  /\ UNCHANGED <<argVars, inputGenerator, counter, duplicateVars, value>>

\* No generator is made for RD and for what is no type at all.
Construct ==
  /\ pc = "args"
  /\ ~Refused
  /\ inputGenerator' = IF t \in Benchmarks THEN t ELSE "NULL"
  /\ pc' = "fill"
  /\ UNCHANGED <<argVars, counter, duplicateVars, value>>

\* A call through NULL, or a remainder by zero in InBucket.
Crashes ==
  \/ inputGenerator = "NULL"
  \/ inputGenerator \in {"B", "gG", "S"} /\ Width = 0

Crash ==
  /\ pc = "fill"
  /\ counter < n
  /\ Crashes
  /\ pc' = "crashed"
  /\ UNCHANGED <<argVars, inputGenerator, counter, duplicateVars, value>>

Fill ==
  /\ pc = "fill"
  /\ counter < n
  /\ ~Crashes
  /\ Generate
  /\ counter' = counter + 1
  /\ UNCHANGED <<pc, argVars, inputGenerator>>

Write ==
  /\ pc = "fill"
  /\ counter = n
  /\ pc' = "written"
  /\ UNCHANGED <<argVars, inputGenerator, counter, duplicateVars, value>>

Next == ReadArgument \/ PrintUsage \/ Construct \/ Crash \/ Fill \/ Write

Spec == Init /\ [][Next]_vars

-----------------------------------------------------------------------------
(* Properties. *)

Filled == pc \in {"fill", "written"} /\ counter > 0

Even(k) == k % 2 = 0

\* Of the eight benchmarks two are out of reach of the command line: no file is
\* ever filled by gGroup, or for the type RD.
NoGroups == Filled => inputGenerator \in Benchmarks \ {"gG"}

\* Where its definition puts a value of each benchmark.  Gaussian's are spread
\* around zero, not around the mean of rand, and Staggered's of an odd p may be
\* negative: 2 * i - p - 2 wraps for the block in the middle.
ValuesInRange ==
  Filled =>
    /\ inputGenerator \in {"U", "Z", "B"} => value \in Rand
    /\ inputGenerator = "S" /\ Even(p) => value \in Rand
    /\ inputGenerator = "S" => value \in -Width .. RAND_MAX
    /\ inputGenerator = "G" => value \in -(Word \div 8) .. (Word \div 8) - 1

\* Each value lies in the bucket chosen for its position, whatever rand returned.
BucketsKept ==
  Filled /\ (inputGenerator = "B" \/ (inputGenerator = "S" /\ Even(p))) =>
    /\ From(counter - 1) \in 0 .. p - 1
    /\ value \div Width = From(counter - 1)

\* The first half of the duplicates, and no more, is log2(n).
HalfDuplicates ==
  Filled /\ inputGenerator = "DD" => (m = 1 <=> counter <= n \div 2)

=============================================================================
