----------------------- MODULE GenerateSortInputProofs -----------------------
(***************************************************************************)
(* Proofs about GenerateSortInput for every size of the file, every number  *)
(* of processors and every width of an int from four bits on.               *)
(***************************************************************************)
EXTENDS GenerateSortInput, TLAPS

\* What is assumed of the machine and of the arguments.
Machine ==
  /\ Word \in Nat /\ Word > 0 /\ Word % 8 = 0
  /\ Sizes \subseteq Nat

-----------------------------------------------------------------------------
(* Division.                                                                *)

LEMMA DivMod ==
  ASSUME NEW a \in Int, NEW b \in Nat, b > 0
  PROVE  /\ a \div b \in Int
         /\ a % b \in 0 .. b - 1
         /\ a = b * (a \div b) + (a % b)
<1>1. a \div b \in Int
  OBVIOUS
<1>2. a % b \in 0 .. b - 1
  OBVIOUS
<1>3. a = b * (a \div b) + (a % b)
  OBVIOUS
<1> QED BY <1>1, <1>2, <1>3

LEMMA TimesGrows == ASSUME NEW a \in Nat, NEW x \in Int, NEW y \in Int, x <= y PROVE a * x <= a * y
OBVIOUS

LEMMA DivGrows ==
  ASSUME NEW a \in Nat, NEW d \in Nat, NEW b \in Nat, b > 0, a <= d
  PROVE  a \div b <= d \div b
OBVIOUS

LEMMA HalfOfNat == ASSUME NEW a \in Nat PROVE 0 <= a \div 2
OBVIOUS

LEMMA DivOfSum ==
  ASSUME NEW b \in Nat, b > 0, NEW q \in Int, NEW r \in 0 .. b - 1
  PROVE  (b * q + r) \div b = q /\ (b * q + r) % b = r
OBVIOUS

LEMMA DivBounds ==
  ASSUME NEW a \in Nat, NEW b \in Nat, b > 0, NEW c \in Nat, a < b * c
  PROVE  a \div b \in Nat /\ a \div b < c
<1> DEFINE X == a \div b
           Y == b * X
           Z == b * c
<1>1. X \in Int /\ a % b \in 0 .. b - 1 /\ a = Y + (a % b) /\ Y \in Int /\ Z \in Int /\ a < Z
  BY DivMod
<1>2. X >= c => Y >= Z
  BY <1>1, TimesGrows
<1>3. X < 0 => Y <= -b
  <2>1. b * (-1) = -b
    OBVIOUS
  <2> QED BY <1>1, <2>1, TimesGrows
<1> HIDE DEF X, Y, Z
<1>4. X < c /\ X >= 0
  BY <1>1, <1>2, <1>3
<1> QED BY <1>1, <1>4 DEF X

-----------------------------------------------------------------------------
(* The arithmetic of the machine.                                           *)

LEMMA Halves ==
  ASSUME Machine
  PROVE  /\ RAND_MAX \in Nat /\ INT_MAX = RAND_MAX
         /\ Word = 2 * (RAND_MAX + 1)
         /\ Word \div 8 \in Nat /\ Word = 8 * (Word \div 8)
BY DEF Machine, RAND_MAX, INT_MAX

\* What an int can hold comes through unchanged, and what comes through is an
\* int.
LEMMA SignedInt ==
  ASSUME Machine, NEW x \in Int
  PROVE  /\ Signed(x) \in -(RAND_MAX + 1) .. RAND_MAX
         /\ x \in 0 .. RAND_MAX => Signed(x) = x
<1>1. x % Word \in 0 .. Word - 1
  BY DivMod DEF Machine
<1>2. x \in 0 .. RAND_MAX => x % Word = x
  BY Halves DEF Machine
<1> QED BY <1>1, <1>2, Halves DEF Signed, Unsigned

\* The mean is computed of an int: beyond INT_MAX the sum turns negative, or is
\* cut down, before it is divided.
LEMMA GaussianRange ==
  ASSUME Machine, NEW r1 \in Rand, NEW r2 \in Rand, NEW r3 \in Rand, NEW r4 \in Rand
  PROVE  Gaussian(r1, r2, r3, r4) \in -(Word \div 8) .. (Word \div 8) - 1
<1> DEFINE s == Signed(r1 + r2 + r3 + r4)
           e == Word \div 8
<1>1. s \in -(RAND_MAX + 1) .. RAND_MAX
  BY Halves, SignedInt DEF Rand
<1>2. e \in Nat /\ RAND_MAX = 4 * e - 1
  BY Halves
<1>3. Gaussian(r1, r2, r3, r4) = IF s >= 0 THEN s \div 4 ELSE -((-s) \div 4)
  BY DEF Gaussian, Quotient
<1> HIDE DEF s, e
<1>4. s \in -(4 * e) .. 4 * e - 1
  BY <1>1, <1>2, Halves
<1>5. (IF s >= 0 THEN s \div 4 ELSE -((-s) \div 4)) \in -e .. e - 1
  BY <1>2, <1>4
<1> QED BY <1>3, <1>5 DEF e

LEMMA WidthInRange == ASSUME Machine, p \in 1 .. Word - 1 PROVE Width \in 0 .. RAND_MAX
<1>1. RAND_MAX \in Nat /\ p \in Nat /\ p > 0
  BY Halves DEF Machine
<1>2. (RAND_MAX + 1) * 1 <= (RAND_MAX + 1) * p
  BY <1>1, TimesGrows
<1>3. RAND_MAX < p * (RAND_MAX + 1)
  BY <1>1, <1>2
<1>4. RAND_MAX \div p \in Nat /\ RAND_MAX \div p < RAND_MAX + 1
  BY <1>1, <1>3, DivBounds
<1> QED BY <1>1, <1>4 DEF Width

\* The values of bucket `from' are Width numbers that rand could return.
LEMMA BucketValue ==
  ASSUME Machine, p \in 1 .. Word - 1, Width # 0, NEW r \in Rand, NEW from \in 0 .. p - 1
  PROVE  InBucket(r, from) \in Rand /\ InBucket(r, from) \div Width = from
<1> DEFINE w == Width
           x == r % w
           y == w * from
<1>1. p \in Nat /\ p > 0 /\ RAND_MAX \in Nat /\ RAND_MAX \in Int /\ from \in Int
  BY Halves DEF Machine
<1>2. w \in Int /\ RAND_MAX = p * w + (RAND_MAX % p) /\ RAND_MAX % p \in 0 .. p - 1
  BY <1>1, DivMod DEF Width
<1>3. w \in Nat /\ w > 0
  BY WidthInRange, Halves
<1>4. x \in 0 .. w - 1
  BY <1>3, DivMod DEF Rand
<1>5. y \in Nat /\ y <= w * (p - 1)
  BY <1>1, <1>3, TimesGrows
<1>6. w * (p - 1) = p * w - w /\ p * w \in Int
  BY <1>1, <1>3
<1>7. x + from * w = y + x /\ y + x \in 0 .. RAND_MAX
  <2>1. x + from * w = y + x
    BY <1>1, <1>3, <1>4
  <2> HIDE DEF w, x, y
  <2>2. y + x \in 0 .. RAND_MAX
    BY <1>1, <1>2, <1>3, <1>4, <1>5, <1>6
  <2> QED BY <2>1, <2>2
<1>8. InBucket(r, from) = y + x
  BY <1>7, SignedInt DEF InBucket
<1>9. (y + x) \div w = from
  <2> HIDE DEF w, x
  <2> QED BY <1>1, <1>3, <1>4, DivOfSum
<1> QED BY <1>7, <1>8, <1>9 DEF Rand

-----------------------------------------------------------------------------
(* The choice of the bucket.                                                *)

LEMMA BlockOfPosition ==
  ASSUME n \in Nat, p \in Nat, p > 0, NEW c \in 0 .. n - 1
  PROVE  Block(c) \in 0 .. p - 1
<1> DEFINE x == c * p
           y == n * p
<1>1. x \in Nat /\ y = p * n /\ x = p * c
  OBVIOUS
<1>2. p * (c + 1) = x + p /\ p * (c + 1) <= p * n
  BY TimesGrows
<1> HIDE DEF x, y
<1>3. x < y
  BY <1>1, <1>2
<1>4. x \div n \in Nat /\ x \div n < p
  BY <1>1, <1>3, DivBounds DEF y
<1> QED BY <1>4 DEF Block, x

LEMMA BuckedSortedBucket ==
  ASSUME n \in Nat, p \in Nat, p > 0, NEW c \in 0 .. n - 1
  PROVE  BuckedSortedFrom(c) \in 0 .. p - 1
<1> DEFINE x == c * p * p
<1>1. x \in Int /\ n > 0
  OBVIOUS
<1>2. x \div n \in Int
  BY <1>1, DivMod
<1> QED BY <1>2, DivMod DEF BuckedSortedFrom

\* The odd buckets come first and the even ones follow; between them, for an
\* odd p, is the bucket -1 of an unsigned int.
LEMMA StaggeredBucket ==
  ASSUME Machine, n \in Nat, p \in 1 .. Word - 1, NEW c \in 0 .. n - 1
  PROVE  /\ StaggeredFrom(c) \in (0 .. p - 1) \cup {Word - 1}
         /\ Even(p) => StaggeredFrom(c) \in 0 .. p - 1
<1> DEFINE i == Block(c) + 1
           h == p \div 2
           x == IF i <= h THEN 2 * i - 1 ELSE 2 * i - p - 2
<1>1. i \in 1 .. p
  BY BlockOfPosition DEF Machine
<1>2. h \in Int /\ (p = 2 * h \/ p = 2 * h + 1) /\ (Even(p) <=> p = 2 * h)
  BY DEF Even, Machine
<1>3. StaggeredFrom(c) = x % Word
  BY DEF StaggeredFrom, Unsigned
<1> HIDE DEF i, h
<1>4. x \in 0 .. p - 1 \/ (x = -1 /\ p = 2 * h + 1)
  BY <1>1, <1>2 DEF Machine
<1> HIDE DEF x
<1>5. x \in 0 .. p - 1 => x % Word = x
  BY DEF Machine
<1>6. (-1) % Word = Word - 1
  BY DEF Machine
<1> QED BY <1>2, <1>3, <1>4, <1>5, <1>6 DEF Machine

LEMMA StaggeredWraps ==
  ASSUME Machine, p \in 1 .. Word - 1, Width # 0, NEW r \in Rand
  PROVE  InBucket(r, Word - 1) \in -Width .. -1
<1> DEFINE w == Width
           x == r % w
           z == x + (Word - 1) * w
<1>1. w \in 1 .. RAND_MAX
  BY WidthInRange, Halves
<1>2. x \in 0 .. w - 1
  BY <1>1, Halves, DivMod DEF Rand
<1>3. z = Word * (w - 1) + (Word - w + x)
  BY <1>1, <1>2 DEF Machine
<1> HIDE DEF x, w
<1>4. Word - w + x \in RAND_MAX + 1 .. Word - 1 /\ Word \in Nat /\ Word > 0
  BY <1>1, <1>2, Halves DEF Machine
<1>5. z % Word = Word - w + x
  <2>1. w - 1 \in Int /\ Word - w + x \in 0 .. Word - 1
    BY <1>1, <1>2, <1>4, Halves
  <2> HIDE DEF z
  <2> QED BY <1>3, <1>4, <2>1, DivOfSum
<1>6. InBucket(r, Word - 1) = x - w
  <2>1. InBucket(r, Word - 1) = Signed(z)
    BY DEF InBucket, z, w, x
  <2>2. Signed(z) = IF z % Word <= RAND_MAX THEN z % Word ELSE (z % Word) - Word
    BY Halves DEF Signed, Unsigned
  <2> HIDE DEF z
  <2>3. Signed(z) = x - w
    BY <1>1, <1>2, <1>4, <1>5, <2>2, Halves
  <2> QED BY <2>1, <2>3
<1>7. x - w \in -w .. -1
  BY <1>1, <1>2, Halves
<1> QED BY <1>6, <1>7 DEF w

-----------------------------------------------------------------------------
(* The invariant.                                                           *)

Arguments ==
  /\ n \in Nat /\ p \in 0 .. Word - 1 /\ g = 0
  /\ t \in Benchmarks \cup {"RD", "unknown"}

\* The checks of the command line let no generator divide by p = 0.
Generator ==
  /\ pc \in {"args", "fill", "usage", "crashed", "written"}
  /\ inputGenerator \in (Benchmarks \ {"gG"}) \cup {"NULL"}
  /\ inputGenerator \in {"B", "S"} => p > 0
  /\ Filled => inputGenerator # "NULL"
  /\ Filled /\ inputGenerator \in {"B", "S"} => Width # 0

Counters ==
  /\ counter \in 0 .. n /\ loccount \in Nat /\ m \in Nat /\ m > 0
  /\ pc = "args" => counter = 0 /\ loccount = 0 /\ m = 1 /\ inputGenerator = "NULL"

\* While m is 1 no value has been counted from the start again.
Duplicates ==
  inputGenerator = "DD" =>
    \/ m = 1 /\ loccount = counter /\ counter <= n \div 2
    \/ m > 1 /\ counter > n \div 2

IInv == Arguments /\ Generator /\ Counters /\ Duplicates /\ ValuesInRange /\ BucketsKept

LEMMA InitHolds == ASSUME Machine, Init PROVE IInv
BY Halves DEF Machine, Init, IInv, Arguments, Generator, Counters, Duplicates, ValuesInRange,
  BucketsKept, Filled, Benchmarks

LEMMA DuplicateKeeps ==
  ASSUME IInv, counter < n, inputGenerator = "DD", Duplicate, counter' = counter + 1
  PROVE  /\ loccount' \in Nat /\ m' \in Nat /\ m' > 0
         /\ \/ m' = 1 /\ loccount' = counter' /\ counter' <= n \div 2
            \/ m' > 1 /\ counter' > n \div 2
<1> DEFINE h == n \div 2
           over == loccount >= h \div m
<1>1. /\ n \in Nat /\ h \in Int /\ counter \in Nat
      /\ loccount \in Nat /\ m \in Nat /\ m > 0
      /\ m' = IF over THEN 2 * m ELSE m
      /\ loccount' = IF over THEN 1 ELSE loccount + 1
      /\ \/ m = 1 /\ loccount = counter /\ counter <= h
         \/ m > 1 /\ counter > h
  BY DEF IInv, Arguments, Counters, Duplicates, Duplicate
<1>2. m = 1 => h \div m = h
  BY <1>1
<1> HIDE DEF h
<1>3. loccount' \in Nat /\ m' \in Nat /\ m' > 0
  BY <1>1
<1>4. CASE m = 1
  <2>1. over => m' = 2 /\ counter' > h
    BY <1>1, <1>2, <1>4
  <2>2. ~over => m' = 1 /\ loccount' = counter' /\ counter' <= h
    BY <1>1, <1>2, <1>4
  <2> QED BY <1>3, <2>1, <2>2 DEF h
<1>5. CASE m > 1
  <2>1. m' > 1 /\ counter' > h
    BY <1>1, <1>5
  <2> QED BY <1>3, <2>1 DEF h
<1> QED BY <1>1, <1>4, <1>5

\* What a call returns, and the bucket it has chosen for it.
LEMMA FillKeeps == ASSUME Machine, IInv, Fill PROVE ValuesInRange' /\ BucketsKept'
<1>1. /\ n \in Nat /\ p \in 0 .. Word - 1 /\ p \in Int /\ counter \in 0 .. n - 1 /\ Word \in Nat
      /\ pc = "fill" /\ pc' = pc /\ n' = n /\ p' = p /\ g' = g /\ inputGenerator' = inputGenerator
      /\ counter' = counter + 1 /\ counter' - 1 = counter
      /\ inputGenerator \in Benchmarks \ {"gG"}
      /\ inputGenerator \in {"B", "S"} => p > 0 /\ Width # 0
  BY DEF Machine, IInv, Arguments, Generator, Counters, Fill, Crashes, argVars
<1>2. RAND_MAX \in Nat /\ RAND_MAX' = RAND_MAX /\ Width' = Width /\ Even(p)' = Even(p)
  BY <1>1, Halves DEF RAND_MAX, INT_MAX, Width, Even
<1>3. From(counter - 1)' = From(counter)
  BY <1>1 DEF From, BuckedSortedFrom, StaggeredFrom, gGroupFrom, Block, Unsigned
<1>4. CASE inputGenerator \in {"U", "Z"}
  <2>1. value' \in Rand
    BY <1>4, Halves DEF Fill, Generate, Rand
  <2> QED BY <1>1, <1>2, <1>4, <2>1 DEF ValuesInRange, BucketsKept, Rand, RAND_MAX, INT_MAX
<1>5. CASE inputGenerator = "G"
  <2>1. value' \in -(Word \div 8) .. (Word \div 8) - 1
    BY <1>5, GaussianRange DEF Fill, Generate
  <2> QED BY <1>1, <1>5, <2>1 DEF ValuesInRange, BucketsKept
<1>6. CASE inputGenerator = "DD"
  BY <1>1, <1>6 DEF ValuesInRange, BucketsKept
<1>7. CASE inputGenerator \in {"B", "S"}
  <2>1. PICK r \in Rand : value' = InBucket(r, From(counter))
    BY <1>7 DEF Fill, Generate
  <2>2. p \in 1 .. Word - 1 /\ Width # 0 /\ p \in Nat /\ p > 0
    BY <1>1, <1>7
  <2>3. CASE inputGenerator = "B"
    <3>1. From(counter) \in 0 .. p - 1
      BY <1>1, <2>2, <2>3, BuckedSortedBucket DEF From
    <3>2. value' \in Rand /\ value' \div Width = From(counter)
      BY <2>1, <2>2, <3>1, BucketValue
    <3>3. ValuesInRange'
      BY <1>1, <2>3, <3>2 DEF ValuesInRange, Rand, RAND_MAX, INT_MAX
    <3>4. BucketsKept'
      BY <1>1, <1>2, <1>3, <2>3, <3>1, <3>2 DEF BucketsKept
    <3> QED BY <3>3, <3>4
  <2>4. CASE inputGenerator = "S"
    <3>1. From(counter) = StaggeredFrom(counter)
      BY <2>4 DEF From
    <3>2. /\ From(counter) \in (0 .. p - 1) \cup {Word - 1}
          /\ Even(p) => From(counter) \in 0 .. p - 1
      BY <1>1, <2>2, <3>1, StaggeredBucket
    <3>3. From(counter) \in 0 .. p - 1 => value' \in Rand /\ value' \div Width = From(counter)
      BY <2>1, <2>2, BucketValue
    <3>4. From(counter) = Word - 1 => value' \in -Width .. -1
      BY <2>1, <2>2, StaggeredWraps
    <3>5. Width \in Nat
      BY <2>2, WidthInRange, Halves
    <3>6. value' \in -Width .. RAND_MAX
      BY <1>2, <3>2, <3>3, <3>4, <3>5 DEF Rand
    <3>7. ValuesInRange'
      BY <1>1, <1>2, <2>4, <3>2, <3>3, <3>6 DEF ValuesInRange, Rand
    <3>8. BucketsKept'
      BY <1>1, <1>2, <1>3, <2>4, <3>2, <3>3 DEF BucketsKept
    <3> QED BY <3>7, <3>8
  <2> QED BY <1>7, <2>3, <2>4
<1> QED BY <1>1, <1>4, <1>5, <1>6, <1>7 DEF Benchmarks

LEMMA StepHolds == ASSUME Machine, IInv, [Next]_vars PROVE IInv'
<1> USE DEF IInv
<1>1. CASE ReadArgument
  <2>1. Arguments'
    BY <1>1 DEF ReadArgument, Machine, Arguments, argVars
  <2>2. /\ pc' = "args" /\ inputGenerator' = "NULL" /\ counter' = 0 /\ loccount' = 0 /\ m' = 1
    BY <1>1 DEF ReadArgument, Counters, duplicateVars
  <2>3. ~Filled' /\ n' \in Nat
    BY <2>1, <2>2 DEF Filled, Arguments
  <2>4. Generator' /\ Counters' /\ Duplicates'
    BY <2>2, <2>3 DEF Generator, Counters, Duplicates
  <2>5. ValuesInRange' /\ BucketsKept'
    BY <2>3 DEF ValuesInRange, BucketsKept
  <2> QED BY <2>1, <2>4, <2>5
<1>2. CASE PrintUsage
  BY <1>2 DEF PrintUsage, Arguments, Generator, Counters, Duplicates, ValuesInRange,
    BucketsKept, Filled, argVars, duplicateVars
<1>3. CASE Construct
  <2>1. Arguments' /\ Counters'
    BY <1>3 DEF Construct, Arguments, Counters, argVars, duplicateVars
  <2>2. counter' = 0 /\ loccount' = 0 /\ m' = 1 /\ n' \in Nat
    BY <1>3 DEF Construct, Arguments, Counters, argVars, duplicateVars
  <2>3. Generator'
    BY <1>3, <2>2 DEF Construct, Refused, Arguments, Generator, Filled, Benchmarks, argVars
  <2>4. Duplicates' /\ ValuesInRange' /\ BucketsKept'
    <3>1. 0 <= n' \div 2
      BY <2>2, HalfOfNat
    <3>2. ~Filled'
      BY <2>2 DEF Filled
    <3>3. Duplicates'
      BY <2>2, <3>1 DEF Duplicates
    <3> QED BY <3>2, <3>3 DEF ValuesInRange, BucketsKept
  <2> QED BY <2>1, <2>3, <2>4
<1>4. CASE Crash
  BY <1>4 DEF Crash, Arguments, Generator, Counters, Duplicates, ValuesInRange,
    BucketsKept, Filled, argVars, duplicateVars
<1>5. CASE Fill
  <2>1. ValuesInRange' /\ BucketsKept'
    BY <1>5, FillKeeps
  <2>2. Arguments'
    BY <1>5 DEF Fill, Arguments, argVars
  <2>3. Generator'
    BY <1>5 DEF Fill, Crashes, Arguments, Generator, Filled, Width, RAND_MAX, INT_MAX, Benchmarks, argVars
  <2>4. counter < n /\ counter' = counter + 1 /\ counter' \in 0 .. n' /\ n' = n
    BY <1>5 DEF Fill, Arguments, Counters, argVars
  <2>5. inputGenerator' = inputGenerator /\ pc' = "fill" /\ inputGenerator \in Benchmarks
    BY <1>5 DEF Fill, Crashes, Generator
  <2>6. CASE inputGenerator = "DD"
    <3>1. Duplicate
      BY <1>5, <2>6 DEF Fill, Generate
    <3> QED BY <2>1, <2>2, <2>3, <2>4, <2>5, <2>6, <3>1, DuplicateKeeps DEF Counters, Duplicates
  <2>7. CASE inputGenerator # "DD"
    <3>1. UNCHANGED duplicateVars
      BY <1>5, <2>7 DEF Fill, Generate
    <3> QED BY <2>1, <2>2, <2>3, <2>4, <2>5, <2>7, <3>1 DEF Counters, Duplicates, duplicateVars
  <2> QED BY <2>6, <2>7
<1>6. CASE Write
  BY <1>6 DEF Write, Arguments, Generator, Counters, Duplicates, ValuesInRange, BucketsKept,
    Filled, Width, From, BuckedSortedFrom, StaggeredFrom, gGroupFrom, Block, argVars, duplicateVars
<1>7. CASE UNCHANGED vars
  BY <1>7 DEF vars, Arguments, Generator, Counters, Duplicates, ValuesInRange, BucketsKept,
    Filled, Width, From, BuckedSortedFrom, StaggeredFrom, gGroupFrom, Block, argVars, duplicateVars
<1> QED BY <1>1, <1>2, <1>3, <1>4, <1>5, <1>6, <1>7 DEF Next

LEMMA Invariance == ASSUME Machine PROVE Spec => []IInv
<1>1. Init => IInv
  BY InitHolds
<1>2. IInv /\ [Next]_vars => IInv'
  BY StepHolds
<1> QED BY <1>1, <1>2, PTL DEF Spec

-----------------------------------------------------------------------------
(* The theorems.                                                            *)

\* main never fills a file by gGroup or without a generator.
THEOREM GroupsAreOutOfReach == ASSUME Machine PROVE Spec => []NoGroups
<1>1. IInv => NoGroups
  BY DEF IInv, Generator, NoGroups
<1> QED BY <1>1, Invariance, PTL

\* operator() of each generator stays in its range.
THEOREM ValuesAreInRange == ASSUME Machine PROVE Spec => []ValuesInRange
<1>1. IInv => ValuesInRange
  BY DEF IInv
<1> QED BY <1>1, Invariance, PTL

\* BuckedSorted and, for an even p, Staggered put each value into the bucket of
\* its position.
THEOREM BucketsAreKept == ASSUME Machine PROVE Spec => []BucketsKept
<1>1. IInv => BucketsKept
  BY DEF IInv
<1> QED BY <1>1, Invariance, PTL

\* DeterministicDuplicates halves its value after n / 2 calls and not before.
THEOREM DuplicatesAreHalved == ASSUME Machine PROVE Spec => []HalfDuplicates
<1>1. IInv => HalfDuplicates
  BY DEF IInv, Arguments, Counters, Duplicates, HalfDuplicates
<1> QED BY <1>1, Invariance, PTL

\* For an even p Staggered gives no bucket to two blocks.
THEOREM StaggeredIsInjective ==
  ASSUME Machine, n \in Nat, p \in 1 .. Word - 1, Even(p),
         NEW c \in 0 .. n - 1, NEW d \in 0 .. n - 1, StaggeredFrom(c) = StaggeredFrom(d)
  PROVE  Block(c) = Block(d)
<1> DEFINE i == Block(c) + 1
           j == Block(d) + 1
           h == p \div 2
           x == IF i <= h THEN 2 * i - 1 ELSE 2 * i - p - 2
           y == IF j <= h THEN 2 * j - 1 ELSE 2 * j - p - 2
<1>1. i \in 1 .. p /\ j \in 1 .. p
  BY BlockOfPosition DEF Machine
<1>2. h \in Int /\ p = 2 * h /\ p \in 1 .. Word - 1 /\ Word \in Nat
  BY DEF Machine, Even
<1>3. x % Word = y % Word
  BY DEF StaggeredFrom, Unsigned
<1> HIDE DEF i, j, h
<1>4. x \in 0 .. p - 1 /\ y \in 0 .. p - 1 /\ (x = y => i = j)
  BY <1>1, <1>2
<1> HIDE DEF x, y
<1>5. ASSUME NEW z \in 0 .. p - 1 PROVE z % Word = z
  BY <1>2
<1>6. x = y
  BY <1>3, <1>4, <1>5
<1>7. i = j
  BY <1>4, <1>6
<1>8. Block(c) \in Int /\ Block(d) \in Int
  BY BlockOfPosition DEF Machine
<1> QED BY <1>7, <1>8 DEF i, j

\* For an odd p it does: no block is given an even bucket.
THEOREM StaggeredSkipsHalf ==
  ASSUME Machine, n \in Nat, p \in 1 .. Word - 1, ~Even(p), NEW c \in 0 .. n - 1
  PROVE  ~Even(StaggeredFrom(c))
<1> DEFINE i == Block(c) + 1
           h == p \div 2
           x == IF i <= h THEN 2 * i - 1 ELSE 2 * i - p - 2
<1>1. i \in 1 .. p
  BY BlockOfPosition DEF Machine
<1>2. h \in Int /\ p = 2 * h + 1 /\ p \in 1 .. Word - 1
  BY DEF Machine, Even
<1>3. StaggeredFrom(c) = x % Word
  BY DEF StaggeredFrom, Unsigned
<1> HIDE DEF i, h
<1>4. x \in -1 .. p - 1 /\ x % 2 = 1
  BY <1>1, <1>2
<1> HIDE DEF x
<1>5. x % Word = IF x = -1 THEN Word - 1 ELSE x
  BY <1>2, <1>4 DEF Machine
<1>6. (Word - 1) % 2 = 1
  BY DEF Machine
<1> QED BY <1>3, <1>4, <1>5, <1>6 DEF Even

=============================================================================
