---------------------------- MODULE MalleableSort ----------------------------
(***************************************************************************)
(* malms::sort (malms/threadpool_mergesort.h): three phases of packets, one *)
(* blockuntildone after each.  SortPakets copy and sort a segment of the    *)
(* data into a buffer, SplitPakets compute one row of splitters each, and   *)
(* MergePakets write what lies between two rows back into the data.         *)
(*                                                                          *)
(* The queue is taken at its word, as JobBarrier; WorkQueue is shown to     *)
(* keep it.  Any number of packets runs at a time, and the effect of one is *)
(* a single step: NoConflict shows that nobody can tell.                    *)
(***************************************************************************)
EXTENDS Splitting

CONSTANTS
  Sizes,  \* bound: the lengths of the sequences sort is called with
  Queue,  \* the job the packets are pushed to
  Caller, \* the thread that calls sort
  NULL

ASSUME MalleableSortAssumption ==
  /\ Sizes \subseteq Nat
  /\ Queue # NULL
  /\ NULL \notin Seq(Values) \cup Row

VARIABLES
  input,      \* history: [begin, end) when sort was called
  data,       \* [begin, end)
  buffers,    \* buffers[i]: the run packet i has made, or NULL
  splitters,  \* the rows 0 .. num_of_pakets, or NULL
  pc,         \* where sort is
  i,          \* its loop variable
  overrun,    \* a merge has run past its upper splitters
  looping,    \* the SplitPakets whose reduce_split repeats itself for ever
  todo, doing, done, barrier  \* the queue

queueVars == <<todo, doing, done, barrier>>
vars == <<input, data, buffers, splitters, pc, i, overrun, looping, todo, doing, done, barrier>>

Packets ==
  [kind : {"sort", "merge"}, paket : Pakets]
    \cup [kind : {"split"}, paket : 0 .. num_of_pakets - 2]

Packet(kind, l) == [kind |-> kind, paket |-> l]

JB == INSTANCE JobBarrier WITH
  Queues <- {Queue}, Items <- Packets, Clients <- {Caller}, NoQueue <- NULL

\* end - begin.
n == Len(input)

paket_size(l) == n \div num_of_pakets + (IF l < n % num_of_pakets THEN 1 ELSE 0)

\* begin_i - begin when packet l is pushed.
Offset(l) == Sums([j \in Pakets |-> paket_size(j)])[l]

Segment(l) == Offset(l) + 1 .. Offset(l + 1)

Init ==
  /\ \E size \in Sizes : input \in [1 .. size -> Values]
  /\ data = input
  /\ buffers = [l \in Pakets |-> NULL]
  /\ splitters = [l \in 0 .. num_of_pakets |-> NULL]
  /\ pc = "sort"
  /\ i = 0
  /\ overrun = FALSE
  /\ looping = {}
  /\ JB!Init

-----------------------------------------------------------------------------
(* The calling thread.                                                      *)

\* One turn of a loop that pushes count packets of the phase's kind.
Push(kind, count) ==
  /\ pc = kind
  /\ i < count
  /\ JB!Submit(Queue, Packet(kind, i))
  /\ i' = i + 1
  /\ UNCHANGED <<input, data, buffers, splitters, pc, overrun, looping>>

PushSort == Push("sort", num_of_pakets)

\* Faulty variant: a row is also computed for the last packet.
PushSplitAll == Push("split", num_of_pakets)

PushSplit == Push("split", num_of_pakets - 1)
PushMerge == Push("merge", num_of_pakets)

\* Faulty variant: the phases are taken to have the same number of packets.
PushedAll == i = num_of_pakets

Pushed == i = (IF pc = "split" THEN num_of_pakets - 1 ELSE num_of_pakets)

BlockUntilDone ==
  /\ pc \in {"sort", "split", "merge"}
  /\ Pushed
  /\ JB!Wait(Caller, Queue)
  /\ UNCHANGED <<input, data, buffers, splitters, pc, i, overrun, looping>>

\* The first and the last row are the begins and the ends of the runs.
Sorted ==
  /\ pc = "sort"
  /\ JB!Return(Caller, Queue)
  /\ splitters' = [splitters EXCEPT
       ![0] = [j \in Pakets |-> 0],
       ![num_of_pakets] = [j \in Pakets |-> paket_size(j)]]
  /\ pc' = "split"
  /\ i' = 0
  /\ UNCHANGED <<input, data, buffers, overrun, looping>>

Split ==
  /\ pc = "split"
  /\ JB!Return(Caller, Queue)
  /\ pc' = "merge"
  /\ i' = 0
  /\ UNCHANGED <<input, data, buffers, splitters, overrun, looping>>

\* Faulty variant: sort does not wait for the output.
MergedUnwaited ==
  /\ pc = "merge"
  /\ barrier[Caller] = Queue
  /\ barrier' = [barrier EXCEPT ![Caller] = NULL]
  /\ UNCHANGED <<todo, doing, done>>
  /\ pc' = "cleanup"
  /\ UNCHANGED <<input, data, buffers, splitters, i, overrun, looping>>

Merged ==
  /\ pc = "merge"
  /\ JB!Return(Caller, Queue)
  /\ pc' = "cleanup"
  /\ UNCHANGED <<input, data, buffers, splitters, i, overrun, looping>>

Cleanup ==
  /\ pc = "cleanup"
  /\ buffers' = [l \in Pakets |-> NULL]
  /\ splitters' = [l \in 0 .. num_of_pakets |-> NULL]
  /\ pc' = "returned"
  /\ UNCHANGED <<input, data, i, overrun, looping, queueVars>>

-----------------------------------------------------------------------------
(* The packets, executed by the workers of the queue.                       *)

Take(packet) ==
  /\ JB!Start(Queue, packet)
  /\ UNCHANGED <<input, data, buffers, splitters, pc, i, overrun, looping>>

\* Faulty variant: the last element is left out of the sort.
SortPaketShort(l) ==
  /\ JB!Complete(Queue, Packet("sort", l))
  /\ LET run == SubSeq(data, Offset(l) + 1, Offset(l + 1))
     IN buffers' = [buffers EXCEPT
          ![l] = IF run = <<>> THEN run
                 ELSE Append(Sort(SubSeq(run, 1, Len(run) - 1)), run[Len(run)])]
  /\ UNCHANGED <<input, data, splitters, pc, i, overrun, looping>>

SortPaket(l) ==
  /\ JB!Complete(Queue, Packet("sort", l))
  /\ buffers' = [buffers EXCEPT ![l] = Sort(SubSeq(data, Offset(l) + 1, Offset(l + 1)))]
  /\ UNCHANGED <<input, data, splitters, pc, i, overrun, looping>>

SplitPaket(l) ==
  /\ l \notin looping
  /\ JB!Complete(Queue, Packet("split", l))
  /\ \E row \in reduce_split(buffers, Offset(l + 1)) :
       splitters' = [splitters EXCEPT ![l + 1] = row]
  /\ UNCHANGED <<input, data, buffers, pc, i, overrun, looping>>

\* The packet stays with its worker.
SplitPaketHangs(l) ==
  /\ Packet("split", l) \in doing[Queue]
  /\ l \notin looping
  /\ Hangs(buffers, Offset(l + 1))
  /\ looping' = looping \cup {l}
  /\ UNCHANGED <<input, data, buffers, splitters, pc, i, overrun, queueVars>>

Inverted(l) == \E j \in Pakets : splitters[l][j] > splitters[l + 1][j]

\* Faulty variant: buffer_curPos is not advanced.
PlaceStuck(l) == 0

\* buffer_curPos - begin when packet l is pushed.
Place(l) == Offset(l)

\* Where packet l writes: from its place on, as many as lie between its rows.
Output(l) == Place(l) + 1 .. Place(l) + Total(splitters[l + 1]) - Total(splitters[l])

MergePaket(l) ==
  /\ JB!Complete(Queue, Packet("merge", l))
  /\ ~Inverted(l)
  /\ LET merged == multiwaymerge(buffers, splitters[l], splitters[l + 1])
     IN data' = [x \in DOMAIN data |->
                   IF x \in Output(l) THEN merged[x - Place(l)] ELSE data[x]]
  /\ UNCHANGED <<input, buffers, splitters, pc, i, overrun, looping>>

\* multiwaymerge tests the splitters with !=: a run that starts above its
\* upper splitter is read beyond its end.
MergePaketOverruns(l) ==
  /\ JB!Complete(Queue, Packet("merge", l))
  /\ Inverted(l)
  /\ overrun' = TRUE
  /\ UNCHANGED <<input, data, buffers, splitters, pc, i, looping>>

-----------------------------------------------------------------------------

CallerStep ==
  \/ PushSort \/ PushSplit \/ PushMerge
  \/ BlockUntilDone
  \/ Sorted \/ Split \/ Merged
  \/ Cleanup

PacketStep ==
  \/ \E packet \in todo[Queue] : Take(packet)
  \/ \E l \in Pakets : SortPaket(l) \/ MergePaket(l) \/ MergePaketOverruns(l)
  \/ \E l \in 0 .. num_of_pakets - 2 : SplitPaket(l) \/ SplitPaketHangs(l)

Next == ~overrun /\ (CallerStep \/ PacketStep)

Spec == Init /\ [][Next]_vars

\* The calling thread runs, and the workers execute what is pushed
\* (WorkQueue's PacketsRun).
FairSpec == Spec /\ WF_vars(~overrun /\ CallerStep) /\ WF_vars(~overrun /\ PacketStep)

-----------------------------------------------------------------------------
(* Properties. *)

TypeOK ==
  /\ data \in [1 .. n -> Values]
  /\ buffers \in [Pakets -> Seq(Values) \cup {NULL}]
  /\ splitters \in [0 .. num_of_pakets -> Row \cup {NULL}]
  /\ pc \in {"sort", "split", "merge", "cleanup", "returned"}
  /\ i \in 0 .. num_of_pakets
  /\ overrun \in BOOLEAN
  /\ looping \subseteq 0 .. num_of_pakets - 2
  /\ todo[Queue] \cup doing[Queue] \cup done \subseteq Packets

\* What a packet reads and writes while it is executed.
Reads(packet) ==
  LET l == packet.paket
  IN CASE packet.kind = "sort" -> {<<"data", x>> : x \in Segment(l)}
       [] packet.kind = "split" ->
            {<<"buffer", j>> : j \in Pakets} \cup {<<"row", 0>>, <<"row", num_of_pakets>>}
       [] packet.kind = "merge" ->
            {<<"buffer", j>> : j \in Pakets} \cup {<<"row", l>>, <<"row", l + 1>>}

Writes(packet) ==
  LET l == packet.paket
  IN CASE packet.kind = "sort" -> {<<"buffer", l>>}
       [] packet.kind = "split" -> {<<"row", l + 1>>}
       [] packet.kind = "merge" -> {<<"data", x>> : x \in Output(l)}

\* Whatever a packet reads is there: the runs are complete before a row is
\* computed, both rows before the runs between them are merged, and nothing is
\* deleted under a packet that is still being executed.
Exists(location) ==
  CASE location[1] = "data" -> TRUE
    [] location[1] = "buffer" -> buffers[location[2]] # NULL
    [] location[1] = "row" -> splitters[location[2]] # NULL

ReadsAreReady == \A packet \in doing[Queue] : \A location \in Reads(packet) : Exists(location)

\* No packet writes what another one reads or writes at the same time; in
\* particular the merges, which write in place, share no position.
NoConflict ==
  \A a, b \in doing[Queue] : a # b => Writes(a) \cap (Reads(b) \cup Writes(b)) = {}

Ordered == Sort(input)

\* "all elements in the lower halves of the sequences are smaller or equal to
\* elements in the upper halves", and "the number of elements in lower halves
\* are equal to prefix_size": each row by itself is right, with equal values
\* too and for every choice of pivots.
RowsSplit ==
  pc \in {"split", "merge"} =>
    \A l \in 1 .. num_of_pakets - 1 : splitters[l] # NULL =>
      /\ Total(splitters[l]) = Offset(l)
      /\ \A j, m \in Pakets :
           splitters[l][j] > 0 /\ splitters[l][m] < Len(buffers[m]) =>
             buffers[j][splitters[l][j]] <= buffers[m][splitters[l][m] + 1]

\* Every median_split leaves less to decide, whatever it is left with by those
\* before it, and keeps the row within it, except where half of what is left are
\* single elements of the least value: there it changes nothing, and the loop of
\* reduce_split does not end.
ReductionShrinks ==
  pc = "split" /\ i = 0 =>
    \A l \in 1 .. num_of_pakets - 1 :
      \A r \in Reductions(buffers)[InitialReduction(buffers, Offset(l))] :
        r.N > num_of_pakets + Slack =>
          \A t \in median_split(buffers, r) :
            IF LeastSingles(buffers, r) THEN t = r ELSE t.N < r.N /\ t.prefix \in 1 .. t.N

\* A merge runs past its splitters only when two rows cut the same value: the
\* last element below the lower row equals the first above the upper one.
OverrunIsATie ==
  \A l \in Pakets :
    Packet("merge", l) \in doing[Queue] /\ Inverted(l) =>
      l > 0 /\ l < num_of_pakets - 1 /\ Ordered[Offset(l)] = Ordered[Offset(l + 1) + 1]

\* Without such an overrun the caller gets its elements in order, in place.
SortsUnlessOverrun == pc = "returned" => data = Ordered

\* "sorting the sequence given by [begin,end)": for every sequence.
SortsEverything == ~overrun /\ (pc = "returned" => data = Ordered)

\* sort returns, unless one of its reduce_splits does not.
SortReturns == <>(pc = "returned" \/ overrun \/ looping # {})

=============================================================================
