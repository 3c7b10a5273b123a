# A verification development for malms

`malms` sorts on cores that come and go. Threads pinned to cores take packets
from the queue of a job; a signal from outside takes a core away or gives it
back, and its thread stops after the packet it is working on. This directory
holds TLA+ models of that program, the TLC runs that check them and the
theorems about them that TLAPS has proved.

Source paths are relative to the repository.

## 1. The system

| component | state it keeps | operations | talks to |
|---|---|---|---|
| work queue, `malms/threadpool/workqueue.h` | deque `q`, counters `active` and `sleeping`, flag `destruct`; mutex `mut`, condition variables `cd` (workers) and `external_cd` (clients) | `push`, `wait_and_workOne`, `blockuntildone`, `releaseWaitingThreads`, destructor | called by pool threads, by whoever generates packets and by the scheduler |
| scheduler, `malms/threadpool/maleablescheduler.h` | job list, `schedule[core]`, `sleeping`, `destruct`, a mutex and a condition variable per pool thread; the singleton pointer | `newJob`, `deleteJob`, `scheduleJob`, `scheduleToFirst`, `scheduleToAll`, constructor and destructor; `ThreadWork`, the loop of a pool thread | owns queues and threads |
| signal thread, same file | `availableCores`, `new_availableCores`, `receivedSignal`, `receivedStopSignal` | `sighandler`, `signalthreadfunction` | realtime signals from `sendblockcore` or `dynloadcores`; notifies pool threads |
| mergesort, `malms/threadpool_mergesort.h` and the packets | `buffers` (sorted runs), `splitters` (rows of iterators), the sequence itself | `sort`: three phases of packets, each closed by `blockuntildone` | pushes packets to one queue |
| splitting and merging, `malms/median_split.h`, `malms/loser_merge.h` | none | `reduce_split`, `median_split`, `quickselect`, `partitionPivot`, `multiwaymerge` | called by packets |
| load driver, `timing/dynloadcores.cpp` | per core `thread_active`, `thread_quit`; `numthreads_sleeping`, `quit`, `pidofsort` | `thread_func`, `controlthreadfunc` with three load patterns, `main` | forks `timesortfile`, gets its start signal, sends it block and unblock signals |
| `timing/timesortfile.cpp` | the input | read, create scheduler and job, signal the driver, sort | the driver's child; its signal thread hears driver and users |
| `utils/sendblockcore.cpp` | none | one signal per core of its list | signal thread |
| `utils/generatesortinput.cpp`, `utils/sorting_benchmarks.h` | per generator a counter of its calls | one value per call | writes the file `timesortfile` reads |
| other `utils/*`, tests, scripts | | see section 8 | |

What is hard about it: pool threads, signal thread and the owner of the
scheduler meet in three kinds of mutex and four kinds of condition variable,
and a good part of the shared state (`destruct` of the queue, `schedule`,
`availableCores`) is also read or written outside of them; a destructor has to
collect threads that may be anywhere; signals come in an order nobody chose, and
at moments at which there is no scheduler, or half of one, to receive them;
and the splitters, computed independently of each other, have to fit together.
`PROJECT.json` lists these hazards line by line.

What makes each part correct:

* queue: a barrier that opens when everything is done, and does open; no packet
  lost, executed twice or stranded; a release that returns, with nobody inside;
* scheduler: no wake-up lost between the decision to sleep and the wait; a core
  that is blocked gets at most one more packet; nothing freed under a thread;
  the destructor returns;
* signal thread: the pool sees what was last commanded;
* singleton: one scheduler at a time, whole whenever anybody works on it;
* sort: packets of a phase do not interfere, each row of splitters is right,
  the result is sorted, the call returns;
* driver: cores are loaded as the pattern says, the scheduler is told in time,
  `main` returns; together with the sort, the pool leaves the loaded cores and
  nothing ends the process;
* input: each value is one that the definition of its benchmark allows.

## 2. Modules

    JobBarrier        what a job queue promises
      ^ implemented by                ^ used by
    WorkQueue                       MalleableSort  --EXTENDS-->  Splitting
      ^ INSTANCE
    MaleableScheduler --INSTANCE--> SignalThread <--EXTENDS-- InformedSort
                                                                | INSTANCE
    SchedulerSingleton              GenerateSortInput           v
                                                            DynLoadCores

A module `XProofs` EXTENDS `X` and holds theorems about it: `WorkQueueProofs`
(with the proof that the queue implements `JobBarrier`), `MaleableSchedulerProofs`
(which instantiates `WorkQueueProofs`), `SchedulerSingletonProofs`,
`DynLoadCoresProofs`, `InformedSortProofs` (which begins with the theorems about
`SignalThread` and instantiates `DynLoadCoresProofs`), `GenerateSortInputProofs`,
`SplittingProofs` and `MalleableSortProofs` (which extends `SplittingProofs`).

`MC*.tla` are the instances TLC is started on; they add symmetry sets only.
Definitions called "Faulty variant" are mutated forms of the definition that
follows them. No specification uses them; they are there to show that each
property notices a plausible mistake (`PROJECT.json`, "mutants").

**WorkQueue.** All critical sections of `workqueue.h` are short, so each is one
action, named for what happens in it: `EnterTake`, `EnterSleep`, `WakeTake`,
`WakeSleep`, `WakeLeave`, `Finish` for a worker, `Push`, `BudReturn`, `BudWait`,
`Release`, `RelReturn`, `RelWait` for a client. `Enter` is the test of
`destruct` at line 58, which is made without the mutex. `wpc` and `cpc` say
where a thread is, "waiting" being blocked in a condition variable and "woken"
being notified but without the mutex. The loop's `active--` before the wait and
`active++` after it cancel against the `active++` before it, so `active` counts
exactly the threads that execute a packet whenever the mutex is free.

**SignalThread.** The thread blocks signals everywhere but in `sigsuspend`, so
the handler is an action of its own (`HandleBlock`, `HandleUnblock`,
`HandleStop`), the pass over the cores takes one step per core, and the kernel
is two queues of pending signals of which SIGBLOCKCORE's goes first. A signal
carries one of `Numbers`: a core, `p` for every number that is too large, -1 for
every negative one. The handler compares with p only (`Told`), so that -1 is
written as well, in front of the array; what the process does after that is
undefined, and the model stops there (`InBounds`). Histories: `command`
is what each core was last told, `overtaken` the cores whose last block was
sent while an unblock was pending.

**MaleableScheduler.** Composes the two and adds pool threads, owner and
destructor. `thread_mutex[i]` is held across several steps, while others change
`schedule` and `availableCores` without it, so it is a variable. `loop[i]` is
the pool thread's position: `top` (88), `test` (90), `count` (91-94), `park`
(95), `parked`, `woken` (95-98), `take` (101-106), `call` and `inqueue` (108).
`mpc` is the owner's; one value per loop of the constructor, the destructor,
`deleteJob` and the schedule functions. `Controller` sends signals at any time
between construction and destruction, for cores there are (other numbers are
the subject of `InformedSort`). Its construction begins when all threads
have been started, and waits for the pool. A call through a null or a deleted job is
undefined behaviour, and the model stops there (`crashed`).

**SchedulerSingleton.** What comes before: `singleton()` step by step, by the
main thread or inside a handler, `init` from the fields over the start of the
signal thread (`Make`) to the vectors and the pool (`Build`), `deleteSingleton()`
and the destructor's join. An object is identified with its signal thread. A
block or unblock signal is sent to the process and goes to any signal thread in
`sigsuspend`; the stop signal goes to one thread. The handler writes into the
object that `singleton()` returned, which need not be the one whose thread it
runs on. A write through NULL or into a freed object stops the model (`wild`).
The history `untimely` is set when a signal is sent while there is no instance
or it is being deleted, or is pending when its deletion begins. What the signals
mean and what the pool does is left to the two other models of the scheduler.

**Splitting.** The algorithms on iterators, as functions on positions:
iterator k of run j is the number of elements of run j before it. `rand()` and
the order in which `std::sort` leaves equal elements become sets of results.
Recursion is written as recursive functions of one argument. `PartitionCall` and
`QuickselectCall` say for which arguments the scans and loops of the code stay
within their sequence; that they are called for such arguments only is part of
the proofs.

**MalleableSort.** `sort` over the abstract queue `JobBarrier`, one action per
packet execution. That the effect of a packet is one step is justified by
`NoConflict`, an invariant of the same run: packets that run at the same time
touch nothing in common. A merge whose lower splitter lies above the upper one
is undefined behaviour (`overrun`), and the model stops there. A SplitPaket whose
`reduce_split` repeats itself for ever joins `looping` (`SplitPaketHangs`) and is
never done; the others go on.

**DynLoadCores.** Threads, control thread, main and the forked process.
`loadcore` and `unloadcore` have two steps each, in opposite order. The
patterns are data: `Start` and `Body` list the calls between two `nanosleep`s.

**InformedSort.** A timing session: driver, sorting process and users. Every
`sigqueue` of the driver (`LoadTellsSort`, `UnloadTellsSort`) and of
`sendblockcore` (`SendBlockCore`, 0 excluded as there, negative numbers not) goes through
`Receives`: with a scheduler in the process it becomes a pending signal of
`SignalThread`; without one it ends the process, and `fatal` remembers who sent
it. `Construct` and `StartDriver` are `timesortfile`; the order of the two is the
code's for MALMS, and with any other algorithm there is only the second. Of
the load threads only `Ready` is kept, since nothing else of them reaches the
control thread before the end of the sort.

**GenerateSortInput.** `main` and one call of a generator per step. Values of
`rand` are chosen by `\E`; `Unsigned` and `Signed` are the conversions modulo
`Word` = 2^32 that the C expressions imply, in the places where they happen.
The module has no run, because its interest is in arithmetic for every `n`, `p`
and `Word`; its properties are proved (section 7).

## 3. Runs

| run | instance | distinct states | question |
|---|---|---|---|
| WorkQueueClients | 1 queue, 3 workers, 2 clients, 2 packets, spurious wake-ups | 24 thousand | is the queue a barrier, and a live one |
| SchedulerSafety | 2 cores, 1 job, 2 packets, 1 schedule call, 2 signals, spurious wake-ups | 1.3 million | pool, signals and destructor together |
| SchedulerLiveness | 2 cores, 1 job, 1 packet, 1 schedule call, 1 signal, `deleteJob` | 292 thousand | do `blockuntildone` and the destructor return |
| SchedulerSingletonSignals | 3 objects, 3 signals, 2 undelivered at once | 453 thousand | construction and deletion among signals |
| MalleableSortPhases | 4 packets, all sequences of 0, 3, 5 and 7 elements over two values, slack 0 | 76 thousand | is the result sorted, do packets interfere, does `sort` return |
| DynLoadCoresInfo | 3 cores, pattern 1, info, spurious wake-ups | 51 thousand | driver and announcements |
| InformedSortSession | 3 cores, pattern 1, info, 1 signal of a user with any number, 2 undelivered at once | 302 thousand | driver, signals and pool together |
| SchedulerNullJob, SchedulerBlockedCore, SchedulerReschedule, MalleableSortTies, DynLoadCoresQuit | small | | one statement of the documentation each, which the code does not keep |

Why the bounds suffice for what the runs are to show:

* Three workers in the queue allow one that executes, one that sleeps and one
  that is between notification and mutex, which are the three roles in every
  condition of the code; two clients allow a release during a barrier.
  The safety properties of this run, the refinement included, are also proved
  for any number.
* Jobs that change cores need a second job. Safety with several jobs, `deleteJob`
  and any number of calls is proved (`MaleableSchedulerProofs`); the run
  SchedulerReschedule has two jobs and shows what goes wrong there.
* Two cores are enough for "the last thread to go to sleep" and "the last to
  leave" to be somebody else than the thread one looks at. Two packets are
  needed for a second late packet. Two signals block and unblock a core.
* `MaxSignals`, `MaxSchedules` and `InFlight` bound what the environment does,
  not what the code does. A third signal adds a repetition of the first. In the
  session `InFlight` also holds up the driver, as a full queue of realtime
  signals would; two undelivered ones are what an overtaking needs. The
  theorems hold for every value of these bounds.
* Three objects are a scheduler, the one that a late signal constructs beside
  or after it, and one more that `singleton()` makes afterwards.
* Seven elements in four packets are segments of 2, 2, 2 and 1, and more than
  `num_of_pakets + Slack`, so that `median_split` is used, twice in a row where
  the first reduction leaves six elements. Three elements leave the last
  segment empty, none leaves all of them empty. `Slack` is the 16 of
  `reduceUntil`; the instance takes 0, so that its four packets are more than
  the slack allows, as 18 packets or more are in the code (4.7): with five
  elements, one run of two and three of one, the loop gets stuck for some
  sequences. That the real slack behaves alike is a theorem for every slack.
* SchedulerLiveness has one signal, with which no core is unblocked: its stop
  signal never meets a pass that waits for a pool thread's mutex. SchedulerSafety
  and SchedulerLiveness have one call of `scheduleJob`. Safety is proved for any
  number of both (`WakeupsAreNotLost` and its neighbours in section 7); that the
  destructor returns (`DestructorReturns`) is checked within these bounds only.
* Two values make ties in every row. Distinct values are easier for each
  property of this run.
* Pattern 1 needs three cores. Patterns 2 and 3 need eight, and are covered by
  the theorems, for which a core more or less is no matter.

Deadlock checking is off in every run: all these programs may come to a stop
(a released queue, a destroyed scheduler, a returned `main`).

## 4. What holds

1. *The queue implements `JobBarrier`* (`ImplementsBarrier`): each packet is
   started once and completed once, and the barrier of `blockuntildone` opens
   only over a job with nothing outstanding. Counters count (`CountersExact`),
   `notify_one` per push is enough (`NoLostPush`).
2. *The queue is live while workers come back* (`BarrierOpens`, `PacketsRun`),
   and a release returns unless the late entry of 5.6 happens (`ReleaseReturns`).
3. *No wake-up of a pool thread is lost* (`NoLostWakeup`), whatever the signal
   thread and the owner do. This is the scenario of the comment at
   `maleablescheduler.h:194`, and the mutex it asks for is needed.
4. *Malleability*: from the moment at which `availableCores` or `schedule` is
   written a core starts at most one more packet (`AtMostOneLatePacket`).
5. *The destructor* frees no queue under a thread (`NoUseAfterFree`), finds
   every thread in its wait (`DestructFindsAllAsleep`) and returns, with the
   exceptions 5.2 and 5.6 (`DestructorReturns`).
6. *Signals*: after a pass the pool sees what the handler was told
   (`ViewSettled`), and when nothing is pending each core is as last commanded,
   except the overtaken ones of 5.7 (`CommandsHold`).
7. *Sort*: packets of a phase do not interfere and find what they read
   (`NoConflict`, `ReadsAreReady`); each row of splitters is right by itself,
   with ties too (`RowsSplit`); the result is sorted unless a merge overruns, and
   that takes a value cut by two rows (`SortsUnlessOverrun`, `OverrunIsATie`).
   All of this holds for every number of packets and every sequence. `sort`
   returns unless a merge overruns or a SplitPaket gets stuck (`SortReturns`).
   Each turn of the loop of `reduce_split` makes progress (`ReductionShrinks`),
   except where half of the N elements left, or more, are single elements, each
   the only one left of its run, equal and least of all: there nothing is moved,
   and the loop repeats itself for ever (5.11). With up to 17 packets (`Slack` + 1)
   this cannot happen (`SlackSuffices`).
8. *Driver*: the loaded cores are those of the diagrams in the comments, and an
   informed scheduler knows them (`NapShowsPattern`); at no instant is a core
   loaded that it believes to be free (`LoadIsAnnounced`); no load thread misses
   its wake-up (`LoadedIsAwake`); a started control thread leads `main` to its
   end but for 5.4 (`QuitReturns`).

9. *Construction*: the loop over the cores never runs on a scheduler that is not
   there in full, whoever sends what when (`PassOnWholeObject`): its thread is
   started too early, but looks at nothing before a handler has got the object
   from `singleton()`. One scheduler at a time, no handler that writes into a
   deleted one, no command left in a flag, and calls that return, are promised
   except after an untimely signal (`OneScheduler`, `HandlersFindObject`,
   `NoCommandStuck`, `CallsReturn`), see 5.9.
10. *Session*: the driver waits for a scheduler before it sends anything that
    would end a process sorting with MALMS (`DriverSparesSort`); between two changes
    of the load, with the signals through, the pool leaves exactly the loaded
    cores, except those of 5.7 (`LoadedCoresAreLeft`); a blocked core is left
    even if the driver never stops sending (`BlockTakesEffect`).
11. *Input*: `BuckedSorted`, and `Staggered` for an even p, put each value into
    the bucket of its position (`BucketsKept`); the others stay in the range their
    arithmetic leaves (`ValuesInRange`); `DeterministicDuplicates` has n/2 equal
    values first (`HalfDuplicates`). See 5.10 for what that arithmetic does.

## 5. Where the code and its comments disagree

Each of the first five has a run that ends in a counterexample.

1. `BlocksNoLonger`: `blockuntildone` "blocks until there is no more active
   Thread". If the core of the last active thread is blocked (or taken off the
   job) while its packet runs, the thread leaves the queue without a
   notification and goes to sleep in the pool. The client waits although the
   deque is empty and nobody is active, until some other thread enters the
   queue.
2. `CallsAJob`: the destructor clears `schedule` without `thread_mutex`. A pool
   thread between lines 90 and 105 calls a null pointer. This is the only way to
   a null job: without `deleteJob`, a pool thread that passed the test of line 90
   finds a job at line 105 as long as the destructor has not begun to clear
   (theorem `NullCallsAreTheDestructors`).
3. `ScheduledJobRuns`: a core that is given a new job while its thread sleeps
   in the queue of the old one does not work on the new one.
4. `QuitPreventsDeadlock`: a load thread that has tested `thread_quit` just
   before it was set misses the notification and is never joined.
5. `SortsEverything`: rows that cut the same value choose independently among
   the equal elements. The upper row may take fewer elements of a run than the
   lower row did, and the merge between the two starts above its end.

The next are not runs. The properties named contain the exception, as the only one.

6. Line 115 of `workqueue.h` says that a released queue "does not accept new
   Threads". A thread that has passed line 58 enters it and may sleep there for
   ever (`ReleaseReturns`, `DestructorReturns`).
7. `sendblockcore.cpp` sends block and unblock in the order in which it is told.
   An unblock that is still pending when a block is sent is delivered after
   it (`CommandsHold`).
8. `dynloadcores` hangs, or is killed, if the start signal is early or is never
   sent. `QuitReturns` is about a control thread that was started. With `info` and
   an algorithm other than MALMS the first SIGBLOCKCORE ends the sorting process
   (`DriverSparesSort`).
9. "The only object of this class": a signal that is handled while `instance`
   is NULL, which a signal sent, or pending, around construction or deletion may
   be, makes the handler construct a scheduler. It may be the second one, or be
   made beside the one that `main` is constructing, and a handler may then write
   into an object that is deleted, or stop the wrong thread and leave
   `deleteSingleton` in its join. The four exceptions `untimely` of 4.9 are these.
10. Input generation. The branch for `-g` compares with `-p` again, so that `g` is 0
    and `gGroup` is refused (`GroupsAreOutOfReach`); type RD, and every unknown
    type, calls through NULL; a p above RAND_MAX takes a remainder by zero. The
    cast in `Gaussian` binds tighter than the division, so that the sum of four
    numbers is cut to an int and the mean lies around zero (`ValuesInRange`). In
    `Staggered` the bucket of the middle block of an odd p is -1, its values are
    negative, and no block gets an even bucket (`StaggeredSkipsHalf`).
11. The loop of `reduce_split` need not end (`median_split.h:171`), so `sort` need not
    return, whereas "The Mergesort function, sorting the sequence" (line 66 of
    `threadpool_mergesort.h`) makes no exception. With 18 packets or more there
    are runs that get it stuck (`SlackIsNeeded`). With 50 packets or more (three
    times the slack, and two) there is a sequence of any two values on which no
    SplitPaket ever comes to a row (`SortHangs`); the scripts take 100 packets
    (`time_dynloadcores.sh:28`). An example with 100 packets are 120 elements
    in which 20 packets of two elements get the greater value and 80 of one
    element the least. In between, equal segments make it harder but not
    impossible: 48 packets (`time_noload.sh:23`) of three elements, 32 of them
    0 1 2, 15 of them 0 3 3 and one 3 3 3, leave the rows from the 27th on
    without a result. The two examples are computed, not proved. It takes many
    equal least elements: distinct values never get stuck.
12. A negative core number passes `sendblockcore.cpp:69-70` and line 136 of
    `maleablescheduler.h`, and the handler writes `new_availableCores[-1]` (138,
    141), although the test is there to keep it inside the array. `SessionTypeOK`
    says that this takes such a number from a user: what is too large is
    dropped, and what the driver sends is a core.

## 6. Fairness

Weak fairness of every thread of the program: the operating system runs a
thread that can run. A thread waiting for a mutex is covered by that because
each mutex is free again and again only for short sections; no property relies
on winning a contended mutex infinitely often. Nothing is assumed about calls
of the owner, signals of a controller and spurious wake-ups. In addition
`DedicatedSpec` of the queue assumes that workers come back, which is what the
loop of the pool thread does while its core is available and scheduled;
`MaleableScheduler` checks `BlockUntilDoneReturns` without that assumption. The
driver assumes that the sorting process ends. In the session only the signal
thread is fair, which includes the delivery of pending signals. In
`SchedulerSingleton` all threads are; calls and signals are not. `MalleableSort` assumes that
packets get executed, which is `PacketsRun` of the queue.

## 7. Proofs

`WorkQueueProofs.tla`, for every set of queues, workers, clients and packets
(`WorkQueueAssumption`: workers are finitely many, `NoQueue` and `NoItem` are
not queue and packet):

* `TypeCorrect`, `CountersCorrect`: `Spec => []TypeOK`, `Spec => []CountersExact`.
  Types alone are not inductive: a counter stays non-negative because it counts
  something. The invariant is `TypeInv /\ CountersExact`, where `TypeInv` adds to
  the types that a thread is inside a queue exactly when its position says so
  and a worker has a packet exactly when it executes one. The lemma that carries
  the proof is `WorkerMoves`: if one worker moves and the others stay, the
  cardinality of a set of workers at given positions changes by what that
  worker does.
* `BarrierIsSound`: `Spec => BarrierSound`. Only `BudReturn` takes a client out
  of its barrier; it tests `active`, and by `CountersExact` that is the number of
  workers executing a packet.
* `ReleaseIsSound`: `Spec => ReleaseSound`, in the same way, over both ways in
  which a release returns.
* `NoPacketStranded`: `Spec => []NoLostPush`. Inductive together with `TypeInv`;
  one lemma for the steps of a worker and one for `push`.
* `ReleaseIsNotified`: `Spec => []NoLostRelease`, a property no run has: a client
  that waits in `releaseWaitingThreads` has a thread to wait for, because every
  path on which the last thread leaves the counters at zero notifies
  `external_cd`. The exception 5.6 is a thread that comes late, not a
  notification that gets lost.
* `QueueImplementsBarrier`: `Spec => ImplementsBarrier`. Taking a packet maps to
  `Start`, the end of its execution to `Complete`, `push` to `Submit`, the call
  and the return of `blockuntildone` to `Wait` and `Return`, and every other
  step to a stutter. `Complete` removes a packet from the set of those being
  executed, which is right only if no other worker executes the same one; so
  the invariant is extended by `ItemsOnce`: a packet is in one place at most,
  one position of one deque, the hands of one worker, or done. `Return` asks
  for a job with nothing outstanding, where the code tests `active`; that is
  `CountersExact` again.

`InformedSortProofs.tla`, first part (`SignalThread`), for any number of cores and signals,
negative numbers among them (up to the write in front of the array):

* `ViewIsSettled`: `availableCores` and `new_availableCores` agree in `sigsuspend`.
  While a pass runs they agree below its position (`ViewInv`), and a handler
  that changes one of them sets `receivedSignal`.
* `CommandsAreKept`: `CommandsHold` speaks of moments without pending signals
  only. `Outcome(i)` says at any moment how core i will end up when all that is
  pending has been delivered, blocks first, and `Owed` that this is what was
  commanded, but for overtaken cores.

`MaleableSchedulerProofs.tla`, for any number of cores, jobs, packets, calls and
signals, with spurious wake-ups and `deleteJob`: one invariant, `Inv`, stated core
by core. `LockInv` ties `thread_mutex[i]` to the positions of pool thread and
owner; with it `NotLost(i)` is inductive, because whoever makes a core available
or gives it a job holds the mutex. `ShutDown` says what the destructor has
achieved for thread i at each of its positions: it relies on `SleepingExact`, from
which `sleeping = p` puts every thread into the wait. `LateInv` says that a thread
which has started its late packet is on no way to another. From it
`SleepingIsExact`, `WakeupsAreNotLost`, `OneLatePacketAtMost`, `JobsAreFreedUnused`
and `AllAreAsleepAtDestruct`. On the same invariant rest the theorems about the
composition:

* `TypeCorrect`: `Spec => []TypeOK`, for scheduler, queues and signal thread.
* `JobsAreQueues`: `Spec => WQP!Spec`. Every step of a pool thread inside a job, and of
  the owner and `deleteJob` on one, is a step of `WorkQueue` or leaves all queues
  alone. So the theorems of `WorkQueueProofs` hold in the scheduler
  (`BarriersAreSound`), where threads enter and leave with the load.
* `SignalsAreSignalThread`: `Spec => ST!Spec`. The signal thread of a scheduler waits
  for mutexes, which `SignalThread` knows nothing of; that only adds stutters.
  `StopInv`: no stop signal is under way before the destructor sends it.
* `NullCallsAreTheDestructors`: if `deleteJob` is not called, `crashed` implies that
  the destructor is clearing the schedule or releasing jobs, and that no job has
  been freed. `NullInv` says what a thread past the test of line 90 relies on:
  its entry of `schedule` goes from one job to another, never to NULL.

`SchedulerSingletonProofs.tla`, for any number of schedulers and signals. `Life`
holds unconditionally: whoever holds an object got it from `instance`, to which
it is assigned after it was built, and a freed object has a stopped thread;
`PassesMeetWholeObjects` follows. `Timely` holds as long as every signal was timely:
then a handler runs only on the thread of `instance`, and nowhere while `main`
constructs; `ThereIsOneScheduler`, `HandlersWriteIntoObjects`, `CommandsAreActedOn`.

`DynLoadCoresProofs.tla`, for every p that has room for the pattern and for all
three patterns. That the calls of each phase turn one row of the diagram into
the next is proved for the fifteen phases (`PatternOne`, `PatternTwo`,
`PatternThree`); the invariant says which cores are loaded after the first n
calls. From it `PatternsAreShown`, `LoadsAreAnnounced` and `LoadedCoresAreAwake`.

`InformedSortProofs.tla`, for the same instances and any number of user signals:

* `DriverIsDynLoadCores`: `SpecSession => DL!Spec`. A session implements the driver,
  so that everything proved about the driver holds in the session.
* `SessionViewIsSettled`, `SessionCommandsAreKept`, `SessionTypesAreKept`: the
  invariant of the signal thread is kept by the driver's commands too, since
  the cores of the patterns are cores there are. `SessionTypesAreKept` includes
  that a write outside the array, which is one in front of it, comes after a
  user's signal.
* `SortIsSpared`: no command is sent before the control thread has been started,
  which takes the start signal, which comes after the scheduler.
* `PoolLeavesLoadedCores`: `told` of the driver and `command` of the signal thread
  agree while no user meddles; with `PatternsAreShown` and `CommandsAreKept` the
  cores left are the cores loaded.

`GenerateSortInputProofs.tla`, for every size of the file and every p, under the
hypothesis `Machine` (a word of 8k values, sizes are natural numbers), which is
stated in each theorem. A long long is an integer without bounds here. The
products the code forms in it, `counter * p * p` the largest, stay below 2^63 for
p up to 2^14 and files of up to 2^35 numbers; for greater ones the theorems say
nothing about the code, whose arithmetic then overflows: `ValuesAreInRange`, `BucketsAreKept`,
`GroupsAreOutOfReach`, `DuplicatesAreHalved`; `StaggeredIsInjective` and
`StaggeredSkipsHalf`. The invariant adds the range of the arguments, which
generators can be constructed, and how far `DeterministicDuplicates` has counted
while `m` is 1. The lemmas are about division: `DivBounds`, `BlockOfPosition`,
`BucketValue`, `StaggeredWraps`.

`SplittingProofs.tla`, for every number of runs of any length, every set of
integers as values, and every `Slack`. Induction is carried out on sets of
natural numbers (`NatSetInduction`), and that a recursive function satisfies its
equation is shown with a fixpoint over a measure of its argument
(`MeasuredRecursion`); the library's induction theorems take operators, which
the provers cannot instantiate.

* `ReduceSplitCorrect`: every row that `reduce_split` may return has `prefix_size`
  elements below it, none larger than one above it. A reduction is `Narrowed`:
  `first` and `last` are rows that cut the runs (nothing below is larger than
  anything above), with N elements between them, and `prefix` is what `first`
  lacks. `median_split` keeps this because `current` cuts all runs at one value;
  the final `quickselect` permutes what is undecided and ends with no smaller
  element behind position `prefix`. The lemmas in between say that both scans of
  `partitionPivot` stop in time and what lies on the two sides of the cut.
* `ReductionEnds`, for every number of packets and every slack: each turn of the
  loop leaves less to decide, or half of what is left are single elements of the
  least value (`LeastSingles`) and the turn changes nothing. The runs up to the chosen
  median hold half of the elements. If one of them gives an element to the lower
  half the loop makes progress downwards; the chosen median itself stays in the
  upper half. If none does, each of them has one element left, equal to the
  median, and nothing that is left is less; then `current` is `first`, and as the
  position sought is at least 1 nothing moves (`StandsStill`).
* `ReduceSplitReturns`, without any assumption on the packets: there is a result
  or the loop stands still (`Hangs`). A weighted median exists (the lightest set
  of runs, downward closed in their medians, that weighs half; its greatest run
  is the median), the loop ends otherwise, and in a range of two elements or more
  the second one is a pivot that divides it. That `rand()` draws it some day is
  not claimed: it is a matter of probability.
* `SlackSuffices` and `SlackIsNeeded`: with `num_of_pakets - 1 <= Slack`
  (`EnoughSlack`; 17 packets in the code) half of what is left are at least as many
  elements as there are runs, so they cannot all be single, and the loop does not get
  stuck. Without it there are runs on which it does, at every row: one element
  of the least value in each run but one, and a long run of a greater value.
* `MultiwaymergeCorrect`: between two rows that are not inverted the merge writes
  all elements between them, each as often as it occurs, in ascending order.

`MalleableSortProofs.tla`, for every number of packets and every sequence, over any
order of packets. `QueueInv` says which packets of which phase are queued,
running and done, `DataInv` what is computed at each point: the sorted segments,
rows that split (`RowsRight`, by `ReduceSplitCorrect`), parts merged
(`MergePhase`). One lemma per action.

* `TypeCorrect`, `ReadsThere`, `Independent`, `RowsRightly` follow from `Inv`.
* `OverrunsAreTies`: an element of a run between two inverted rows is below the
  lower and above the upper one. So fewer than Offset(l) elements are less than
  it, and more than Offset(l + 1) are at most as great: both ranks are its own.
* `Sorts`: `SortsUnlessOverrun`. If no row is inverted the parts, each sorted,
  ascend one after the other (`RowsAscend`), and for every v the result has as
  many elements up to v as the input (`MergedCounts`). An ascending sequence is
  determined by these counts (`SortUnique`), so it is `Sort(input)`.
* `ReductionsShrink` and `SplitsReturn`: the loops of the SplitPackets make
  progress or stand still in the way of `ReductionEnds`, and each of them comes to a
  row or repeats itself, for every number of packets.
* `LoopsForEver`, `SortHangs`: a SplitPaket that has got stuck keeps `sort` in its
  split phase (`LoopingInv`); and with 3 * `Slack` + 2 packets or more none of
  them has a row when `input` is `StuckInput`, whose first `Slack` + 1 packets hold two
  greater elements each and the others one least element.

Only model-checked: liveness, since fairness and `ENABLED` are outside the prover.
Every invariant and every action property of the passing runs, and the
refinement, is a theorem.

## 8. Not modelled

* `deleteJob` is in the model, but no property is claimed for it: the code says
  that it is not safe.
* Allocation, pinning, priorities, timing, output, argument parsing.
* `copy_paket.h`, which nothing uses; `loadcore`, `waitforsignal`, `testloop`,
  clocks, scripts; the tests, which are callers.
* `RandomizedDuplicates`, which is constructed nowhere.
* The buffered branch of `MergePaket`, which no constructor selects, and the
  loser tree, which belongs to the compiler's library.

## 9. Plan

Done: everything above. Left, in this order:

1. `MalleableSort` over the concrete `WorkQueue` instead of `JobBarrier`, so that
   `Sorts` and `QueueImplementsBarrier` become one theorem.
2. `SchedulerSingleton` shown to agree with `SignalThread` for one object, as a
   refinement.
