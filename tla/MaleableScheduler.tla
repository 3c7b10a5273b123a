-------------------------- MODULE MaleableScheduler --------------------------
(***************************************************************************)
(* Scheduler::MaleableScheduler (malms/threadpool/maleablescheduler.h): p   *)
(* pinned pool threads, the thread that owns the scheduler object, and the  *)
(* signal thread.  It composes WorkQueue (the jobs) and SignalThread (core  *)
(* availability) and adds what the scheduler itself keeps: the schedule,    *)
(* the per-core mutexes and condition variables, and the sleeping count.    *)
(*                                                                          *)
(* thread_mutex[i] is held by pool thread i over several steps, while the   *)
(* destructor, deleteJob and the signal thread write schedule and           *)
(* availableCores without it, so it is modelled explicitly.  sleeping_mutex *)
(* and a queue's mutex are never held across a step.                        *)
(*                                                                          *)
(* A call through a NULL job pointer or into a deleted job is undefined     *)
(* behaviour; the model stops there (crashed).                              *)
(***************************************************************************)
EXTENDS Integers, Sequences, FiniteSets, SequencesExt

CONSTANTS
  p,            \* number of pool threads, pinned to cores 0 .. p-1
  Jobs,         \* the WorkQueue objects newJob may create
  Items,        \* the packets that may be pushed
  NULL,         \* the null job pointer
  NoItem,
  Main,         \* the thread that owns the scheduler
  MaxSchedules, \* bound: calls of scheduleJob / scheduleToFirst / scheduleToAll
  MaxSignals,   \* bound: block and unblock signals sent
  InFlight,     \* bound: signals undelivered at a time
  Spurious,     \* whether condition variables may wake up unnotified
  DeleteJobs    \* whether the owner calls deleteJob ("not yet safe")

ASSUME MaleableSchedulerAssumption ==
  /\ p \in Nat \ {0}
  /\ NULL \notin Jobs
  /\ NoItem \notin Items
  /\ MaxSchedules \in Nat
  /\ MaxSignals \in Nat
  /\ Spurious \in BOOLEAN
  /\ DeleteJobs \in BOOLEAN

Cores == 0 .. p - 1

VARIABLES
  \* the jobs (WorkQueue.tla)
  q, active, qsleeping, qdestruct, wpc, wq, item, cpc, cq, done,
  \* the signal thread (SignalThread.tla)
  new_availableCores, availableCores, receivedSignal, receivedStopSignal, spc, scan,
  pendingBlock, pendingUnblock, pendingStop, command, overtaken, sent,
  \* the scheduler
  jobs,          \* the job list
  freed,         \* jobs that have been deleted
  schedule,      \* schedule[i]: the job core i is to work on, or NULL
  thread_mutex,  \* who holds thread_mutex[i]: "free", "worker" or "main"
  sleeping,      \* the count of pool threads in thread_cd[i]->wait()
  destruct,
  loop,          \* loop[i]: where pool thread i is in ThreadWork
  queue,         \* queue[i]: ThreadWork's local variable of that name
  mpc,           \* where the owner is in a scheduler function
  mi,            \* the loop variable of that function
  mwaiting,      \* the owner is blocked in sleeping_cd.wait()
  plan,          \* arguments of the running schedule or deleteJob call
  schedules,     \* history: number of schedule calls made
  late,          \* history: packets thread i has started without being
                 \* entitled since schedule[i] or availableCores[i] was written
  crashed        \* a NULL or deleted job was called

queueVars == <<q, active, qsleeping, qdestruct, wpc, wq, item, cpc, cq, done>>
signalVars == <<new_availableCores, availableCores, receivedSignal, receivedStopSignal, spc, scan,
                pendingBlock, pendingUnblock, pendingStop, command, overtaken, sent>>
jobVars == <<jobs, freed>>
threadVars == <<loop, queue, late>>
sleepVars == <<sleeping, mwaiting>>
ownerVars == <<mpc, mi, plan, schedules>>
vars == <<q, active, qsleeping, qdestruct, wpc, wq, item, cpc, cq, done,
          new_availableCores, availableCores, receivedSignal, receivedStopSignal, spc, scan,
          pendingBlock, pendingUnblock, pendingStop, command, overtaken, sent,
          jobs, freed, schedule, thread_mutex, sleeping, destruct, loop, queue,
          mpc, mi, mwaiting, plan, schedules, late, crashed>>

WQ == INSTANCE WorkQueue WITH
  Queues <- Jobs, Workers <- Cores, Clients <- {Main}, NoQueue <- NULL,
  sleeping <- qsleeping, destruct <- qdestruct

ST == INSTANCE SignalThread

NoPlan == [job |-> NULL, cores |-> {}]

\* The constructor up to its wait: the signal thread and the pool threads have
\* been started, none has run yet.
Init ==
  /\ WQ!Init
  /\ ST!Init
  /\ jobs = <<>>
  /\ freed = {}
  /\ schedule = [i \in Cores |-> NULL]
  /\ thread_mutex = [i \in Cores |-> "free"]
  /\ sleeping = 0
  /\ destruct = FALSE
  /\ loop = [i \in Cores |-> "top"]
  /\ queue = [i \in Cores |-> NULL]
  /\ mpc = "init"
  /\ mi = 0
  /\ mwaiting = FALSE
  /\ plan = NoPlan
  /\ schedules = 0
  /\ late = [i \in Cores |-> 0]
  /\ crashed = FALSE

-----------------------------------------------------------------------------
(* ThreadWork: the loop of pool thread i.                                   *)

GoTo(i, label) == loop' = [loop EXCEPT ![i] = label]

Lock(i, who) ==
  /\ thread_mutex[i] = "free"
  /\ thread_mutex' = [thread_mutex EXCEPT ![i] = who]

Unlock(i) == thread_mutex' = [thread_mutex EXCEPT ![i] = "free"]

\* lock.lock() at the top of the outer loop.
Top(i) ==
  /\ loop[i] = "top"
  /\ Lock(i, "worker")
  /\ GoTo(i, "test")
  /\ UNCHANGED <<queueVars, signalVars, jobVars, schedule, sleepVars, destruct, queue, late,
                 ownerVars, crashed>>

\* Faulty variant: the availability of the core is not part of the condition.
TestScheduleOnly(i) ==
  /\ loop[i] = "test"
  /\ GoTo(i, IF schedule[i] = NULL THEN "count" ELSE "take")
  /\ UNCHANGED <<queueVars, signalVars, jobVars, schedule, thread_mutex, sleepVars, destruct,
                 queue, late, ownerVars, crashed>>

\* The condition of the waiting loop.
Test(i) ==
  /\ loop[i] = "test"
  /\ GoTo(i, IF schedule[i] = NULL \/ ~availableCores[i] THEN "count" ELSE "take")
  /\ UNCHANGED <<queueVars, signalVars, jobVars, schedule, thread_mutex, sleepVars, destruct,
                 queue, late, ownerVars, crashed>>

\* sleeping++ under sleeping_mutex; the last thread to go to sleep notifies.
Count(i) ==
  /\ loop[i] = "count"
  /\ sleeping' = sleeping + 1
  /\ mwaiting' = (mwaiting /\ sleeping' # p)
  /\ GoTo(i, "park")
  /\ UNCHANGED <<queueVars, signalVars, jobVars, schedule, thread_mutex, destruct, queue, late,
                 ownerVars, crashed>>

\* thread_cd[i]->wait(lock) releases the mutex and blocks.
Park(i) ==
  /\ loop[i] = "park"
  /\ Unlock(i)
  /\ GoTo(i, "parked")
  /\ UNCHANGED <<queueVars, signalVars, jobVars, schedule, sleepVars, destruct, queue, late,
                 ownerVars, crashed>>

\* thread_cd[i]->notify_all(), for whoever calls it.
NotifyThread(i) == loop' = [loop EXCEPT ![i] = IF @ = "parked" THEN "woken" ELSE @]

\* Faulty variants: sleeping is not decremented; it is decremented after the
\* test of destruct.
WakeUncounted(i) ==
  /\ loop[i] = "woken"
  /\ thread_mutex[i] = "free"
  /\ IF destruct
     THEN GoTo(i, "exited") /\ UNCHANGED thread_mutex
     ELSE GoTo(i, "test") /\ Lock(i, "worker")
  /\ UNCHANGED <<queueVars, signalVars, jobVars, schedule, sleepVars, destruct, queue, late,
                 ownerVars, crashed>>

WakeCountsLate(i) ==
  /\ loop[i] = "woken"
  /\ thread_mutex[i] = "free"
  /\ IF destruct
     THEN GoTo(i, "exited") /\ UNCHANGED <<thread_mutex, sleeping>>
     ELSE GoTo(i, "test") /\ Lock(i, "worker") /\ sleeping' = sleeping - 1
  /\ UNCHANGED <<queueVars, signalVars, jobVars, schedule, mwaiting, destruct, queue, late,
                 ownerVars, crashed>>

\* wait() returns with the mutex; sleeping--; return if the scheduler is gone.
Wake(i) ==
  /\ loop[i] = "woken"
  /\ thread_mutex[i] = "free"
  /\ sleeping' = sleeping - 1
  /\ IF destruct
     THEN GoTo(i, "exited") /\ UNCHANGED thread_mutex
     ELSE GoTo(i, "test") /\ Lock(i, "worker")
  /\ UNCHANGED <<queueVars, signalVars, jobVars, schedule, mwaiting, destruct, queue, late,
                 ownerVars, crashed>>

\* Faulty variant: the mutex is kept for the packet.
TakeHoldingLock(i) ==
  /\ loop[i] = "take"
  /\ queue' = [queue EXCEPT ![i] = schedule[i]]
  /\ GoTo(i, "call")
  /\ UNCHANGED <<queueVars, signalVars, jobVars, schedule, thread_mutex, sleepVars, destruct,
                 late, ownerVars, crashed>>

\* The job pointer is read a second time, then the mutex is given up.
Take(i) ==
  /\ loop[i] = "take"
  /\ queue' = [queue EXCEPT ![i] = schedule[i]]
  /\ Unlock(i)
  /\ GoTo(i, "call")
  /\ UNCHANGED <<queueVars, signalVars, jobVars, schedule, sleepVars, destruct, late,
                 ownerVars, crashed>>

Callable(j) == j # NULL /\ j \notin freed

\* queue->wait_and_workOne(), entered.
Call(i) ==
  /\ loop[i] = "call"
  /\ Callable(queue[i])
  /\ WQ!Enter(i, queue[i])
  /\ GoTo(i, "inqueue")
  /\ UNCHANGED <<signalVars, jobVars, schedule, thread_mutex, sleepVars, destruct, queue, late,
                 ownerVars, crashed>>

\* queue->wait_and_workOne() returns at once: the queue has been released.
CallRefused(i) ==
  /\ loop[i] = "call"
  /\ Callable(queue[i])
  /\ qdestruct[queue[i]]
  /\ GoTo(i, "top")
  /\ UNCHANGED <<queueVars, signalVars, jobVars, schedule, thread_mutex, sleepVars, destruct,
                 queue, late, ownerVars, crashed>>

CallInvalid(i) ==
  /\ loop[i] = "call"
  /\ ~Callable(queue[i])
  /\ crashed' = TRUE
  /\ UNCHANGED <<queueVars, signalVars, jobVars, schedule, thread_mutex, sleepVars, destruct,
                 threadVars, ownerVars>>

Entitled(i, j) == availableCores[i] /\ schedule[i] = j

\* A step of wait_and_workOne.  Starting a packet on a core that is blocked or
\* no longer scheduled on the job is counted.
InQueue(i) ==
  /\ WQ!WorkerStep(i)
  /\ late' = [late EXCEPT ![i] =
                IF wpc'[i] = "running" /\ ~Entitled(i, wq[i]) THEN @ + 1 ELSE @]
  /\ UNCHANGED <<signalVars, jobVars, schedule, thread_mutex, sleepVars, destruct, loop, queue,
                 ownerVars, crashed>>

Return(i) ==
  /\ loop[i] = "inqueue"
  /\ wpc[i] = "out"
  /\ GoTo(i, "top")
  /\ UNCHANGED <<queueVars, signalVars, jobVars, schedule, thread_mutex, sleepVars, destruct,
                 queue, late, ownerVars, crashed>>

PoolStep(i) ==
  \/ Top(i) \/ Test(i) \/ Count(i) \/ Park(i) \/ Wake(i) \/ Take(i)
  \/ Call(i) \/ CallRefused(i) \/ CallInvalid(i) \/ InQueue(i) \/ Return(i)

SpuriousWake(i) ==
  /\ Spurious
  /\ \/ /\ loop[i] = "parked"
        /\ NotifyThread(i)
        /\ UNCHANGED queueVars
     \/ WQ!SpuriousWake(i) /\ UNCHANGED loop
  /\ UNCHANGED <<signalVars, jobVars, schedule, thread_mutex, sleepVars, destruct, queue, late,
                 ownerVars, crashed>>

-----------------------------------------------------------------------------
(* The signal thread, with what its loop does to the pool threads.          *)

\* Faulty variant: the scenario of the comment in signalthreadfunction, the
\* thread is notified without its mutex.
UnblockCoreUnlocked ==
  /\ ST!ScanUnblock
  /\ NotifyThread(scan)
  /\ late' = [late EXCEPT ![scan] = 0]

\* Core `scan' is unblocked: availability and notification under its mutex.
UnblockCore ==
  /\ ST!ScanUnblock
  /\ thread_mutex[scan] = "free"
  /\ NotifyThread(scan)
  /\ late' = [late EXCEPT ![scan] = 0]

\* The core is blocked, without any lock.
BlockCore ==
  /\ ST!ScanBlock
  /\ late' = [late EXCEPT ![scan] = 0]
  /\ UNCHANGED loop

OtherSignalStep ==
  /\ \/ ST!HandleBlock \/ ST!HandleUnblock \/ ST!HandleStop
     \/ ST!Leave \/ ST!StartScan \/ ST!SuspendAgain \/ ST!ScanSame
  /\ UNCHANGED <<loop, late>>

SignalStep ==
  /\ UnblockCore \/ BlockCore \/ OtherSignalStep
  /\ UNCHANGED <<queueVars, jobVars, schedule, thread_mutex, sleepVars, destruct, queue,
                 ownerVars, crashed>>

\* Signals about existing cores reach the object between construction and
\* destruction; what else a signal may say is SignalThread's and InformedSort's.
Controller ==
  /\ mpc \notin {"init", "dead"}
  /\ ST!MaySend
  /\ \E i \in Cores : ST!SendBlock(i) \/ ST!SendUnblock(i)
  /\ UNCHANGED <<queueVars, jobVars, schedule, thread_mutex, sleepVars, destruct, threadVars,
                 ownerVars, crashed>>

-----------------------------------------------------------------------------
(* The owner of the scheduler.                                              *)

OwnerIdle == mpc = "idle" /\ cpc[Main] = "idle"
Owned == {jobs[n] : n \in DOMAIN jobs}

\* Faulty variant: off by one.
AwaitSleepersButOne ==
  /\ mpc \in {"init", "dwait"}
  /\ ~mwaiting
  /\ IF sleeping < p - 1
     THEN mwaiting' = TRUE /\ UNCHANGED mpc
     ELSE mpc' = (IF mpc = "init" THEN "idle" ELSE "dfree") /\ UNCHANGED mwaiting
  /\ UNCHANGED <<queueVars, signalVars, jobVars, schedule, thread_mutex, sleeping, destruct,
                 threadVars, mi, plan, schedules, crashed>>

\* while (sleeping < p) sleeping_cd.wait(l), in the constructor (mpc = "init")
\* and in the destructor (mpc = "dwait").
AwaitSleepers ==
  /\ mpc \in {"init", "dwait"}
  /\ ~mwaiting
  /\ IF sleeping < p
     THEN mwaiting' = TRUE /\ UNCHANGED mpc
     ELSE mpc' = (IF mpc = "init" THEN "idle" ELSE "dfree") /\ UNCHANGED mwaiting
  /\ UNCHANGED <<queueVars, signalVars, jobVars, schedule, thread_mutex, sleeping, destruct,
                 threadVars, mi, plan, schedules, crashed>>

NewJob(j) ==
  /\ OwnerIdle
  /\ j \notin Owned \cup freed
  /\ jobs' = Append(jobs, j)
  /\ UNCHANGED <<queueVars, signalVars, freed, schedule, thread_mutex, sleepVars, destruct,
                 threadVars, ownerVars, crashed>>

\* scheduleJob(job, S), scheduleToFirst (S a prefix), scheduleToAll (S = Cores).
ScheduleJob(j, S) ==
  /\ OwnerIdle
  /\ schedules < MaxSchedules
  /\ schedules' = schedules + 1
  /\ plan' = [job |-> j, cores |-> S]
  /\ mpc' = "schedule"
  /\ mi' = 0
  /\ UNCHANGED <<queueVars, signalVars, jobVars, schedule, thread_mutex, sleepVars, destruct,
                 threadVars, crashed>>

\* The step of a loop over the cores that ends in state `after'.
NextOwnerCore(after) ==
  IF mi + 1 < p
  THEN mi' = mi + 1 /\ UNCHANGED mpc
  ELSE mi' = 0 /\ mpc' = after

\* scheduleOnCore: a thread is notified only if it had nothing scheduled.
ScheduleOnCore ==
  /\ mpc = "schedule"
  /\ thread_mutex[mi] = "free"
  /\ schedule' = [schedule EXCEPT ![mi] = IF mi \in plan.cores THEN plan.job ELSE NULL]
  /\ IF schedule[mi] = NULL THEN NotifyThread(mi) ELSE UNCHANGED loop
  /\ NextOwnerCore("idle")
  /\ late' = [late EXCEPT ![mi] = 0]
  /\ UNCHANGED <<queueVars, signalVars, jobVars, thread_mutex, sleepVars, destruct, queue,
                 plan, schedules, crashed>>

\* push and blockuntildone, called by the owner on one of its jobs.
QueueCall(j) ==
  /\ OwnerIdle
  /\ (\E i \in Items : WQ!Push(Main, j, i)) \/ WQ!BlockUntilDone(Main, j)
  /\ UNCHANGED <<signalVars, jobVars, schedule, thread_mutex, sleepVars, destruct, threadVars,
                 ownerVars, crashed>>

\* The owner inside blockuntildone or releaseWaitingThreads.
QueueStep ==
  /\ WQ!ClientStep(Main)
  /\ UNCHANGED <<signalVars, jobVars, schedule, thread_mutex, sleepVars, destruct, threadVars,
                 ownerVars, crashed>>

OwnerSpurious ==
  /\ Spurious
  /\ \/ mwaiting /\ mwaiting' = FALSE /\ UNCHANGED queueVars
     \/ WQ!SpuriousExternal(Main) /\ UNCHANGED mwaiting
  /\ UNCHANGED <<signalVars, jobVars, schedule, thread_mutex, sleeping, destruct, threadVars,
                 ownerVars, crashed>>

-----------------------------------------------------------------------------
(* deleteJob.                                                               *)

DeleteJob(j) ==
  /\ DeleteJobs
  /\ OwnerIdle
  /\ jobs' = RemoveAt(jobs, CHOOSE n \in DOMAIN jobs : jobs[n] = j)
  /\ plan' = [job |-> j, cores |-> {}]
  /\ mpc' = "jclear"
  /\ mi' = 0
  /\ UNCHANGED <<queueVars, signalVars, freed, schedule, thread_mutex, sleepVars, destruct,
                 threadVars, schedules, crashed>>

\* Take the job off the schedule, without the threads' mutexes.
ClearJob ==
  /\ mpc = "jclear"
  /\ schedule' = [schedule EXCEPT ![mi] = IF @ = plan.job THEN NULL ELSE @]
  /\ late' = [late EXCEPT ![mi] = 0]
  /\ NextOwnerCore("jrelease")
  /\ UNCHANGED <<queueVars, signalVars, jobVars, thread_mutex, sleepVars, destruct, loop, queue,
                 plan, schedules, crashed>>

\* ~WorkQueue: release the threads still waiting in it, then free it.
ReleaseJob ==
  /\ mpc = "jrelease"
  /\ WQ!Release(Main, plan.job)
  /\ mpc' = "jfree"
  /\ UNCHANGED <<signalVars, jobVars, schedule, thread_mutex, sleepVars, destruct, threadVars,
                 mi, plan, schedules, crashed>>

FreeJob ==
  /\ mpc = "jfree"
  /\ cpc[Main] = "idle"
  /\ freed' = freed \cup {plan.job}
  /\ plan' = NoPlan
  /\ mpc' = "idle"
  /\ UNCHANGED <<queueVars, signalVars, jobs, schedule, thread_mutex, sleepVars, destruct,
                 threadVars, mi, schedules, crashed>>

-----------------------------------------------------------------------------
(* deleteSingleton: the destructor.                                         *)

DeleteSingleton ==
  /\ OwnerIdle
  /\ ST!SendStop
  /\ mpc' = "djoin"
  /\ UNCHANGED <<queueVars, jobVars, schedule, thread_mutex, sleepVars, destruct, threadVars,
                 mi, plan, schedules, crashed>>

JoinSignalThread ==
  /\ mpc = "djoin"
  /\ spc = "stopped"
  /\ mpc' = "dclear"
  /\ mi' = 0
  /\ UNCHANGED <<queueVars, signalVars, jobVars, schedule, thread_mutex, sleepVars, destruct,
                 threadVars, plan, schedules, crashed>>

\* Clear the schedule, without the threads' mutexes.
ClearSchedule ==
  /\ mpc = "dclear"
  /\ schedule' = [schedule EXCEPT ![mi] = NULL]
  /\ late' = [late EXCEPT ![mi] = 0]
  /\ NextOwnerCore("drelease")
  /\ UNCHANGED <<queueVars, signalVars, jobVars, thread_mutex, sleepVars, destruct, loop, queue,
                 plan, schedules, crashed>>

\* releaseWaitingThreads for every job of the list, one after the other.
ReleaseNextJob ==
  /\ mpc = "drelease"
  /\ cpc[Main] = "idle"
  /\ mi < Len(jobs)
  /\ WQ!Release(Main, jobs[mi + 1])
  /\ mi' = mi + 1
  /\ UNCHANGED <<signalVars, jobVars, schedule, thread_mutex, sleepVars, destruct, threadVars,
                 mpc, plan, schedules, crashed>>

AllReleased ==
  /\ mpc = "drelease"
  /\ cpc[Main] = "idle"
  /\ mi = Len(jobs)
  /\ mpc' = "dwait"
  /\ UNCHANGED <<queueVars, signalVars, jobVars, schedule, thread_mutex, sleepVars, destruct,
                 threadVars, mi, plan, schedules, crashed>>

FreeJobs ==
  /\ mpc = "dfree"
  /\ freed' = freed \cup Owned
  /\ mpc' = "dlock"
  /\ mi' = 0
  /\ UNCHANGED <<queueVars, signalVars, jobs, schedule, thread_mutex, sleepVars, destruct,
                 threadVars, plan, schedules, crashed>>

\* Faulty variant: destruct is set before the mutexes are held.
LockThreadsLate ==
  /\ mpc = "dlock"
  /\ Lock(mi, "main")
  /\ NextOwnerCore("dunlock")
  /\ destruct' = TRUE
  /\ UNCHANGED <<queueVars, signalVars, jobVars, schedule, sleepVars, threadVars,
                 plan, schedules, crashed>>

\* Lock every thread's mutex; with all of them held, set destruct.
LockThreads ==
  /\ mpc = "dlock"
  /\ Lock(mi, "main")
  /\ NextOwnerCore("dunlock")
  /\ destruct' = (mi + 1 = p)
  /\ UNCHANGED <<queueVars, signalVars, jobVars, schedule, sleepVars, threadVars,
                 plan, schedules, crashed>>

\* Faulty variant: the mutex is given back and nobody notified.
ReleaseThreadSilently ==
  /\ mpc = "dunlock"
  /\ Unlock(mi)
  /\ mpc' = "djointhread"
  /\ UNCHANGED <<queueVars, signalVars, jobVars, schedule, sleepVars, destruct, threadVars,
                 mi, plan, schedules, crashed>>

ReleaseThread ==
  /\ mpc = "dunlock"
  /\ Unlock(mi)
  /\ NotifyThread(mi)
  /\ mpc' = "djointhread"
  /\ UNCHANGED <<queueVars, signalVars, jobVars, schedule, sleepVars, destruct, queue, late,
                 mi, plan, schedules, crashed>>

JoinThread ==
  /\ mpc = "djointhread"
  /\ loop[mi] = "exited"
  /\ IF mi + 1 < p
     THEN mpc' = "dunlock" /\ mi' = mi + 1
     ELSE mpc' = "dead" /\ mi' = 0
  /\ UNCHANGED <<queueVars, signalVars, jobVars, schedule, thread_mutex, sleepVars, destruct,
                 threadVars, plan, schedules, crashed>>

-----------------------------------------------------------------------------

\* What the owner does inside a call, without being asked.
OwnerStep ==
  \/ AwaitSleepers \/ ScheduleOnCore \/ QueueStep
  \/ ClearJob \/ ReleaseJob \/ FreeJob
  \/ JoinSignalThread \/ ClearSchedule \/ ReleaseNextJob \/ AllReleased \/ FreeJobs
  \/ LockThreads \/ ReleaseThread \/ JoinThread

OwnerCall ==
  \/ \E j \in Jobs : NewJob(j)
  \/ \E j \in Owned :
       \/ \E S \in SUBSET Cores : ScheduleJob(j, S)
       \/ QueueCall(j)
       \/ DeleteJob(j)
  \/ DeleteSingleton

Next ==
  /\ ~crashed
  /\ \/ \E i \in Cores : PoolStep(i) \/ SpuriousWake(i)
     \/ SignalStep
     \/ Controller
     \/ OwnerStep
     \/ OwnerCall
     \/ OwnerSpurious

Spec == Init /\ [][Next]_vars

\* The operating system runs every thread that can run.  Calls of the owner
\* and signals just happen or not.
Fairness ==
  /\ \A i \in Cores : WF_vars(~crashed /\ PoolStep(i))
  /\ WF_vars(~crashed /\ SignalStep)
  /\ WF_vars(~crashed /\ OwnerStep)

FairSpec == Spec /\ Fairness

-----------------------------------------------------------------------------
(* Properties. *)

ThreadPC == {"top", "test", "count", "park", "parked", "woken", "take", "call", "inqueue",
             "exited"}
Destroying == {"djoin", "dclear", "drelease", "dwait", "dfree", "dlock", "dunlock",
               "djointhread"}
OwnerPC == {"init", "idle", "schedule", "jclear", "jrelease", "jfree", "dead"} \cup Destroying

TypeOK ==
  /\ WQ!TypeOK
  /\ ST!TypeOK /\ ST!InBounds
  /\ jobs \in Seq(Jobs)
  /\ freed \in SUBSET Jobs
  /\ schedule \in [Cores -> Jobs \cup {NULL}]
  /\ thread_mutex \in [Cores -> {"free", "worker", "main"}]
  /\ sleeping \in 0 .. p
  /\ destruct \in BOOLEAN
  /\ loop \in [Cores -> ThreadPC]
  /\ queue \in [Cores -> Jobs \cup {NULL}]
  /\ mpc \in OwnerPC
  /\ mi \in Nat
  /\ mwaiting \in BOOLEAN
  /\ plan \in [job : Jobs \cup {NULL}, cores : SUBSET Cores]
  /\ schedules \in 0 .. MaxSchedules
  /\ late \in [Cores -> Nat]
  /\ crashed \in BOOLEAN

\* The count constructor and destructor wait on is the number of pool threads
\* inside thread_cd[i]->wait(), counting those on their way in or out of it.
SleepingExact ==
  sleeping = Cardinality({i \in Cores : loop[i] \in {"park", "parked", "woken"}})

\* The scenario the comment in signalthreadfunction describes cannot happen: a
\* thread that has decided to sleep, or sleeps unnotified, has nothing
\* scheduled or a blocked core, whatever the signal thread and the owner did
\* between its decision and its wait.
NoLostWakeup ==
  \A i \in Cores :
    loop[i] \in {"count", "park", "parked"} => schedule[i] = NULL \/ ~availableCores[i]

\* Malleability: each time a core is blocked or taken off a job, its thread
\* starts at most one more packet of a job it is no longer entitled to.
AtMostOneLatePacket == \A i \in Cores : late[i] <= 1

\* The destructor frees the jobs only after every pool thread has given up its
\* job pointer: no thread is in a deleted queue or about to enter one.  (Of
\* deleteJob the code itself says that this is "not yet safe".)
NoUseAfterFree ==
  mpc \in {"dlock", "dunlock", "djointhread", "dead"} =>
    \A i \in Cores : loop[i] \notin {"call", "inqueue"}

\* When destruct is set each pool thread is inside its wait (or has left it
\* because of destruct), so none can miss destruct and go to sleep for good.
DestructFindsAllAsleep ==
  destruct => \A i \in Cores : loop[i] \in {"parked", "woken", "exited"}

\* "wait until this thread is scheduled to a job": a thread that has waited
\* calls a job, not a null pointer.
CallsAJob == ~crashed

Blocked(j) == cpc[Main] \in {"bud", "budwait"} /\ cq[Main] = j

\* While every core stays available, blockuntildone on a job that has a core
\* returns.
BlockUntilDoneReturns ==
  \A j \in Jobs :
    Blocked(j) /\ (\E i \in Cores : schedule[i] = j)
      ~> cpc[Main] = "idle" \/ crashed \/ \E i \in Cores : ~availableCores[i]

\* "blocks until there is no more active Thread working on the Jobs in the
\* Queue": with the queue empty and nobody active it unblocks.
BlocksNoLonger ==
  \A j \in Jobs :
    Blocked(j) /\ q[j] = <<>> /\ active[j] = 0
      ~> cpc[Main] = "idle" \/ active[j] > 0 \/ crashed

\* "Schedules the given Job onto the given Cores": packets of a job that has an
\* available core get executed.
ScheduledJobRuns ==
  \A j \in Jobs, i \in Items :
    i \in WQ!Queued(j) /\ (\E c \in Cores : schedule[c] = j /\ availableCores[c])
      ~> i \in done \/ mpc # "idle" \/ crashed

\* Once the signal thread is joined, the destructor ends, unless a pool thread
\* has fallen asleep in a released queue or called a null job.
DestructorReturns ==
  mpc \in Destroying ~>
    mpc = "dead" \/ crashed \/ \E j \in Jobs : qdestruct[j] /\ WQ!Waiting(j) # {}

=============================================================================
