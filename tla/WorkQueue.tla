------------------------------ MODULE WorkQueue ------------------------------
(***************************************************************************)
(* Scheduler::WorkQueue (malms/threadpool/workqueue.h): the blocking queue  *)
(* of one job.  The module carries a set of queues, because one scheduler   *)
(* owns a list of jobs and a pool thread can be inside at most one of them. *)
(*                                                                          *)
(* q, active, sleeping are touched only under `mut', and no thread keeps    *)
(* `mut' across a blocking point, so each critical section is one action.   *)
(* The one access outside `mut', the test of `destruct' that opens          *)
(* wait_and_workOne, is an action of its own.  A thread blocked in          *)
(* cd.wait() is "waiting" until a notification (or a spurious wakeup)       *)
(* makes it "woken"; it then still has to get the mutex back.               *)
(***************************************************************************)
EXTENDS Integers, Sequences, FiniteSets

CONSTANTS
  Queues,    \* the WorkQueue objects
  Workers,   \* the pool threads, callers of wait_and_workOne
  Clients,   \* threads outside the pool: push, blockuntildone, release
  Items,     \* the WorkQueueItem objects
  NoQueue,   \* "inside no queue"
  NoItem     \* "executing nothing"

ASSUME WorkQueueAssumption ==
  /\ IsFiniteSet(Workers)
  /\ NoQueue \notin Queues
  /\ NoItem \notin Items

VARIABLES
  q,         \* q[j]: the deque of packets
  active,    \* active[j]: the code's count of threads at work
  sleeping,  \* sleeping[j]: the code's count of threads in cd.wait()
  destruct,  \* destruct[j]: set by releaseWaitingThreads
  wpc,       \* wpc[w]: where worker w is in wait_and_workOne
  wq,        \* wq[w]: the queue w is inside of
  item,      \* item[w]: the packet w executes
  cpc,       \* cpc[c]: where client c is in blockuntildone / release
  cq,        \* cq[c]: the queue that call of c is about
  done       \* history: packets whose execution has finished

queueVars == <<q, active, sleeping, destruct>>
workerVars == <<wpc, wq, item>>
clientVars == <<cpc, cq>>
vars == <<q, active, sleeping, destruct, wpc, wq, item, cpc, cq, done>>

WorkerPC == {"out", "entering", "waiting", "woken", "running"}
ClientPC == {"idle", "bud", "budwait", "rel", "relwait"}

At(j, pcs) == {w \in Workers : wq[w] = j /\ wpc[w] \in pcs}
Running(j) == At(j, {"running"})
Waiting(j) == At(j, {"waiting"})
Woken(j) == At(j, {"woken"})
Asleep(j) == At(j, {"waiting", "woken"})

Queued(j) == {q[j][n] : n \in DOMAIN q[j]}
Executing(j) == {item[w] : w \in Running(j)}
Fresh(i) == i \notin done /\ \A j \in Queues : i \notin Queued(j) \cup Executing(j)

Init ==
  /\ q = [j \in Queues |-> <<>>]
  /\ active = [j \in Queues |-> 0]
  /\ sleeping = [j \in Queues |-> 0]
  /\ destruct = [j \in Queues |-> FALSE]
  /\ wpc = [w \in Workers |-> "out"]
  /\ wq = [w \in Workers |-> NoQueue]
  /\ item = [w \in Workers |-> NoItem]
  /\ cpc = [c \in Clients |-> "idle"]
  /\ cq = [c \in Clients |-> NoQueue]
  /\ done = {}

-----------------------------------------------------------------------------
(* external_cd: every client blocked on queue j goes back to its loop test. *)

Retest == [budwait |-> "bud", relwait |-> "rel"]

NotifyExternal(j) ==
  cpc' = [c \in Clients |->
            IF cq[c] = j /\ cpc[c] \in DOMAIN Retest THEN Retest[cpc[c]] ELSE cpc[c]]

NotifyExternalIf(cond, j) == IF cond THEN NotifyExternal(j) ELSE UNCHANGED cpc

-----------------------------------------------------------------------------
(* wait_and_workOne, one action per stretch between two scheduling points.  *)

\* The unlocked test of destruct lets the worker go on to take the mutex.
Enter(w, j) ==
  /\ wpc[w] = "out"
  /\ ~destruct[j]
  /\ wpc' = [wpc EXCEPT ![w] = "entering"]
  /\ wq' = [wq EXCEPT ![w] = j]
  /\ UNCHANGED <<queueVars, item, clientVars, done>>

\* Faulty variant: the packet stays in the deque while it is executed.
TakeFrontKeeps(w, j) ==
  /\ q[j] # <<>>
  /\ item' = [item EXCEPT ![w] = Head(q[j])]
  /\ active' = [active EXCEPT ![j] = @ + 1]
  /\ wpc' = [wpc EXCEPT ![w] = "running"]
  /\ UNCHANGED <<q, destruct, wq, clientVars, done>>

\* Pop the front packet and give up the mutex to execute it.
TakeFront(w, j) ==
  /\ q[j] # <<>>
  /\ q' = [q EXCEPT ![j] = Tail(@)]
  /\ item' = [item EXCEPT ![w] = Head(q[j])]
  /\ active' = [active EXCEPT ![j] = @ + 1]
  /\ wpc' = [wpc EXCEPT ![w] = "running"]
  /\ UNCHANGED <<destruct, wq, clientVars, done>>

\* Faulty variant: the last active worker goes to sleep without a word.
WaitForPacketSilently(w, j) ==
  /\ q[j] = <<>>
  /\ wpc' = [wpc EXCEPT ![w] = "waiting"]
  /\ UNCHANGED <<q, active, destruct, wq, item, clientVars, done>>

\* The queue is empty: active++ and active-- cancel, and the last active
\* worker to find it empty wakes the clients.
WaitForPacket(w, j) ==
  /\ q[j] = <<>>
  /\ wpc' = [wpc EXCEPT ![w] = "waiting"]
  /\ NotifyExternalIf(active[j] = 0, j)
  /\ UNCHANGED <<q, active, destruct, wq, item, cq, done>>

EnterTake(w) ==
  /\ wpc[w] = "entering"
  /\ TakeFront(w, wq[w])
  /\ UNCHANGED sleeping

EnterSleep(w) ==
  /\ wpc[w] = "entering"
  /\ WaitForPacket(w, wq[w])
  /\ sleeping' = [sleeping EXCEPT ![wq[w]] = @ + 1]

\* cd.wait() returned and the queue is still in service: sleeping--, then the
\* loop test; going back to sleep undoes the decrement.
WakeTake(w) ==
  /\ wpc[w] = "woken"
  /\ ~destruct[wq[w]]
  /\ TakeFront(w, wq[w])
  /\ sleeping' = [sleeping EXCEPT ![wq[w]] = @ - 1]

WakeSleep(w) ==
  /\ wpc[w] = "woken"
  /\ ~destruct[wq[w]]
  /\ WaitForPacket(w, wq[w])
  /\ UNCHANGED sleeping

\* Faulty variant: active-- without the active++ that follows the wait.
WakeLeaveUncounted(w) ==
  LET j == wq[w] IN
  /\ wpc[w] = "woken"
  /\ destruct[j]
  /\ sleeping' = [sleeping EXCEPT ![j] = @ - 1]
  /\ active' = [active EXCEPT ![j] = @ - 1]
  /\ NotifyExternalIf(sleeping'[j] = 0 /\ active'[j] = 0, j)
  /\ wpc' = [wpc EXCEPT ![w] = "out"]
  /\ wq' = [wq EXCEPT ![w] = NoQueue]
  /\ UNCHANGED <<q, destruct, item, cq, done>>

\* Faulty variant: the last thread to leave does not notify.
WakeLeaveSilently(w) ==
  LET j == wq[w] IN
  /\ wpc[w] = "woken"
  /\ destruct[j]
  /\ sleeping' = [sleeping EXCEPT ![j] = @ - 1]
  /\ wpc' = [wpc EXCEPT ![w] = "out"]
  /\ wq' = [wq EXCEPT ![w] = NoQueue]
  /\ UNCHANGED <<q, active, destruct, item, clientVars, done>>

\* cd.wait() returned in a released queue: leave without looking at q.
WakeLeave(w) ==
  LET j == wq[w] IN
  /\ wpc[w] = "woken"
  /\ destruct[j]
  /\ sleeping' = [sleeping EXCEPT ![j] = @ - 1]
  /\ NotifyExternalIf(sleeping'[j] = 0 /\ active[j] = 0, j)
  /\ wpc' = [wpc EXCEPT ![w] = "out"]
  /\ wq' = [wq EXCEPT ![w] = NoQueue]
  /\ UNCHANGED <<q, active, destruct, item, cq, done>>

\* Faulty variant: the worker leaves still counted as active.
FinishStaysActive(w) ==
  /\ wpc[w] = "running"
  /\ done' = done \cup {item[w]}
  /\ wpc' = [wpc EXCEPT ![w] = "out"]
  /\ wq' = [wq EXCEPT ![w] = NoQueue]
  /\ item' = [item EXCEPT ![w] = NoItem]
  /\ UNCHANGED <<queueVars, clientVars>>

\* The packet has been executed; the final critical section.  Clients are
\* notified here only when the queue is being released.
Finish(w) ==
  LET j == wq[w] IN
  /\ wpc[w] = "running"
  /\ done' = done \cup {item[w]}
  /\ active' = [active EXCEPT ![j] = @ - 1]
  /\ NotifyExternalIf(destruct[j] /\ sleeping[j] = 0 /\ active'[j] = 0, j)
  /\ wpc' = [wpc EXCEPT ![w] = "out"]
  /\ wq' = [wq EXCEPT ![w] = NoQueue]
  /\ item' = [item EXCEPT ![w] = NoItem]
  /\ UNCHANGED <<q, sleeping, destruct, cq>>

\* A condition variable may return from wait() unnotified.
SpuriousWake(w) ==
  /\ wpc[w] = "waiting"
  /\ wpc' = [wpc EXCEPT ![w] = "woken"]
  /\ UNCHANGED <<queueVars, wq, item, clientVars, done>>

-----------------------------------------------------------------------------
(* The client side. *)

\* Faulty variants: nobody is notified, or only over an empty deque.
NotifyNobody(j) == UNCHANGED wpc

NotifyOneIfEmpty(j) ==
  IF Waiting(j) = {} \/ q[j] # <<>>
  THEN UNCHANGED wpc
  ELSE \E w \in Waiting(j) : wpc' = [wpc EXCEPT ![w] = "woken"]

\* notify_one: one thread blocked in cd.wait(), if there is any.
NotifyOne(j) ==
  IF Waiting(j) = {}
  THEN UNCHANGED wpc
  ELSE \E w \in Waiting(j) : wpc' = [wpc EXCEPT ![w] = "woken"]

Push(c, j, i) ==
  /\ cpc[c] = "idle"
  /\ Fresh(i)
  /\ q' = [q EXCEPT ![j] = Append(@, i)]
  /\ NotifyOne(j)
  /\ UNCHANGED <<active, sleeping, destruct, wq, item, clientVars, done>>

\* The call; its first critical section is BudReturn or BudWait.
BlockUntilDone(c, j) ==
  /\ cpc[c] = "idle"
  /\ cpc' = [cpc EXCEPT ![c] = "bud"]
  /\ cq' = [cq EXCEPT ![c] = j]
  /\ UNCHANGED <<queueVars, workerVars, done>>

\* Faulty variant: the packets still being executed are forgotten.
DrainedDeque(j) == q[j] = <<>>

Drained(j) == q[j] = <<>> /\ ~(active[j] > 0)

BudReturn(c) ==
  /\ cpc[c] = "bud"
  /\ Drained(cq[c])
  /\ cpc' = [cpc EXCEPT ![c] = "idle"]
  /\ cq' = [cq EXCEPT ![c] = NoQueue]
  /\ UNCHANGED <<queueVars, workerVars, done>>

BudWait(c) ==
  /\ cpc[c] = "bud"
  /\ ~Drained(cq[c])
  /\ cpc' = [cpc EXCEPT ![c] = "budwait"]
  /\ UNCHANGED <<queueVars, workerVars, cq, done>>

\* Faulty variant: the sleepers are forgotten.
DesertedByActive(j) == active[j] = 0

Deserted(j) == active[j] = 0 /\ sleeping[j] = 0

\* releaseWaitingThreads up to its first wait, all under mut: set destruct,
\* notify_all, and return at once when nobody is inside.
Release(c, j) ==
  /\ cpc[c] = "idle"
  /\ destruct' = [destruct EXCEPT ![j] = TRUE]
  /\ wpc' = [w \in Workers |-> IF w \in Waiting(j) THEN "woken" ELSE wpc[w]]
  /\ IF Deserted(j)
     THEN UNCHANGED clientVars
     ELSE /\ cpc' = [cpc EXCEPT ![c] = "relwait"]
          /\ cq' = [cq EXCEPT ![c] = j]
  /\ UNCHANGED <<q, active, sleeping, wq, item, done>>

RelReturn(c) ==
  /\ cpc[c] = "rel"
  /\ Deserted(cq[c])
  /\ cpc' = [cpc EXCEPT ![c] = "idle"]
  /\ cq' = [cq EXCEPT ![c] = NoQueue]
  /\ UNCHANGED <<queueVars, workerVars, done>>

RelWait(c) ==
  /\ cpc[c] = "rel"
  /\ ~Deserted(cq[c])
  /\ cpc' = [cpc EXCEPT ![c] = "relwait"]
  /\ UNCHANGED <<queueVars, workerVars, cq, done>>

SpuriousExternal(c) ==
  /\ cpc[c] \in DOMAIN Retest
  /\ cpc' = [cpc EXCEPT ![c] = Retest[cpc[c]]]
  /\ UNCHANGED <<queueVars, workerVars, cq, done>>

-----------------------------------------------------------------------------

\* What a worker inside the queue does without being asked.
WorkerStep(w) ==
  \/ EnterTake(w)
  \/ EnterSleep(w)
  \/ WakeTake(w)
  \/ WakeSleep(w)
  \/ WakeLeave(w)
  \/ Finish(w)

\* What a client inside a blocking call does.
ClientStep(c) ==
  \/ BudReturn(c)
  \/ BudWait(c)
  \/ RelReturn(c)
  \/ RelWait(c)

ClientCall(c, j) ==
  \/ \E i \in Items : Push(c, j, i)
  \/ BlockUntilDone(c, j)
  \/ Release(c, j)

Next ==
  \/ \E w \in Workers : WorkerStep(w) \/ SpuriousWake(w)
  \/ \E w \in Workers, j \in Queues : Enter(w, j)
  \/ \E c \in Clients : ClientStep(c) \/ SpuriousExternal(c)
  \/ \E c \in Clients, j \in Queues : ClientCall(c, j)

Spec == Init /\ [][Next]_vars

\* The operating system runs every thread that can run.  Nothing makes a
\* worker enter the queue or a client call it.
Fairness ==
  /\ \A w \in Workers : WF_vars(WorkerStep(w))
  /\ \A c \in Clients : WF_vars(ClientStep(c))

FairSpec == Spec /\ Fairness

\* Every core stays available and scheduled on the job: a worker that leaves
\* the queue always comes back (the loop of the pool thread).
DedicatedSpec ==
  /\ FairSpec
  /\ \A w \in Workers : WF_vars(\E j \in Queues : Enter(w, j))

-----------------------------------------------------------------------------
(* Properties. *)

Types ==
  /\ q \in [Queues -> Seq(Items)]
  /\ active \in [Queues -> Int]
  /\ sleeping \in [Queues -> Int]
  /\ destruct \in [Queues -> BOOLEAN]
  /\ wpc \in [Workers -> WorkerPC]
  /\ wq \in [Workers -> Queues \cup {NoQueue}]
  /\ item \in [Workers -> Items \cup {NoItem}]
  /\ cpc \in [Clients -> ClientPC]
  /\ cq \in [Clients -> Queues \cup {NoQueue}]
  /\ done \in SUBSET Items

\* Every variable has its type, and the two counters never become negative.
TypeOK == Types /\ \A j \in Queues : active[j] >= 0 /\ sleeping[j] >= 0

\* The two counters blockuntildone and releaseWaitingThreads decide by count
\* real threads: active those executing a packet, sleeping those that are in
\* cd.wait() or on their way out of it.
CountersExact ==
  \A j \in Queues :
    /\ active[j] = Cardinality(Running(j))
    /\ sleeping[j] = Cardinality(Asleep(j))

\* No packet is stranded by push's notify_one: while some thread sleeps in a
\* queue in service without having been notified, every packet in the deque
\* has a notified thread of its own coming for it.
NoLostPush ==
  \A j \in Queues :
    ~destruct[j] /\ Waiting(j) # {} => Len(q[j]) <= Cardinality(Woken(j))

\* blockuntildone returns only over a queue with no packet left and no thread
\* executing one; it decides that from q and active alone.
BarrierSound ==
  [][\A c \in Clients :
       cpc[c] = "bud" /\ cpc'[c] = "idle" =>
         Queued(cq[c]) = {} /\ Running(cq[c]) = {}]_vars

\* When releaseWaitingThreads returns, whoever was working or asleep in the
\* queue has left it: at most a thread that is still before the mutex of
\* wait_and_workOne is inside.
ReleaseSound ==
  [][\A j \in Queues :
       \/ \E c \in Clients : cpc[c] = "rel" /\ cpc'[c] = "idle" /\ cq[c] = j
       \/ ~destruct[j] /\ destruct'[j] /\ UNCHANGED cpc
       => Running(j)' = {} /\ Asleep(j)' = {}]_vars

\* The queue implements the abstract job: packets started and completed once,
\* and a barrier that opens over an idle job only.
Barrier == INSTANCE JobBarrier WITH
  todo <- [j \in Queues |-> Queued(j)],
  doing <- [j \in Queues |-> Executing(j)],
  barrier <- [c \in Clients |-> IF cpc[c] \in {"bud", "budwait"} THEN cq[c] ELSE NoQueue]

ImplementsBarrier == Barrier!Spec

\* While every worker keeps coming back, a client that waits for a queue in
\* service gets through, however pushes, takes and sleeps interleave.
BarrierOpens ==
  \A c \in Clients, j \in Queues :
    cpc[c] \in {"bud", "budwait"} /\ cq[c] = j ~> cpc[c] = "idle" \/ destruct[j]

\* While every worker keeps coming back, no pushed packet stays in the deque
\* of a queue in service.
PacketsRun ==
  \A i \in Items, j \in Queues : i \in Queued(j) ~> i \in done \/ destruct[j]

\* A release returns, unless a thread that had passed the unlocked test of
\* destruct fell asleep in the queue after the notify_all.
ReleaseReturns ==
  \A c \in Clients, j \in Queues :
    cpc[c] \in {"rel", "relwait"} /\ cq[c] = j ~> cpc[c] = "idle" \/ Waiting(j) # {}

=============================================================================
