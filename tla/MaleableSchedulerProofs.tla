----------------------- MODULE MaleableSchedulerProofs -----------------------
(***************************************************************************)
(* Proofs about MaleableScheduler for every number of pool threads, jobs,   *)
(* packets, calls and signals, with spurious wake-ups and deleteJob or      *)
(* without.  The invariant says, core by core, what thread_mutex, schedule, *)
(* the position of the owner and that of the pool thread have to do with    *)
(* one another.                                                             *)
(***************************************************************************)
EXTENDS MaleableScheduler, FiniteSetTheorems, SequenceTheorems, TLAPS

USE MaleableSchedulerAssumption

\* f is a function on the cores, whatever its values.
OnCores(f) == f = [i \in Cores |-> f[i]]

Shape ==
  /\ loop \in [Cores -> ThreadPC]
  /\ thread_mutex \in [Cores -> {"free", "worker", "main"}]
  /\ availableCores \in [Cores -> BOOLEAN]
  /\ late \in [Cores -> Nat]
  /\ wpc \in [Cores -> WQ!WorkerPC]
  /\ OnCores(schedule) /\ OnCores(queue) /\ OnCores(wq)
  /\ mpc \in OwnerPC

\* The owner's loops stay within the cores, and destruct is set with the last
\* of the mutexes.
OwnerInv ==
  /\ mpc \in {"schedule", "jclear", "dclear", "dlock", "dunlock", "djointhread"} => mi \in Cores
  /\ destruct <=> mpc \in {"dunlock", "djointhread", "dead"}

\* Who holds the mutex of thread i.
LockInv(i) ==
  /\ thread_mutex[i] = "worker" <=> loop[i] \in {"test", "count", "park", "take"}
  /\ thread_mutex[i] = "main" <=>
       \/ mpc = "dlock" /\ i < mi
       \/ mpc = "dunlock" /\ i >= mi
       \/ mpc = "djointhread" /\ i > mi

NotLost(i) ==
  loop[i] \in {"count", "park", "parked"} => schedule[i] = NULL \/ ~availableCores[i]

\* What the destructor has achieved for thread i.
ShutDown(i) ==
  /\ \/ mpc \in {"drelease", "dwait", "dfree", "dlock", "dunlock", "djointhread", "dead"}
     \/ mpc = "dclear" /\ i < mi
     => schedule[i] = NULL
  /\ mpc \in {"dfree", "dlock", "dunlock", "djointhread", "dead"} =>
       loop[i] \in {"test", "count", "park", "parked", "woken", "exited"}
  /\ destruct => loop[i] \in {"parked", "woken", "exited"}

\* Thread i has started one packet it was not entitled to, if any, and is not
\* on its way to another.
LateInv(i) ==
  /\ late[i] \in {0, 1}
  /\ loop[i] # "inqueue" => wpc[i] = "out"
  /\ late[i] = 1 =>
       /\ loop[i] = "take" => availableCores[i]
       /\ loop[i] = "call" => Entitled(i, queue[i])
       /\ wpc[i] \in {"entering", "waiting", "woken"} => Entitled(i, wq[i])

CoreInv(i) == LockInv(i) /\ NotLost(i) /\ ShutDown(i) /\ LateInv(i)

Inv == Shape /\ OwnerInv /\ SleepingExact /\ \A i \in Cores : CoreInv(i)

-----------------------------------------------------------------------------
(* The threads that count as asleep.                                        *)

Asleep == {i \in Cores : loop[i] \in {"park", "parked", "woken"}}

LEMMA CoresFinite ==
  /\ p \in Nat \ {0}
  /\ IsFiniteSet(Cores) /\ Cardinality(Cores) = p
  /\ \A S \in SUBSET Cores : IsFiniteSet(S) /\ Cardinality(S) \in Nat
  /\ \A S \in SUBSET Cores : Cardinality(S) >= p => S = Cores
<1>1. p \in Nat \ {0}
  OBVIOUS
<1>2. IsFiniteSet(Cores) /\ Cardinality(Cores) = p
  BY <1>1, FS_Interval DEF Cores
<1>3. ASSUME NEW S \in SUBSET Cores
      PROVE  IsFiniteSet(S) /\ Cardinality(S) \in Nat /\ (Cardinality(S) >= p => S = Cores)
  BY <1>1, <1>2, FS_Subset, FS_CardinalityType
<1> QED BY <1>1, <1>2, <1>3

\* Thread i goes from one position to another, the others stay.
LEMMA SleepersMove ==
  ASSUME Shape, SleepingExact, NEW i \in Cores, NEW there \in ThreadPC,
         loop' = [loop EXCEPT ![i] = there],
         sleeping' = sleeping + (IF there \in {"park", "parked", "woken"} THEN 1 ELSE 0)
                              - (IF loop[i] \in {"park", "parked", "woken"} THEN 1 ELSE 0)
  PROVE  SleepingExact'
<1> DEFINE T == {k \in Cores : loop'[k] \in {"park", "parked", "woken"}}
<1>1. Asleep \subseteq Cores /\ T \subseteq Cores
  BY DEF Asleep
<1>2. /\ i \in Asleep <=> loop[i] \in {"park", "parked", "woken"}
      /\ i \in T <=> there \in {"park", "parked", "woken"}
      /\ T \ {i} = Asleep \ {i}
  BY DEF Asleep, Shape
<1>3. sleeping = Cardinality(Asleep)
  BY DEF Asleep, SleepingExact
<1> HIDE DEF T
<1>4. /\ Cardinality(T \ {i}) = Cardinality(T) - (IF i \in T THEN 1 ELSE 0)
      /\ Cardinality(Asleep \ {i}) = Cardinality(Asleep) - (IF i \in Asleep THEN 1 ELSE 0)
      /\ Cardinality(T) \in Nat /\ Cardinality(Asleep) \in Nat
  BY <1>1, CoresFinite, FS_RemoveElement
<1>5. Cardinality(T \ {i}) = Cardinality(Asleep \ {i})
  BY <1>2
<1>6. sleeping' = Cardinality(T)
  <2>1. CASE i \in T
    BY <2>1, <1>2, <1>3, <1>4, <1>5
  <2>2. CASE i \notin T
    BY <2>2, <1>2, <1>3, <1>4, <1>5
  <2> QED BY <2>1, <2>2
<1> QED BY <1>6 DEF T, SleepingExact

\* No thread starts or ends a sleep.
LEMMA SleepersStay ==
  ASSUME SleepingExact, UNCHANGED sleeping,
         \A i \in Cores : loop'[i] \in {"park", "parked", "woken"}
                            <=> loop[i] \in {"park", "parked", "woken"}
  PROVE  SleepingExact'
<1>1. {i \in Cores : loop'[i] \in {"park", "parked", "woken"}} = Asleep
  BY DEF Asleep
<1> QED BY <1>1 DEF Asleep, SleepingExact

-----------------------------------------------------------------------------
(* The pool threads.                                                        *)

LEMMA InvInit == Init => Inv
<1> SUFFICES ASSUME Init PROVE Inv
  OBVIOUS
<1> USE DEF Init
<1>1. Shape
  BY DEF Shape, OnCores, ThreadPC, OwnerPC, WQ!Init, ST!Init, ST!Cores, Cores, WQ!WorkerPC
<1>2. OwnerInv
  BY DEF OwnerInv
<1>3. SleepingExact
  <2>1. {i \in Cores : loop[i] \in {"park", "parked", "woken"}} = {}
    OBVIOUS
  <2> QED BY <2>1, FS_EmptySet DEF SleepingExact
<1>4. ASSUME NEW i \in Cores PROVE CoreInv(i)
  BY DEF CoreInv, LockInv, NotLost, ShutDown, LateInv, WQ!Init
<1> QED BY <1>1, <1>2, <1>3, <1>4 DEF Inv

\* A step of pool thread i changes what concerns i only.
LEMMA OneThread ==
  ASSUME Inv, NEW i \in Cores,
         UNCHANGED <<availableCores, schedule, destruct, mpc, mi>>,
         Shape', SleepingExact', CoreInv(i)',
         \A k \in Cores \ {i} : /\ loop'[k] = loop[k] /\ thread_mutex'[k] = thread_mutex[k]
                                /\ late'[k] = late[k] /\ queue'[k] = queue[k]
                                /\ wpc'[k] = wpc[k] /\ wq'[k] = wq[k]
  PROVE  Inv'
<1>1. OwnerInv'
  BY DEF Inv, OwnerInv
<1>2. ASSUME NEW k \in Cores \ {i} PROVE CoreInv(k)'
  <2>1. CoreInv(k)
    BY DEF Inv
  <2>2. /\ loop'[k] = loop[k] /\ thread_mutex'[k] = thread_mutex[k] /\ late'[k] = late[k]
        /\ queue'[k] = queue[k] /\ wpc'[k] = wpc[k] /\ wq'[k] = wq[k]
    OBVIOUS
  <2> QED BY <2>1, <2>2 DEF CoreInv, LockInv, NotLost, ShutDown, LateInv, Entitled
<1> QED BY <1>1, <1>2 DEF Inv

LEMMA InvTop == ASSUME Inv, NEW i \in Cores, Top(i) PROVE Inv'
<1>1. /\ loop[i] = "top" /\ thread_mutex[i] = "free"
      /\ loop' = [loop EXCEPT ![i] = "test"]
      /\ thread_mutex' = [thread_mutex EXCEPT ![i] = "worker"]
      /\ UNCHANGED <<availableCores, schedule, destruct, mpc, mi, sleeping, late, queue, wpc, wq>>
  BY DEF Top, Lock, GoTo, queueVars, signalVars, ownerVars, sleepVars
<1>2. Shape'
  BY <1>1 DEF Inv, Shape, OnCores, ThreadPC
<1>3. SleepingExact'
  BY <1>1, SleepersStay DEF Inv, Shape
<1>4. CoreInv(i)'
  BY <1>1 DEF Inv, Shape, CoreInv, LockInv, NotLost, ShutDown, LateInv, Entitled, OwnerInv
<1> QED BY <1>1, <1>2, <1>3, <1>4, OneThread DEF Inv, Shape

LEMMA InvTest == ASSUME Inv, NEW i \in Cores, Test(i) PROVE Inv'
<1>1. /\ loop[i] = "test"
      /\ loop' = [loop EXCEPT ![i] =
                    IF schedule[i] = NULL \/ ~availableCores[i] THEN "count" ELSE "take"]
      /\ UNCHANGED <<availableCores, schedule, destruct, mpc, mi, sleeping, late, queue, wpc, wq,
                     thread_mutex>>
  BY DEF Test, GoTo, queueVars, signalVars, ownerVars, sleepVars
<1>2. Shape'
  BY <1>1 DEF Inv, Shape, OnCores, ThreadPC
<1>3. SleepingExact'
  BY <1>1, SleepersStay DEF Inv, Shape
<1>4. CoreInv(i)'
  BY <1>1 DEF Inv, Shape, CoreInv, LockInv, NotLost, ShutDown, LateInv, Entitled, OwnerInv
<1> QED BY <1>1, <1>2, <1>3, <1>4, OneThread DEF Inv, Shape

LEMMA InvCount == ASSUME Inv, NEW i \in Cores, Count(i) PROVE Inv'
<1>1. /\ loop[i] = "count" /\ loop' = [loop EXCEPT ![i] = "park"] /\ sleeping' = sleeping + 1
      /\ UNCHANGED <<availableCores, schedule, destruct, mpc, mi, late, queue, wpc, wq,
                     thread_mutex>>
  BY DEF Count, GoTo, queueVars, signalVars, ownerVars
<1>2. Shape'
  BY <1>1 DEF Inv, Shape, OnCores, ThreadPC
<1>3. SleepingExact'
  <2>1. sleeping = Cardinality(Asleep) /\ Cardinality(Asleep) \in Nat
    BY CoresFinite DEF Inv, SleepingExact, Asleep
  <2>2. sleeping' = sleeping + 1 - 0
    BY <1>1, <2>1
  <2> QED BY <1>1, <2>2, SleepersMove DEF Inv, ThreadPC
<1>4. CoreInv(i)'
  BY <1>1 DEF Inv, Shape, CoreInv, LockInv, NotLost, ShutDown, LateInv, Entitled, OwnerInv
<1> QED BY <1>1, <1>2, <1>3, <1>4, OneThread DEF Inv, Shape

LEMMA InvPark == ASSUME Inv, NEW i \in Cores, Park(i) PROVE Inv'
<1>1. /\ loop[i] = "park" /\ loop' = [loop EXCEPT ![i] = "parked"]
      /\ thread_mutex' = [thread_mutex EXCEPT ![i] = "free"]
      /\ UNCHANGED <<availableCores, schedule, destruct, mpc, mi, sleeping, late, queue, wpc, wq>>
  BY DEF Park, Unlock, GoTo, queueVars, signalVars, ownerVars, sleepVars
<1>2. Shape'
  BY <1>1 DEF Inv, Shape, OnCores, ThreadPC
<1>3. SleepingExact'
  BY <1>1, SleepersStay DEF Inv, Shape
<1>4. CoreInv(i)'
  BY <1>1 DEF Inv, Shape, CoreInv, LockInv, NotLost, ShutDown, LateInv, Entitled, OwnerInv
<1> QED BY <1>1, <1>2, <1>3, <1>4, OneThread DEF Inv, Shape

LEMMA InvWake == ASSUME Inv, NEW i \in Cores, Wake(i) PROVE Inv'
<1>1. /\ loop[i] = "woken" /\ thread_mutex[i] = "free" /\ sleeping' = sleeping - 1
      /\ loop' = [loop EXCEPT ![i] = IF destruct THEN "exited" ELSE "test"]
      /\ thread_mutex' = [thread_mutex EXCEPT ![i] = IF destruct THEN "free" ELSE "worker"]
      /\ UNCHANGED <<availableCores, schedule, destruct, mpc, mi, late, queue, wpc, wq>>
  <2>1. CASE destruct
    BY <2>1 DEF Wake, GoTo, queueVars, signalVars, ownerVars, Inv, Shape
  <2>2. CASE ~destruct
    BY <2>2 DEF Wake, GoTo, Lock, queueVars, signalVars, ownerVars
  <2> QED BY <2>1, <2>2
<1>2. Shape'
  BY <1>1 DEF Inv, Shape, OnCores, ThreadPC
<1>3. SleepingExact'
  <2> DEFINE there == IF destruct THEN "exited" ELSE "test"
  <2>1. sleeping = Cardinality(Asleep) /\ Cardinality(Asleep) \in Nat
    BY CoresFinite DEF Inv, SleepingExact, Asleep
  <2>2. there \in ThreadPC /\ there \notin {"park", "parked", "woken"}
    BY DEF ThreadPC
  <2>3. loop' = [loop EXCEPT ![i] = there]
    BY <1>1
  <2>4. sleeping' = sleeping + 0 - 1
    BY <1>1, <2>1
  <2> HIDE DEF there
  <2> QED BY <1>1, <2>2, <2>3, <2>4, SleepersMove DEF Inv
<1>4. CoreInv(i)'
  BY <1>1 DEF Inv, Shape, CoreInv, LockInv, NotLost, ShutDown, LateInv, Entitled, OwnerInv
<1> QED BY <1>1, <1>2, <1>3, <1>4, OneThread DEF Inv, Shape

LEMMA InvTake == ASSUME Inv, NEW i \in Cores, Take(i) PROVE Inv'
<1>1. /\ loop[i] = "take" /\ loop' = [loop EXCEPT ![i] = "call"]
      /\ queue' = [queue EXCEPT ![i] = schedule[i]]
      /\ thread_mutex' = [thread_mutex EXCEPT ![i] = "free"]
      /\ UNCHANGED <<availableCores, schedule, destruct, mpc, mi, sleeping, late, wpc, wq>>
  BY DEF Take, Unlock, GoTo, queueVars, signalVars, ownerVars, sleepVars
<1>2. Shape'
  BY <1>1 DEF Inv, Shape, OnCores, ThreadPC
<1>3. SleepingExact'
  BY <1>1, SleepersStay DEF Inv, Shape
<1>4. CoreInv(i)'
  BY <1>1 DEF Inv, Shape, CoreInv, LockInv, NotLost, ShutDown, LateInv, Entitled, OwnerInv, OnCores
<1> QED BY <1>1, <1>2, <1>3, <1>4, OneThread DEF Inv, Shape, OnCores

LEMMA InvCall == ASSUME Inv, NEW i \in Cores, Call(i) PROVE Inv'
<1>1. /\ loop[i] = "call" /\ loop' = [loop EXCEPT ![i] = "inqueue"]
      /\ wpc' = [wpc EXCEPT ![i] = "entering"]
      /\ wq' = [wq EXCEPT ![i] = queue[i]]
      /\ UNCHANGED <<availableCores, schedule, destruct, mpc, mi, sleeping, late, queue,
                     thread_mutex>>
  BY DEF Call, WQ!Enter, GoTo, signalVars, ownerVars, sleepVars
<1>2. Shape'
  BY <1>1 DEF Inv, Shape, OnCores, ThreadPC, WQ!WorkerPC
<1>3. SleepingExact'
  BY <1>1, SleepersStay DEF Inv, Shape
<1>4. CoreInv(i)'
  BY <1>1 DEF Inv, Shape, CoreInv, LockInv, NotLost, ShutDown, LateInv, Entitled, OwnerInv, OnCores
<1> QED BY <1>1, <1>2, <1>3, <1>4, OneThread DEF Inv, Shape, OnCores

\* Back to the top of the loop, from a call that is refused or has returned.
LEMMA InvBackToTop ==
  ASSUME Inv, NEW i \in Cores, CallRefused(i) \/ Return(i) PROVE Inv'
<1>1. /\ loop[i] = "call" \/ (loop[i] = "inqueue" /\ wpc[i] = "out")
      /\ loop' = [loop EXCEPT ![i] = "top"]
      /\ UNCHANGED <<availableCores, schedule, destruct, mpc, mi, sleeping, late, queue, wpc, wq,
                     thread_mutex>>
  <2>1. CASE CallRefused(i)
    BY <2>1 DEF CallRefused, GoTo, queueVars, signalVars, ownerVars, sleepVars
  <2>2. CASE Return(i)
    BY <2>2 DEF Return, GoTo, queueVars, signalVars, ownerVars, sleepVars
  <2> QED BY <2>1, <2>2
<1>2. Shape'
  BY <1>1 DEF Inv, Shape, OnCores, ThreadPC
<1>3. SleepingExact'
  BY <1>1, SleepersStay DEF Inv, Shape
<1>4. CoreInv(i)'
  BY <1>1 DEF Inv, Shape, CoreInv, LockInv, NotLost, ShutDown, LateInv, Entitled, OwnerInv
<1> QED BY <1>1, <1>2, <1>3, <1>4, OneThread DEF Inv, Shape

\* What wait_and_workOne does to the position of the thread inside it.
LEMMA WorkerMoves ==
  ASSUME Shape, NEW i \in Cores, WQ!WorkerStep(i)
  PROVE  /\ wpc' \in [Cores -> WQ!WorkerPC]
         /\ wq' = [k \in Cores |-> wq'[k]]
         /\ \A k \in Cores \ {i} : wpc'[k] = wpc[k] /\ wq'[k] = wq[k]
         /\ \/ wpc[i] \in {"entering", "woken"} /\ wpc'[i] \in {"running", "waiting"}
               /\ wq'[i] = wq[i]
            \/ wpc[i] \in {"woken", "running"} /\ wpc'[i] = "out"
<1> USE DEF Shape, OnCores, WQ!WorkerPC
<1>1. CASE WQ!EnterTake(i) \/ WQ!WakeTake(i)
  BY <1>1 DEF WQ!EnterTake, WQ!WakeTake, WQ!TakeFront
<1>2. CASE WQ!EnterSleep(i) \/ WQ!WakeSleep(i)
  BY <1>2 DEF WQ!EnterSleep, WQ!WakeSleep, WQ!WaitForPacket
<1>3. CASE WQ!WakeLeave(i) \/ WQ!Finish(i)
  BY <1>3 DEF WQ!WakeLeave, WQ!Finish
<1> QED BY <1>1, <1>2, <1>3 DEF WQ!WorkerStep

LEMMA InvInQueue == ASSUME Inv, NEW i \in Cores, InQueue(i) PROVE Inv'
<1>1. /\ late' = [late EXCEPT ![i] =
                    IF wpc'[i] = "running" /\ ~Entitled(i, wq[i]) THEN @ + 1 ELSE @]
      /\ UNCHANGED <<availableCores, schedule, destruct, mpc, mi, sleeping, loop, queue,
                     thread_mutex>>
      /\ WQ!WorkerStep(i)
  BY DEF InQueue, signalVars, ownerVars, sleepVars
<1>2. /\ wpc' \in [Cores -> WQ!WorkerPC]
      /\ wq' = [k \in Cores |-> wq'[k]]
      /\ \A k \in Cores \ {i} : wpc'[k] = wpc[k] /\ wq'[k] = wq[k]
      /\ \/ wpc[i] \in {"entering", "woken"} /\ wpc'[i] \in {"running", "waiting"}
            /\ wq'[i] = wq[i]
         \/ wpc[i] \in {"woken", "running"} /\ wpc'[i] = "out"
  BY <1>1, WorkerMoves DEF Inv
<1>3. Shape'
  <2>1. late' \in [Cores -> Nat]
    BY <1>1 DEF Inv, Shape
  <2>2. OnCores(wq')
    BY <1>2 DEF OnCores
  <2> QED BY <1>1, <1>2, <2>1, <2>2 DEF Inv, Shape, OnCores
<1>4. SleepingExact'
  BY <1>1, SleepersStay DEF Inv
<1>5. late[i] \in {0, 1} /\ loop[i] = "inqueue" /\ CoreInv(i)
  BY <1>2 DEF Inv, CoreInv, LateInv
<1>6. late'[i] = IF wpc'[i] = "running" /\ ~Entitled(i, wq[i]) THEN late[i] + 1 ELSE late[i]
  BY <1>1 DEF Inv, Shape
<1>7. LateInv(i)'
  BY <1>1, <1>2, <1>5, <1>6 DEF CoreInv, LateInv, Entitled
<1>8. CoreInv(i)'
  BY <1>1, <1>5, <1>7 DEF CoreInv, LockInv, NotLost, ShutDown
<1> QED BY <1>1, <1>2, <1>3, <1>4, <1>8, OneThread DEF Inv, Shape

LEMMA InvSpuriousWake == ASSUME Inv, NEW i \in Cores, SpuriousWake(i) PROVE Inv'
<1>1. UNCHANGED <<availableCores, schedule, destruct, mpc, mi, sleeping, queue, thread_mutex,
                  late>>
  BY DEF SpuriousWake, signalVars, ownerVars, sleepVars
<1>2. \/ loop' = loop /\ wpc[i] = "waiting" /\ wpc' = [wpc EXCEPT ![i] = "woken"] /\ wq' = wq
      \/ loop[i] = "parked" /\ loop' = [loop EXCEPT ![i] = "woken"] /\ UNCHANGED <<wpc, wq>>
  BY DEF SpuriousWake, WQ!SpuriousWake, NotifyThread, queueVars
<1>3. Shape'
  BY <1>1, <1>2 DEF Inv, Shape, OnCores, ThreadPC, WQ!WorkerPC
<1>4. SleepingExact'
  BY <1>1, <1>2, SleepersStay DEF Inv, Shape
<1>5. CoreInv(i)'
  BY <1>1, <1>2 DEF Inv, Shape, CoreInv, LockInv, NotLost, ShutDown, LateInv, Entitled, OwnerInv
<1> QED BY <1>1, <1>2, <1>3, <1>4, <1>5, OneThread DEF Inv, Shape

-----------------------------------------------------------------------------
(* The signal thread.                                                       *)

\* A core becomes available: its thread is notified with its mutex free, so
\* that it is not on its way to sleep.
LEMMA InvUnblockCore ==
  ASSUME Inv, UnblockCore,
         UNCHANGED <<queueVars, schedule, thread_mutex, sleepVars, destruct, queue, ownerVars>>
  PROVE  Inv'
<1>1. /\ thread_mutex[scan] = "free"
      /\ loop' = [loop EXCEPT ![scan] = IF @ = "parked" THEN "woken" ELSE @]
      /\ late' = [late EXCEPT ![scan] = 0]
      /\ availableCores' = [availableCores EXCEPT ![scan] = TRUE]
      /\ UNCHANGED <<schedule, thread_mutex, sleeping, destruct, mpc, mi, queue, wpc, wq>>
  BY DEF UnblockCore, ST!ScanUnblock, NotifyThread, queueVars, sleepVars, ownerVars
<1>2. Shape'
  BY <1>1 DEF Inv, Shape, OnCores, ThreadPC
<1>3. SleepingExact'
  BY <1>1, SleepersStay DEF Inv, Shape
<1>4. OwnerInv'
  BY <1>1 DEF Inv, OwnerInv
<1>5. ASSUME NEW i \in Cores PROVE CoreInv(i)'
  <2>1. CoreInv(i)
    BY DEF Inv
  <2>2. CASE i = scan
    BY <1>1, <2>1, <2>2 DEF Inv, Shape, CoreInv, LockInv, NotLost, ShutDown, LateInv
  <2>3. CASE i # scan
    BY <1>1, <2>1, <2>3
    DEF Inv, Shape, CoreInv, LockInv, NotLost, ShutDown, LateInv, Entitled
  <2> QED BY <2>2, <2>3
<1> QED BY <1>2, <1>3, <1>4, <1>5 DEF Inv

LEMMA InvBlockCore ==
  ASSUME Inv, BlockCore,
         UNCHANGED <<queueVars, schedule, thread_mutex, sleepVars, destruct, queue, ownerVars>>
  PROVE  Inv'
<1>1. /\ late' = [late EXCEPT ![scan] = 0]
      /\ availableCores' = [availableCores EXCEPT ![scan] = FALSE]
      /\ UNCHANGED <<schedule, thread_mutex, sleeping, destruct, mpc, mi, loop, queue, wpc, wq>>
  BY DEF BlockCore, ST!ScanBlock, queueVars, sleepVars, ownerVars
<1>2. Shape'
  BY <1>1 DEF Inv, Shape, OnCores, ThreadPC
<1>3. SleepingExact'
  BY <1>1, SleepersStay DEF Inv, Shape
<1>4. OwnerInv'
  BY <1>1 DEF Inv, OwnerInv
<1>5. ASSUME NEW i \in Cores PROVE CoreInv(i)'
  <2>1. CoreInv(i)
    BY DEF Inv
  <2>2. CASE i = scan
    BY <1>1, <2>1, <2>2 DEF Inv, Shape, CoreInv, LockInv, NotLost, ShutDown, LateInv
  <2>3. CASE i # scan
    BY <1>1, <2>1, <2>3
    DEF Inv, Shape, CoreInv, LockInv, NotLost, ShutDown, LateInv, Entitled
  <2> QED BY <2>2, <2>3
<1> QED BY <1>2, <1>3, <1>4, <1>5 DEF Inv

-----------------------------------------------------------------------------
(* Steps that leave the pool threads' loops alone: at most they wake a      *)
(* thread that waits inside a queue.                                        *)

QueueAtMostWakes ==
  /\ wpc' \in [Cores -> WQ!WorkerPC]
  /\ \A k \in Cores : wpc'[k] = wpc[k] \/ (wpc[k] = "waiting" /\ wpc'[k] = "woken")

LEMMA OwnerMoves ==
  ASSUME Inv, QueueAtMostWakes,
         UNCHANGED <<availableCores, schedule, thread_mutex, sleeping, late, queue, wq, loop>>,
         mpc' \in OwnerPC, OwnerInv',
         \A i \in Cores : LockInv(i)' /\ ShutDown(i)'
  PROVE  Inv'
<1>1. Shape'
  BY DEF Inv, Shape, OnCores, QueueAtMostWakes
<1>2. SleepingExact'
  BY SleepersStay DEF Inv
<1>3. ASSUME NEW i \in Cores PROVE CoreInv(i)'
  <2>1. CoreInv(i)
    BY DEF Inv
  <2>2. wpc'[i] = wpc[i] \/ (wpc[i] = "waiting" /\ wpc'[i] = "woken")
    BY DEF QueueAtMostWakes
  <2>3. NotLost(i)'
    BY <2>1 DEF CoreInv, NotLost
  <2>4. LateInv(i)'
    BY <2>1, <2>2 DEF CoreInv, LateInv, Entitled
  <2> QED BY <2>3, <2>4 DEF CoreInv
<1> QED BY <1>1, <1>2, <1>3 DEF Inv

LEMMA QueueRests == ASSUME Shape, UNCHANGED wpc PROVE QueueAtMostWakes
  BY DEF Shape, QueueAtMostWakes

\* Nothing the invariant speaks of changes but for such a wake-up.
LEMMA Elsewhere ==
  ASSUME Inv, QueueAtMostWakes,
         UNCHANGED <<availableCores, schedule, thread_mutex, sleeping, destruct, late, queue, wq,
                     loop, mpc, mi>>
  PROVE  Inv'
<1>1. mpc' \in OwnerPC /\ OwnerInv'
  BY DEF Inv, Shape, OwnerInv
<1>2. ASSUME NEW i \in Cores PROVE LockInv(i)' /\ ShutDown(i)'
  BY DEF Inv, CoreInv, LockInv, ShutDown
<1> QED BY <1>1, <1>2, OwnerMoves

LEMMA InvOtherSignalStep ==
  ASSUME Inv, OtherSignalStep,
         UNCHANGED <<queueVars, schedule, thread_mutex, sleepVars, destruct, queue, ownerVars>>
  PROVE  Inv'
<1>1. UNCHANGED availableCores
  BY DEF OtherSignalStep, ST!HandleBlock, ST!HandleUnblock, ST!HandleStop, ST!Leave,
         ST!StartScan, ST!SuspendAgain, ST!ScanSame, ST!viewVars
<1>2. UNCHANGED <<schedule, thread_mutex, sleeping, destruct, mpc, mi, loop, late, queue, wpc, wq>>
  BY DEF OtherSignalStep, queueVars, sleepVars, ownerVars
<1> QED BY <1>1, <1>2, QueueRests, Elsewhere DEF Inv

LEMMA InvController == ASSUME Inv, Controller PROVE Inv'
<1>1. UNCHANGED availableCores
  BY DEF Controller, ST!SendBlock, ST!SendUnblock, ST!viewVars
<1>2. UNCHANGED <<schedule, thread_mutex, sleeping, destruct, mpc, mi, loop, late, queue, wpc, wq>>
  BY DEF Controller, queueVars, sleepVars, threadVars, ownerVars
<1> QED BY <1>1, <1>2, QueueRests, Elsewhere DEF Inv

\* The owner's calls on a queue: push wakes at most one thread waiting in it.
LEMMA InvQueueCall == ASSUME Inv, NEW j, QueueCall(j) PROVE Inv'
<1>1. UNCHANGED <<availableCores, schedule, thread_mutex, sleeping, destruct, mpc, mi, loop, late,
                  queue>>
  BY DEF QueueCall, signalVars, sleepVars, threadVars, ownerVars
<1>2. UNCHANGED wq /\ QueueAtMostWakes
  <2>1. CASE WQ!BlockUntilDone(Main, j)
    <3>1. UNCHANGED <<wpc, wq>>
      BY <2>1 DEF WQ!BlockUntilDone, WQ!workerVars
    <3> QED BY <3>1, QueueRests DEF Inv
  <2>2. ASSUME NEW i \in Items, WQ!Push(Main, j, i)
        PROVE  UNCHANGED wq /\ QueueAtMostWakes
    <3>1. UNCHANGED wq /\ WQ!NotifyOne(j)
      BY <2>2 DEF WQ!Push
    <3>2. CASE UNCHANGED wpc
      BY <3>1, <3>2, QueueRests DEF Inv
    <3>3. ASSUME NEW w \in WQ!Waiting(j), wpc' = [wpc EXCEPT ![w] = "woken"]
          PROVE  QueueAtMostWakes
      BY <3>3 DEF Inv, Shape, WQ!Waiting, WQ!At, QueueAtMostWakes, WQ!WorkerPC
    <3> QED BY <3>1, <3>2, <3>3 DEF WQ!NotifyOne
  <2> QED BY <2>1, <2>2 DEF QueueCall
<1> QED BY <1>1, <1>2, Elsewhere

LEMMA InvQueueStep == ASSUME Inv, QueueStep PROVE Inv'
<1>1. UNCHANGED <<wpc, wq>>
  BY DEF QueueStep, WQ!ClientStep, WQ!BudReturn, WQ!BudWait, WQ!RelReturn, WQ!RelWait,
         WQ!workerVars
<1>2. UNCHANGED <<availableCores, schedule, thread_mutex, sleeping, destruct, mpc, mi, loop, late,
                  queue>>
  BY DEF QueueStep, signalVars, sleepVars, threadVars, ownerVars
<1> QED BY <1>1, <1>2, QueueRests, Elsewhere DEF Inv

LEMMA InvOwnerSpurious == ASSUME Inv, OwnerSpurious PROVE Inv'
<1>1. UNCHANGED <<wpc, wq>>
  BY DEF OwnerSpurious, WQ!SpuriousExternal, WQ!workerVars, queueVars
<1>2. UNCHANGED <<availableCores, schedule, thread_mutex, sleeping, destruct, mpc, mi, loop, late,
                  queue>>
  BY DEF OwnerSpurious, signalVars, threadVars, ownerVars
<1> QED BY <1>1, <1>2, QueueRests, Elsewhere DEF Inv

LEMMA InvNewJob == ASSUME Inv, NEW j, NewJob(j) PROVE Inv'
<1>1. UNCHANGED <<availableCores, schedule, thread_mutex, sleeping, destruct, mpc, mi, loop, late,
                  queue, wpc, wq>>
  BY DEF NewJob, queueVars, signalVars, sleepVars, threadVars, ownerVars
<1> QED BY <1>1, QueueRests, Elsewhere DEF Inv

-----------------------------------------------------------------------------
(* The owner, from call to call.                                            *)

\* ~WorkQueue and the destructor's releaseWaitingThreads wake every thread that
\* waits in the queue.
LEMMA ReleaseWakes ==
  ASSUME Inv, NEW j, WQ!Release(Main, j)
  PROVE  UNCHANGED wq /\ QueueAtMostWakes
<1>1. wq' = wq /\ wpc' = [w \in Cores |-> IF w \in WQ!Waiting(j) THEN "woken" ELSE wpc[w]]
  BY DEF WQ!Release
<1> QED BY <1>1 DEF Inv, Shape, WQ!Waiting, WQ!At, QueueAtMostWakes, WQ!WorkerPC

\* The constructor's wait and the destructor's, which ends with all threads
\* asleep.
LEMMA InvAwaitSleepers == ASSUME Inv, AwaitSleepers PROVE Inv'
<1>1. /\ mpc \in {"init", "dwait"}
      /\ \/ sleeping < p /\ UNCHANGED mpc
         \/ ~(sleeping < p) /\ mpc' = (IF mpc = "init" THEN "idle" ELSE "dfree")
      /\ UNCHANGED <<availableCores, schedule, thread_mutex, sleeping, destruct, mi, loop, late,
                     queue, wpc, wq>>
  BY DEF AwaitSleepers, queueVars, signalVars, threadVars
<1>2. mpc' \in OwnerPC /\ OwnerInv'
  BY <1>1 DEF Inv, OwnerInv, OwnerPC, Destroying
<1>3. ~(sleeping < p) => \A i \in Cores : loop[i] \in {"park", "parked", "woken"}
  <2>1. sleeping = Cardinality(Asleep) /\ Asleep \in SUBSET Cores
    BY DEF Inv, SleepingExact, Asleep
  <2>2. ~(sleeping < p) => Asleep = Cores
    <3> HIDE DEF Asleep
    <3> QED BY <2>1, CoresFinite
  <2> QED BY <2>2 DEF Asleep
<1>4. ASSUME NEW i \in Cores PROVE LockInv(i)' /\ ShutDown(i)'
  BY <1>1, <1>3 DEF Inv, OwnerInv, CoreInv, LockInv, ShutDown
<1> QED BY <1>1, <1>2, <1>4, QueueRests, OwnerMoves DEF Inv

\* Steps to a position at which no thread's mutex is held and destruct is not
\* set.
LEMMA InvScheduleOrDelete ==
  ASSUME Inv, OwnerIdle, mi' = 0, mpc' \in {"schedule", "jclear"}, UNCHANGED wpc,
         UNCHANGED <<availableCores, schedule, thread_mutex, sleeping, destruct, loop, late,
                     queue, wq>>
  PROVE  Inv'
<1>1. mpc = "idle"
  BY DEF OwnerIdle
<1>2. mpc' \in OwnerPC /\ OwnerInv'
  BY <1>1 DEF Inv, OwnerInv, OwnerPC, Destroying, Cores
<1>3. ASSUME NEW i \in Cores PROVE LockInv(i)' /\ ShutDown(i)'
  BY <1>1 DEF Inv, OwnerInv, CoreInv, LockInv, ShutDown
<1> QED BY <1>2, <1>3, QueueRests, OwnerMoves DEF Inv

LEMMA InvScheduleJob == ASSUME Inv, NEW j, NEW S, ScheduleJob(j, S) PROVE Inv'
<1>1. /\ OwnerIdle /\ mi' = 0 /\ mpc' = "schedule"
      /\ UNCHANGED <<availableCores, schedule, thread_mutex, sleeping, destruct, loop, late,
                     queue, wpc, wq>>
  BY DEF ScheduleJob, queueVars, signalVars, sleepVars, threadVars
<1> QED BY <1>1, InvScheduleOrDelete

LEMMA InvDeleteJob == ASSUME Inv, NEW j, DeleteJob(j) PROVE Inv'
<1>1. /\ OwnerIdle /\ mi' = 0 /\ mpc' = "jclear"
      /\ UNCHANGED <<availableCores, schedule, thread_mutex, sleeping, destruct, loop, late,
                     queue, wpc, wq>>
  BY DEF DeleteJob, queueVars, signalVars, sleepVars, threadVars
<1> QED BY <1>1, InvScheduleOrDelete

LEMMA InvReleaseJob == ASSUME Inv, ReleaseJob PROVE Inv'
<1>1. /\ mpc = "jrelease" /\ mpc' = "jfree" /\ WQ!Release(Main, plan.job)
      /\ UNCHANGED <<availableCores, schedule, thread_mutex, sleeping, destruct, loop, late,
                     queue, mi>>
  BY DEF ReleaseJob, signalVars, sleepVars, threadVars
<1>2. mpc' \in OwnerPC /\ OwnerInv'
  BY <1>1 DEF Inv, OwnerInv, OwnerPC, Destroying
<1>3. ASSUME NEW i \in Cores PROVE LockInv(i)' /\ ShutDown(i)'
  BY <1>1 DEF Inv, OwnerInv, CoreInv, LockInv, ShutDown
<1> QED BY <1>1, <1>2, <1>3, ReleaseWakes, OwnerMoves

LEMMA InvFreeJob == ASSUME Inv, FreeJob PROVE Inv'
<1>1. /\ mpc = "jfree" /\ mpc' = "idle"
      /\ UNCHANGED <<availableCores, schedule, thread_mutex, sleeping, destruct, loop, late,
                     queue, mi, wpc, wq>>
  BY DEF FreeJob, queueVars, signalVars, sleepVars, threadVars
<1>2. mpc' \in OwnerPC /\ OwnerInv'
  BY <1>1 DEF Inv, OwnerInv, OwnerPC, Destroying
<1>3. ASSUME NEW i \in Cores PROVE LockInv(i)' /\ ShutDown(i)'
  BY <1>1 DEF Inv, OwnerInv, CoreInv, LockInv, ShutDown
<1> QED BY <1>1, <1>2, <1>3, QueueRests, OwnerMoves DEF Inv

LEMMA InvDeleteSingleton == ASSUME Inv, DeleteSingleton PROVE Inv'
<1>1. /\ mpc = "idle" /\ mpc' = "djoin"
      /\ UNCHANGED <<availableCores, schedule, thread_mutex, sleeping, destruct, loop, late,
                     queue, mi, wpc, wq>>
  BY DEF DeleteSingleton, OwnerIdle, ST!SendStop, ST!viewVars, queueVars, sleepVars, threadVars
<1>2. mpc' \in OwnerPC /\ OwnerInv'
  BY <1>1 DEF Inv, OwnerInv, OwnerPC, Destroying
<1>3. ASSUME NEW i \in Cores PROVE LockInv(i)' /\ ShutDown(i)'
  BY <1>1 DEF Inv, OwnerInv, CoreInv, LockInv, ShutDown
<1> QED BY <1>1, <1>2, <1>3, QueueRests, OwnerMoves DEF Inv

LEMMA InvJoinSignalThread == ASSUME Inv, JoinSignalThread PROVE Inv'
<1>1. /\ mpc = "djoin" /\ mpc' = "dclear" /\ mi' = 0
      /\ UNCHANGED <<availableCores, schedule, thread_mutex, sleeping, destruct, loop, late,
                     queue, wpc, wq>>
  BY DEF JoinSignalThread, queueVars, signalVars, sleepVars, threadVars
<1>2. mpc' \in OwnerPC /\ OwnerInv'
  BY <1>1 DEF Inv, OwnerInv, OwnerPC, Destroying, Cores
<1>3. ASSUME NEW i \in Cores PROVE LockInv(i)' /\ ShutDown(i)'
  BY <1>1 DEF Inv, OwnerInv, CoreInv, LockInv, ShutDown, Cores
<1> QED BY <1>1, <1>2, <1>3, QueueRests, OwnerMoves DEF Inv

LEMMA InvReleaseNextJob == ASSUME Inv, ReleaseNextJob PROVE Inv'
<1>1. /\ mpc = "drelease" /\ UNCHANGED mpc /\ WQ!Release(Main, jobs[mi + 1])
      /\ UNCHANGED <<availableCores, schedule, thread_mutex, sleeping, destruct, loop, late,
                     queue>>
  BY DEF ReleaseNextJob, signalVars, sleepVars, threadVars
<1>2. mpc' \in OwnerPC /\ OwnerInv'
  BY <1>1 DEF Inv, OwnerInv, OwnerPC, Destroying
<1>3. ASSUME NEW i \in Cores PROVE LockInv(i)' /\ ShutDown(i)'
  BY <1>1 DEF Inv, OwnerInv, CoreInv, LockInv, ShutDown
<1> QED BY <1>1, <1>2, <1>3, ReleaseWakes, OwnerMoves

LEMMA InvAllReleased == ASSUME Inv, AllReleased PROVE Inv'
<1>1. /\ mpc = "drelease" /\ mpc' = "dwait"
      /\ UNCHANGED <<availableCores, schedule, thread_mutex, sleeping, destruct, loop, late,
                     queue, wpc, wq>>
  BY DEF AllReleased, queueVars, signalVars, sleepVars, threadVars
<1>2. mpc' \in OwnerPC /\ OwnerInv'
  BY <1>1 DEF Inv, OwnerInv, OwnerPC, Destroying
<1>3. ASSUME NEW i \in Cores PROVE LockInv(i)' /\ ShutDown(i)'
  BY <1>1 DEF Inv, OwnerInv, CoreInv, LockInv, ShutDown
<1> QED BY <1>1, <1>2, <1>3, QueueRests, OwnerMoves DEF Inv

LEMMA InvFreeJobs == ASSUME Inv, FreeJobs PROVE Inv'
<1>1. /\ mpc = "dfree" /\ mpc' = "dlock" /\ mi' = 0
      /\ UNCHANGED <<availableCores, schedule, thread_mutex, sleeping, destruct, loop, late,
                     queue, wpc, wq>>
  BY DEF FreeJobs, queueVars, signalVars, sleepVars, threadVars
<1>2. mpc' \in OwnerPC /\ OwnerInv'
  BY <1>1 DEF Inv, OwnerInv, OwnerPC, Destroying, Cores
<1>3. ASSUME NEW i \in Cores PROVE LockInv(i)' /\ ShutDown(i)'
  BY <1>1 DEF Inv, OwnerInv, CoreInv, LockInv, ShutDown, Cores
<1> QED BY <1>1, <1>2, <1>3, QueueRests, OwnerMoves DEF Inv

LEMMA InvJoinThread == ASSUME Inv, JoinThread PROVE Inv'
<1>1. /\ mpc = "djointhread"
      /\ \/ mi + 1 < p /\ mpc' = "dunlock" /\ mi' = mi + 1
         \/ ~(mi + 1 < p) /\ mpc' = "dead" /\ mi' = 0
      /\ UNCHANGED <<availableCores, schedule, thread_mutex, sleeping, destruct, loop, late,
                     queue, wpc, wq>>
  BY DEF JoinThread, queueVars, signalVars, sleepVars, threadVars
<1>2. mpc' \in OwnerPC /\ OwnerInv'
  BY <1>1 DEF Inv, OwnerInv, OwnerPC, Destroying, Cores
<1>3. ASSUME NEW i \in Cores PROVE LockInv(i)' /\ ShutDown(i)'
  <2>1. CoreInv(i) /\ OwnerInv
    BY DEF Inv
  <2>2. LockInv(i)'
    BY <1>1, <2>1 DEF OwnerInv, CoreInv, LockInv, Cores
  <2>3. ShutDown(i)'
    BY <1>1, <2>1 DEF OwnerInv, CoreInv, ShutDown
  <2> QED BY <2>2, <2>3
<1> QED BY <1>1, <1>2, <1>3, QueueRests, OwnerMoves DEF Inv

-----------------------------------------------------------------------------
(* The owner's steps on one core: its schedule entry, its mutex, its thread. *)

\* What remains to be shown for a step that writes schedule, late, the mutex and
\* the loop of thread m only.
LEMMA OneCore ==
  ASSUME Inv, Shape', OwnerInv', NEW m \in Cores,
         UNCHANGED <<availableCores, sleeping, queue, wpc, wq>>,
         \A i \in Cores : loop'[i] = loop[i] \/ (loop[i] = "parked" /\ loop'[i] = "woken"),
         \A i \in Cores \ {m} : loop'[i] = loop[i] /\ schedule'[i] = schedule[i]
                                /\ late'[i] = late[i],
         \A i \in Cores : LockInv(i)' /\ ShutDown(i)',
         NotLost(m)', LateInv(m)'
  PROVE  Inv'
<1>1. SleepingExact'
  BY SleepersStay DEF Inv
<1>2. ASSUME NEW i \in Cores \ {m} PROVE CoreInv(i)'
  <2>1. CoreInv(i)
    BY DEF Inv
  <2>2. loop'[i] = loop[i] /\ schedule'[i] = schedule[i] /\ late'[i] = late[i]
    OBVIOUS
  <2> QED BY <2>1, <2>2 DEF CoreInv, NotLost, LateInv, Entitled
<1>3. CoreInv(m)'
  BY DEF CoreInv
<1> QED BY <1>1, <1>2, <1>3 DEF Inv

LEMMA InvScheduleOnCore == ASSUME Inv, ScheduleOnCore PROVE Inv'
<1>1. PICK m \in Cores : m = mi
  BY DEF Inv, OwnerInv, ScheduleOnCore
<1>2. /\ mpc = "schedule" /\ thread_mutex[m] = "free"
      /\ schedule' = [schedule EXCEPT ![m] = IF m \in plan.cores THEN plan.job ELSE NULL]
      /\ late' = [late EXCEPT ![m] = 0]
      /\ \/ loop' = loop /\ schedule[m] # NULL
         \/ loop' = [loop EXCEPT ![m] = IF @ = "parked" THEN "woken" ELSE @]
      /\ \/ mi' = mi + 1 /\ mi' < p /\ mpc' = "schedule"
         \/ mi' = 0 /\ mpc' = "idle"
      /\ UNCHANGED <<availableCores, thread_mutex, sleeping, destruct, queue, wpc, wq>>
  BY <1>1 DEF ScheduleOnCore, NextOwnerCore, NotifyThread, queueVars, signalVars, sleepVars
<1>3. Shape'
  BY <1>2 DEF Inv, Shape, OnCores, ThreadPC, OwnerPC, Destroying
<1>4. OwnerInv'
  BY <1>1, <1>2 DEF Inv, OwnerInv, Cores
<1>5. ASSUME NEW i \in Cores PROVE LockInv(i)' /\ ShutDown(i)'
  BY <1>2 DEF Inv, Shape, CoreInv, LockInv, ShutDown
<1>6. NotLost(m)' /\ LateInv(m)'
  BY <1>2 DEF Inv, Shape, CoreInv, LockInv, NotLost, LateInv
<1>7. \A i \in Cores : loop'[i] = loop[i] \/ (loop[i] = "parked" /\ loop'[i] = "woken")
  BY <1>2 DEF Inv, Shape
<1>8. \A i \in Cores \ {m} : loop'[i] = loop[i] /\ schedule'[i] = schedule[i] /\ late'[i] = late[i]
  BY <1>2 DEF Inv, Shape, OnCores
<1> QED BY <1>2, <1>3, <1>4, <1>5, <1>6, <1>7, <1>8, OneCore

\* deleteJob takes the job off the schedule.
LEMMA InvClearJob == ASSUME Inv, ClearJob PROVE Inv'
<1>1. PICK m \in Cores : m = mi
  BY DEF Inv, OwnerInv, ClearJob
<1>2. /\ mpc = "jclear"
      /\ schedule' = [schedule EXCEPT ![m] = IF @ = plan.job THEN NULL ELSE @]
      /\ late' = [late EXCEPT ![m] = 0]
      /\ \/ mi' = mi + 1 /\ mi' < p /\ mpc' = "jclear"
         \/ mi' = 0 /\ mpc' = "jrelease"
      /\ UNCHANGED <<availableCores, thread_mutex, sleeping, destruct, loop, queue, wpc, wq>>
  BY <1>1 DEF ClearJob, NextOwnerCore, queueVars, signalVars, sleepVars
<1>3. Shape'
  BY <1>2 DEF Inv, Shape, OnCores, ThreadPC, OwnerPC, Destroying
<1>4. OwnerInv'
  BY <1>1, <1>2 DEF Inv, OwnerInv, Cores
<1>5. ASSUME NEW i \in Cores PROVE LockInv(i)' /\ ShutDown(i)'
  BY <1>2 DEF Inv, Shape, CoreInv, LockInv, ShutDown
<1>6. NotLost(m)' /\ LateInv(m)'
  BY <1>2 DEF Inv, Shape, OnCores, CoreInv, LockInv, NotLost, LateInv
<1>7. \A i \in Cores \ {m} : loop'[i] = loop[i] /\ schedule'[i] = schedule[i] /\ late'[i] = late[i]
  BY <1>2 DEF Inv, Shape, OnCores
<1> QED BY <1>2, <1>3, <1>4, <1>5, <1>6, <1>7, OneCore

\* The destructor clears the schedule.
LEMMA InvClearSchedule == ASSUME Inv, ClearSchedule PROVE Inv'
<1>1. PICK m \in Cores : m = mi
  BY DEF Inv, OwnerInv, ClearSchedule
<1>2. /\ mpc = "dclear"
      /\ schedule' = [schedule EXCEPT ![m] = NULL]
      /\ late' = [late EXCEPT ![m] = 0]
      /\ \/ mi' = m + 1 /\ mi' < p /\ mpc' = "dclear"
         \/ mi' = 0 /\ mpc' = "drelease" /\ ~(m + 1 < p)
      /\ UNCHANGED <<availableCores, thread_mutex, sleeping, destruct, loop, queue, wpc, wq>>
  BY <1>1 DEF ClearSchedule, NextOwnerCore, queueVars, signalVars, sleepVars
<1>3. Shape'
  BY <1>2 DEF Inv, Shape, OnCores, ThreadPC, OwnerPC, Destroying
<1>4. OwnerInv'
  BY <1>2 DEF Inv, OwnerInv, Cores
<1>5. ASSUME NEW i \in Cores PROVE LockInv(i)' /\ ShutDown(i)'
  <2>1. CoreInv(i) /\ ~destruct
    BY <1>2 DEF Inv, OwnerInv
  <2>2. i <= m \/ i >= m + 1
    BY DEF Cores
  <2>3. i <= m => schedule'[i] = NULL
    BY <1>1, <1>2, <2>1 DEF CoreInv, ShutDown, Inv, Shape, OnCores, Cores
  <2>4. LockInv(i)'
    BY <1>2, <2>1 DEF CoreInv, LockInv
  <2>5. ShutDown(i)'
    BY <1>2, <2>1, <2>2, <2>3 DEF ShutDown, Cores
  <2> QED BY <2>4, <2>5
<1>6. NotLost(m)' /\ LateInv(m)'
  BY <1>2 DEF Inv, Shape, OnCores, CoreInv, LockInv, NotLost, LateInv
<1>7. \A i \in Cores \ {m} : loop'[i] = loop[i] /\ schedule'[i] = schedule[i] /\ late'[i] = late[i]
  BY <1>2 DEF Inv, Shape, OnCores
<1> QED BY <1>2, <1>3, <1>4, <1>5, <1>6, <1>7, OneCore

\* With the last mutex the destructor has all of them: no thread is between its
\* test and its wait when destruct is set.
LEMMA InvLockThreads == ASSUME Inv, LockThreads PROVE Inv'
<1>1. PICK m \in Cores : m = mi
  BY DEF Inv, OwnerInv, LockThreads
<1>2. /\ mpc = "dlock" /\ thread_mutex[m] = "free"
      /\ thread_mutex' = [thread_mutex EXCEPT ![m] = "main"]
      /\ \/ mi' = m + 1 /\ m + 1 < p /\ mpc' = "dlock" /\ ~destruct'
         \/ mi' = 0 /\ mpc' = "dunlock" /\ m + 1 = p /\ destruct'
      /\ UNCHANGED <<availableCores, schedule, late, sleeping, loop, queue, wpc, wq>>
  <2>1. /\ mpc = "dlock" /\ thread_mutex[m] = "free"
        /\ thread_mutex' = [thread_mutex EXCEPT ![m] = "main"]
        /\ \/ mi' = m + 1 /\ m + 1 < p /\ mpc' = "dlock"
           \/ mi' = 0 /\ mpc' = "dunlock" /\ ~(m + 1 < p)
        /\ UNCHANGED <<availableCores, schedule, late, sleeping, loop, queue, wpc, wq>>
    BY <1>1 DEF LockThreads, Lock, NextOwnerCore, queueVars, signalVars, sleepVars, threadVars
  <2>2. destruct' <=> (m + 1 = p)
    BY <1>1, Zenon DEF LockThreads
  <2>3. m + 1 < p => m + 1 # p
    BY DEF Cores
  <2>4. ~(m + 1 < p) => m + 1 = p
    BY DEF Cores
  <2> QED BY <2>1, <2>2, <2>3, <2>4, Zenon
<1>3. Shape'
  BY <1>2 DEF Inv, Shape, OnCores, ThreadPC, OwnerPC, Destroying
<1>4. OwnerInv'
  BY <1>2 DEF Inv, OwnerInv, Cores
<1>5. ASSUME NEW i \in Cores PROVE LockInv(i)' /\ ShutDown(i)'
  <2>1. LockInv(i) /\ ShutDown(i)
    BY DEF Inv, CoreInv
  <2>2. thread_mutex'[i] = IF i = m THEN "main" ELSE thread_mutex[i]
    BY <1>2 DEF Inv, Shape
  <2>3. thread_mutex'[i] = "main" <=> i < m + 1
    BY <1>1, <1>2, <2>1, <2>2 DEF LockInv, Cores
  <2>4. thread_mutex'[i] = "worker" <=> loop'[i] \in {"test", "count", "park", "take"}
    BY <1>2, <2>1, <2>2 DEF LockInv
  <2>5. LockInv(i)'
    BY <1>2, <2>3, <2>4 DEF LockInv, Cores
  <2>6. destruct' => loop'[i] \in {"parked", "woken", "exited"}
    BY <1>2, <2>1, <2>3, <2>4 DEF ShutDown, Cores
  <2>7. ShutDown(i)'
    BY <1>2, <2>1, <2>6 DEF ShutDown
  <2> QED BY <2>5, <2>7
<1>6. NotLost(m)' /\ LateInv(m)'
  BY <1>2 DEF Inv, CoreInv, NotLost, LateInv, Entitled
<1> QED BY <1>2, <1>3, <1>4, <1>5, <1>6, OneCore

LEMMA InvReleaseThread == ASSUME Inv, ReleaseThread PROVE Inv'
<1>1. PICK m \in Cores : m = mi
  BY DEF Inv, OwnerInv, ReleaseThread
<1>2. /\ mpc = "dunlock" /\ mpc' = "djointhread" /\ mi' = mi
      /\ thread_mutex' = [thread_mutex EXCEPT ![m] = "free"]
      /\ loop' = [loop EXCEPT ![m] = IF @ = "parked" THEN "woken" ELSE @]
      /\ UNCHANGED <<availableCores, schedule, late, sleeping, destruct, queue, wpc, wq>>
  BY <1>1 DEF ReleaseThread, Unlock, NotifyThread, queueVars, signalVars, sleepVars
<1>3. Shape'
  BY <1>2 DEF Inv, Shape, OnCores, ThreadPC, OwnerPC, Destroying
<1>4. OwnerInv'
  BY <1>2 DEF Inv, OwnerInv, Cores
<1>5. ASSUME NEW i \in Cores PROVE LockInv(i)' /\ ShutDown(i)'
  BY <1>1, <1>2 DEF Inv, Shape, OwnerInv, CoreInv, LockInv, ShutDown, Cores
<1>6. NotLost(m)' /\ LateInv(m)'
  BY <1>2 DEF Inv, Shape, CoreInv, NotLost, LateInv, Entitled
<1>7. \A i \in Cores : loop'[i] = loop[i] \/ (loop[i] = "parked" /\ loop'[i] = "woken")
  BY <1>2 DEF Inv, Shape
<1>8. \A i \in Cores \ {m} : loop'[i] = loop[i] /\ schedule'[i] = schedule[i] /\ late'[i] = late[i]
  BY <1>2 DEF Inv, Shape
<1> QED BY <1>2, <1>3, <1>4, <1>5, <1>6, <1>7, <1>8, OneCore

-----------------------------------------------------------------------------
(* The invariant holds of every behaviour.                                  *)

LEMMA InvPoolStep == ASSUME Inv, NEW i \in Cores, PoolStep(i) PROVE Inv'
<1>1. CASE CallInvalid(i)
  <2>1. UNCHANGED <<availableCores, schedule, thread_mutex, sleeping, destruct, late, queue, wpc,
                    wq, loop, mpc, mi>>
    BY <1>1 DEF CallInvalid, queueVars, signalVars, sleepVars, threadVars, ownerVars
  <2> QED BY <2>1, QueueRests, Elsewhere DEF Inv
<1> QED BY <1>1, InvTop, InvTest, InvCount, InvPark, InvWake, InvTake, InvCall, InvBackToTop,
           InvInQueue DEF PoolStep

LEMMA InvSignalStep == ASSUME Inv, SignalStep PROVE Inv'
  BY InvUnblockCore, InvBlockCore, InvOtherSignalStep DEF SignalStep

LEMMA InvOwnerStep == ASSUME Inv, OwnerStep PROVE Inv'
  BY InvAwaitSleepers, InvScheduleOnCore, InvQueueStep, InvClearJob, InvReleaseJob, InvFreeJob,
     InvJoinSignalThread, InvClearSchedule, InvReleaseNextJob, InvAllReleased, InvFreeJobs,
     InvLockThreads, InvReleaseThread, InvJoinThread DEF OwnerStep

LEMMA InvOwnerCall == ASSUME Inv, OwnerCall PROVE Inv'
  BY InvNewJob, InvScheduleJob, InvQueueCall, InvDeleteJob, InvDeleteSingleton DEF OwnerCall

LEMMA InvStutter == ASSUME Inv, UNCHANGED vars PROVE Inv'
<1>1. UNCHANGED <<availableCores, schedule, thread_mutex, sleeping, destruct, late, queue, wpc,
                  wq, loop, mpc, mi>>
  BY DEF vars
<1> QED BY <1>1, QueueRests, Elsewhere DEF Inv

LEMMA InvStep == Inv /\ [Next]_vars => Inv'
<1> SUFFICES ASSUME Inv, [Next]_vars PROVE Inv'
  OBVIOUS
<1>1. CASE Next
  BY <1>1, InvPoolStep, InvSpuriousWake, InvSignalStep, InvController, InvOwnerStep,
     InvOwnerCall, InvOwnerSpurious DEF Next
<1> QED BY <1>1, InvStutter

THEOREM Invariance == Spec => []Inv
  BY InvInit, InvStep, PTL DEF Spec

\* The count constructor and destructor wait on is exact in every reachable
\* state, for any number of threads and jobs, with spurious wake-ups and with
\* jobs deleted under the threads (ThreadWork, scheduleOnCore, the destructor).
THEOREM SleepingIsExact == Spec => []SleepingExact
<1>1. Inv => SleepingExact
  BY DEF Inv
<1> QED BY <1>1, Invariance, PTL

\* No notification of a pool thread is lost, however the signal thread, the
\* owner and the thread interleave.
THEOREM WakeupsAreNotLost == Spec => []NoLostWakeup
<1>1. Inv => NoLostWakeup
  BY DEF Inv, CoreInv, NotLost, NoLostWakeup
<1> QED BY <1>1, Invariance, PTL

\* A core taken away costs at most one packet more, each time it is taken.
THEOREM OneLatePacketAtMost == Spec => []AtMostOneLatePacket
<1>1. Inv => AtMostOneLatePacket
  BY DEF Inv, CoreInv, LateInv, AtMostOneLatePacket
<1> QED BY <1>1, Invariance, PTL

\* When the destructor has freed the jobs, no pool thread is in a queue or on
\* its way into one.
THEOREM JobsAreFreedUnused == Spec => []NoUseAfterFree
<1>1. Inv => NoUseAfterFree
  BY DEF Inv, CoreInv, ShutDown, NoUseAfterFree
<1> QED BY <1>1, Invariance, PTL

\* When destruct is set every pool thread is in its wait or past it.
THEOREM AllAreAsleepAtDestruct == Spec => []DestructFindsAllAsleep
<1>1. Inv => DestructFindsAllAsleep
  BY DEF Inv, CoreInv, ShutDown, DestructFindsAllAsleep
<1> QED BY <1>1, Invariance, PTL

-----------------------------------------------------------------------------
(* Types.  The jobs are a behaviour of WorkQueue, so that its own invariant *)
(* gives theirs and the sign of their counters.                             *)

WQP == INSTANCE WorkQueueProofs WITH
  Queues <- Jobs, Workers <- Cores, Clients <- {Main}, NoQueue <- NULL,
  sleeping <- qsleeping, destruct <- qdestruct

\* What the owner keeps.  While it schedules, clears, releases or frees a job,
\* plan names one.
OwnerTypes ==
  /\ jobs \in Seq(Jobs)
  /\ freed \in SUBSET Jobs
  /\ schedule \in [Cores -> Jobs \cup {NULL}]
  /\ queue \in [Cores -> Jobs \cup {NULL}]
  /\ mi \in Nat
  /\ mwaiting \in BOOLEAN
  /\ plan \in [job : Jobs \cup {NULL}, cores : SUBSET Cores]
  /\ mpc \in {"schedule", "jclear", "jrelease", "jfree"} => plan.job \in Jobs
  /\ schedules \in 0 .. MaxSchedules
  /\ destruct \in BOOLEAN
  /\ crashed \in BOOLEAN

\* The controller names existing cores only, so that the handler stays within its
\* array.
SignalTypes ==
  /\ new_availableCores \in [Cores -> BOOLEAN]
  /\ availableCores \in [Cores -> BOOLEAN]
  /\ receivedSignal \in BOOLEAN /\ receivedStopSignal \in BOOLEAN
  /\ spc \in ST!SignalPC
  /\ scan \in 0 .. p /\ (spc = "scan" => scan \in Cores)
  /\ pendingBlock \in Seq(Cores) /\ pendingUnblock \in Seq(Cores)
  /\ pendingStop \in BOOLEAN
  /\ command \in [Cores -> BOOLEAN]
  /\ overtaken \in SUBSET Cores
  /\ sent \in 0 .. MaxSignals

JobTypes == WQP!TypeInv /\ WQP!CountersExact

TypeInv == Inv /\ OwnerTypes /\ SignalTypes /\ JobTypes

LEMMA QueueAssumption == WQP!WorkQueueAssumption
<1>1. WQP!IsFiniteSet(Cores)
  BY CoresFinite DEF IsFiniteSet, WQP!IsFiniteSet
<1> QED BY <1>1 DEF WQP!WorkQueueAssumption

\* WQ and WQP name the same queues.
LEMMA SameQueueSteps ==
  /\ WQ!Init <=> WQP!Init
  /\ \A i \in Cores : WQ!WorkerStep(i) => WQP!Next
  /\ \A i \in Cores : WQ!SpuriousWake(i) => WQP!Next
  /\ \A i \in Cores, j \in Jobs : WQ!Enter(i, j) => WQP!Next
  /\ WQ!ClientStep(Main) => WQP!Next
  /\ WQ!SpuriousExternal(Main) => WQP!Next
  /\ \A j \in Jobs, i \in Items : WQ!Push(Main, j, i) => WQP!Next
  /\ \A j \in Jobs : WQ!BlockUntilDone(Main, j) => WQP!Next
  /\ \A j \in Jobs : WQ!Release(Main, j) => WQP!Next
<1>1. WQ!Init <=> WQP!Init
  BY DEF WQ!Init, WQP!Init
<1>2. ASSUME NEW i \in Cores, WQ!WorkerStep(i) PROVE WQP!Next
  <2>1. WQP!WorkerStep(i)
    BY <1>2
       DEF WQ!WorkerStep, WQP!WorkerStep, WQ!EnterTake, WQP!EnterTake, WQ!EnterSleep,
           WQP!EnterSleep, WQ!WakeTake, WQP!WakeTake, WQ!WakeSleep, WQP!WakeSleep,
           WQ!WakeLeave, WQP!WakeLeave, WQ!Finish, WQP!Finish, WQ!TakeFront, WQP!TakeFront,
           WQ!WaitForPacket, WQP!WaitForPacket, WQ!NotifyExternalIf, WQP!NotifyExternalIf,
           WQ!NotifyExternal, WQP!NotifyExternal, WQ!Retest, WQP!Retest,
           WQ!clientVars, WQP!clientVars
  <2> QED BY <2>1 DEF WQP!Next
<1>3. ASSUME NEW i \in Cores, WQ!SpuriousWake(i) PROVE WQP!Next
  BY <1>3 DEF WQP!Next, WQ!SpuriousWake, WQP!SpuriousWake, WQ!queueVars, WQP!queueVars,
              WQ!clientVars, WQP!clientVars
<1>4. ASSUME NEW i \in Cores, NEW j \in Jobs, WQ!Enter(i, j) PROVE WQP!Next
  BY <1>4 DEF WQP!Next, WQ!Enter, WQP!Enter, WQ!queueVars, WQP!queueVars,
              WQ!clientVars, WQP!clientVars
<1>5. ASSUME WQ!ClientStep(Main) PROVE WQP!Next
  <2>1. WQP!ClientStep(Main)
    BY <1>5
       DEF WQ!ClientStep, WQP!ClientStep, WQ!BudReturn, WQP!BudReturn, WQ!BudWait,
           WQP!BudWait, WQ!RelReturn, WQP!RelReturn, WQ!RelWait, WQP!RelWait,
           WQ!Drained, WQP!Drained, WQ!Deserted, WQP!Deserted, WQ!queueVars,
           WQP!queueVars, WQ!workerVars, WQP!workerVars
  <2> QED BY <2>1 DEF WQP!Next
<1>6. ASSUME WQ!SpuriousExternal(Main) PROVE WQP!Next
  BY <1>6 DEF WQP!Next, WQ!SpuriousExternal, WQP!SpuriousExternal, WQ!Retest, WQP!Retest,
              WQ!queueVars, WQP!queueVars, WQ!workerVars, WQP!workerVars
<1>7. ASSUME NEW j \in Jobs, NEW i \in Items, WQ!Push(Main, j, i) PROVE WQP!Next
  <2>1. WQP!Push(Main, j, i)
    BY <1>7
       DEF WQ!Push, WQP!Push, WQ!Fresh, WQP!Fresh, WQ!Queued, WQP!Queued, WQ!Executing,
           WQP!Executing, WQ!Running, WQP!Running, WQ!At, WQP!At, WQ!NotifyOne,
           WQP!NotifyOne, WQ!Waiting, WQP!Waiting, WQ!clientVars, WQP!clientVars
  <2> QED BY <2>1 DEF WQP!Next, WQP!ClientCall
<1>8. ASSUME NEW j \in Jobs, WQ!BlockUntilDone(Main, j) PROVE WQP!Next
  <2>1. WQP!BlockUntilDone(Main, j)
    BY <1>8 DEF WQ!BlockUntilDone, WQP!BlockUntilDone, WQ!queueVars, WQP!queueVars,
                WQ!workerVars, WQP!workerVars
  <2> QED BY <2>1 DEF WQP!Next, WQP!ClientCall
<1>9. ASSUME NEW j \in Jobs, WQ!Release(Main, j) PROVE WQP!Next
  <2>1. WQP!Release(Main, j)
    BY <1>9 DEF WQ!Release, WQP!Release, WQ!Waiting, WQP!Waiting, WQ!At, WQP!At,
                WQ!Deserted, WQP!Deserted, WQ!clientVars, WQP!clientVars
  <2> QED BY <2>1 DEF WQP!Next, WQP!ClientCall
<1> QED BY <1>1, <1>2, <1>3, <1>4, <1>5, <1>6, <1>7, <1>8, <1>9

LEMMA OwnedAreJobs ==
  ASSUME OwnerTypes
  PROVE  /\ Owned \subseteq Jobs
         /\ \A n \in 1 .. Len(jobs) : jobs[n] \in Jobs
         /\ Len(jobs) \in Nat /\ DOMAIN jobs = 1 .. Len(jobs)
  BY DEF OwnerTypes, Owned

\* Each step of the scheduler is a step of the queues or leaves them alone.
LEMMA QueuesStep ==
  ASSUME OwnerTypes, [Next]_vars
  PROVE  WQP!Next \/ UNCHANGED WQP!vars
<1>1. UNCHANGED queueVars => UNCHANGED WQP!vars
  BY DEF queueVars, WQP!vars
<1>2. ASSUME NEW i \in Cores, PoolStep(i) PROVE WQP!Next \/ UNCHANGED queueVars
  <2>1. CASE Call(i)
    <3>1. queue[i] \in Jobs /\ WQ!Enter(i, queue[i])
      BY <2>1 DEF Call, Callable, OwnerTypes
    <3> QED BY <3>1, SameQueueSteps
  <2>2. CASE InQueue(i)
    BY <2>2, SameQueueSteps DEF InQueue
  <2>3. CASE \/ Top(i) \/ Test(i) \/ Count(i) \/ Park(i) \/ Wake(i) \/ Take(i)
             \/ CallRefused(i) \/ CallInvalid(i) \/ Return(i)
    BY <2>3 DEF Top, Test, Count, Park, Wake, Take, CallRefused, CallInvalid, Return
  <2> QED BY <1>2, <2>1, <2>2, <2>3 DEF PoolStep
<1>3. ASSUME NEW i \in Cores, SpuriousWake(i) PROVE WQP!Next \/ UNCHANGED queueVars
  BY <1>3, SameQueueSteps DEF SpuriousWake
<1>4. CASE SignalStep \/ Controller
  BY <1>1, <1>4 DEF SignalStep, Controller
<1>5. ASSUME OwnerStep PROVE WQP!Next \/ UNCHANGED queueVars
  <2>1. CASE QueueStep
    BY <2>1, SameQueueSteps DEF QueueStep
  <2>2. CASE ReleaseJob
    <3>1. plan.job \in Jobs /\ WQ!Release(Main, plan.job)
      BY <2>2 DEF ReleaseJob, OwnerTypes
    <3> QED BY <3>1, SameQueueSteps
  <2>3. CASE ReleaseNextJob
    <3>1. mi + 1 \in 1 .. Len(jobs) /\ WQ!Release(Main, jobs[mi + 1])
      BY <2>3, OwnedAreJobs DEF ReleaseNextJob, OwnerTypes
    <3>2. jobs[mi + 1] \in Jobs
      BY <3>1, OwnedAreJobs
    <3> QED BY <3>1, <3>2, SameQueueSteps
  <2>4. CASE \/ AwaitSleepers \/ ScheduleOnCore \/ ClearJob \/ FreeJob
             \/ JoinSignalThread \/ ClearSchedule \/ AllReleased \/ FreeJobs
             \/ LockThreads \/ ReleaseThread \/ JoinThread
    BY <2>4 DEF AwaitSleepers, ScheduleOnCore, ClearJob, FreeJob, JoinSignalThread,
                ClearSchedule, AllReleased, FreeJobs, LockThreads, ReleaseThread, JoinThread
  <2> QED BY <1>5, <2>1, <2>2, <2>3, <2>4 DEF OwnerStep
<1>6. ASSUME OwnerCall PROVE WQP!Next \/ UNCHANGED queueVars
  <2>1. ASSUME NEW j \in Owned, QueueCall(j) PROVE WQP!Next
    BY <2>1, SameQueueSteps, OwnedAreJobs DEF QueueCall
  <2>2. ASSUME NEW j \in Jobs, NewJob(j) PROVE UNCHANGED queueVars
    BY <2>2 DEF NewJob
  <2>3. ASSUME NEW j \in Owned, NEW S \in SUBSET Cores, ScheduleJob(j, S)
        PROVE  UNCHANGED queueVars
    BY <2>3 DEF ScheduleJob
  <2>4. ASSUME NEW j \in Owned, DeleteJob(j) PROVE UNCHANGED queueVars
    BY <2>4 DEF DeleteJob
  <2>5. CASE DeleteSingleton
    BY <2>5 DEF DeleteSingleton
  <2> QED BY <1>6, <2>1, <2>2, <2>3, <2>4, <2>5 DEF OwnerCall
<1>7. ASSUME OwnerSpurious PROVE WQP!Next \/ UNCHANGED queueVars
  BY <1>7, SameQueueSteps DEF OwnerSpurious
<1>8. CASE UNCHANGED vars
  BY <1>8 DEF vars, WQP!vars
<1> QED BY <1>1, <1>2, <1>3, <1>4, <1>5, <1>6, <1>7, <1>8 DEF Next

LEMMA JobTypesStep == OwnerTypes /\ JobTypes /\ [Next]_vars => JobTypes'
<1>1. OwnerTypes /\ [Next]_vars => [WQP!Next]_(WQP!vars)
  BY QueuesStep
<1>2. WQP!TypeInv /\ [WQP!Next]_(WQP!vars) => WQP!TypeInv'
  BY QueueAssumption, WQP!TypeInvStep
<1>3. WQP!TypeInv /\ WQP!CountersExact /\ [WQP!Next]_(WQP!vars) => WQP!CountersExact'
  BY QueueAssumption, WQP!CountersStep
<1> QED BY <1>1, <1>2, <1>3 DEF JobTypes

\* The signal thread and the signals.
LEMMA SignalTypesStep == SignalTypes /\ [Next]_vars => SignalTypes'
<1> SUFFICES ASSUME SignalTypes, [Next]_vars PROVE SignalTypes'
  OBVIOUS
<1> USE DEF SignalTypes, ST!Cores, Cores
<1>1. ASSUME UNCHANGED signalVars PROVE SignalTypes'
  BY <1>1 DEF signalVars
<1>2. ASSUME ST!ScanUnblock \/ ST!ScanBlock \/ ST!ScanSame PROVE SignalTypes'
  <2>1. /\ availableCores' \in [Cores -> BOOLEAN]
        /\ scan' = scan + 1 /\ spc = "scan"
        /\ spc' = IF scan + 1 < p THEN "scan" ELSE "suspended"
        /\ UNCHANGED <<new_availableCores, receivedSignal, receivedStopSignal, pendingBlock,
                       pendingUnblock, pendingStop, command, overtaken, sent>>
    BY <1>2 DEF ST!ScanUnblock, ST!ScanBlock, ST!ScanSame, ST!NextCore, ST!flagVars,
                ST!pendingVars, ST!senderVars
  <2> QED BY <2>1 DEF ST!SignalPC
<1>3. ASSUME ST!HandleStop \/ ST!Leave \/ ST!StartScan \/ ST!SuspendAgain PROVE SignalTypes'
  <2>1. scan' \in 0 .. p /\ (spc' = "scan" => scan' \in Cores)
    BY <1>3 DEF ST!HandleStop, ST!Leave, ST!StartScan, ST!SuspendAgain
  <2>2. /\ UNCHANGED <<ST!viewVars, pendingBlock, pendingUnblock, ST!senderVars>>
        /\ receivedSignal' \in BOOLEAN /\ receivedStopSignal' \in BOOLEAN
        /\ pendingStop' \in BOOLEAN /\ spc' \in ST!SignalPC
    BY <1>3 DEF ST!HandleStop, ST!Leave, ST!StartScan, ST!SuspendAgain, ST!SignalPC,
                ST!flagVars, ST!pendingVars
  <2> QED BY <2>1, <2>2 DEF ST!viewVars, ST!senderVars
<1>4. ASSUME NEW i \in Cores, NEW b \in BOOLEAN, ST!Told(i, b)
      PROVE  new_availableCores' \in [Cores -> BOOLEAN] /\ receivedSignal' \in BOOLEAN
  <2>1. receivedSignal' \in BOOLEAN
    BY <1>4, Zenon DEF ST!Told
  <2>2. i < p /\ DOMAIN new_availableCores \cup {i} = Cores
    OBVIOUS
  <2>3. new_availableCores' = [k \in Cores |-> IF k = i THEN b ELSE new_availableCores[k]]
    BY <1>4, <2>2 DEF ST!Told, ST!Write
  <2> QED BY <2>1, <2>3
<1>5. ASSUME ST!HandleBlock PROVE SignalTypes'
  <2>1. Head(pendingBlock) \in Cores /\ Tail(pendingBlock) \in Seq(Cores)
    BY <1>5 DEF ST!HandleBlock
  <2> QED BY <1>4, <1>5, <2>1 DEF ST!HandleBlock, ST!SignalPC, ST!senderVars
<1>6. ASSUME ST!HandleUnblock PROVE SignalTypes'
  <2>1. Head(pendingUnblock) \in Cores /\ Tail(pendingUnblock) \in Seq(Cores)
    BY <1>6 DEF ST!HandleUnblock
  <2> QED BY <1>4, <1>6, <2>1 DEF ST!HandleUnblock, ST!SignalPC, ST!senderVars
<1>7. ASSUME ST!MaySend, NEW i \in Cores, ST!SendBlock(i) \/ ST!SendUnblock(i)
      PROVE  SignalTypes'
  <2>1. sent' \in 0 .. MaxSignals
    BY <1>7 DEF ST!MaySend
  <2>2. pendingBlock' \in Seq(Cores) /\ pendingUnblock' \in Seq(Cores)
    <3>1. Append(pendingBlock, i) \in Seq(Cores) /\ Append(pendingUnblock, i) \in Seq(Cores)
      BY AppendProperties
    <3> QED BY <1>7, <3>1 DEF ST!SendBlock, ST!SendUnblock
  <2>3. command' \in [Cores -> BOOLEAN] /\ overtaken' \in SUBSET Cores
    <3>1. i \in Cores
      OBVIOUS
    <3>2. command' \in [Cores -> BOOLEAN]
      BY <1>7 DEF ST!SendBlock, ST!SendUnblock
    <3>3. overtaken' = overtaken \cup {i} \/ overtaken' = overtaken \ {i}
      BY <1>7 DEF ST!SendBlock, ST!SendUnblock
    <3> QED BY <3>1, <3>2, <3>3
  <2> QED BY <1>7, <2>1, <2>2, <2>3
          DEF ST!SendBlock, ST!SendUnblock, ST!viewVars, ST!flagVars
<1>8. ASSUME ST!SendStop PROVE SignalTypes'
  BY <1>8 DEF ST!SendStop, ST!viewVars, ST!flagVars, ST!senderVars
<1>9. CASE SignalStep
  BY <1>2, <1>3, <1>5, <1>6, <1>9 DEF SignalStep, UnblockCore, BlockCore, OtherSignalStep
<1>10. CASE Controller
  BY <1>7, <1>10 DEF Controller
<1>11. CASE \E i \in Cores : PoolStep(i) \/ SpuriousWake(i)
  BY <1>1, <1>11 DEF PoolStep, SpuriousWake, Top, Test, Count, Park, Wake, Take, Call,
                     CallRefused, CallInvalid, InQueue, Return
<1>12. CASE OwnerStep
  BY <1>1, <1>12 DEF OwnerStep, AwaitSleepers, ScheduleOnCore, QueueStep, ClearJob, ReleaseJob,
                     FreeJob, JoinSignalThread, ClearSchedule, ReleaseNextJob, AllReleased,
                     FreeJobs, LockThreads, ReleaseThread, JoinThread
<1>13. CASE OwnerCall \/ OwnerSpurious
  BY <1>1, <1>8, <1>13 DEF OwnerCall, NewJob, ScheduleJob, QueueCall, DeleteJob,
                           DeleteSingleton, OwnerSpurious
<1>14. CASE UNCHANGED vars
  BY <1>1, <1>14 DEF vars, signalVars
<1> QED BY <1>9, <1>10, <1>11, <1>12, <1>13, <1>14 DEF Next

\* What the owner keeps, when it moves along a loop over the cores.
LEMMA NextCoreTypes ==
  ASSUME mi \in Nat, NEW after, NextOwnerCore(after)
  PROVE  mi' \in Nat /\ (mpc' = mpc \/ mpc' = after)
  BY DEF NextOwnerCore

LEMMA OwnerTypesPool ==
  ASSUME Inv, OwnerTypes, NEW i \in Cores, PoolStep(i) \/ SpuriousWake(i)
  PROVE  OwnerTypes'
<1> USE DEF OwnerTypes
<1>1. ASSUME UNCHANGED <<jobVars, schedule, queue, ownerVars, destruct, crashed>>,
             mwaiting' \in BOOLEAN
      PROVE  OwnerTypes'
  BY <1>1 DEF jobVars, ownerVars
<1>2. CASE Take(i)
  <2>1. queue' \in [Cores -> Jobs \cup {NULL}]
    BY <1>2 DEF Take
  <2> QED BY <1>2, <2>1 DEF Take, jobVars, ownerVars, sleepVars
<1>3. CASE Count(i)
  BY <1>1, <1>3 DEF Count
<1>4. CASE CallInvalid(i)
  BY <1>4 DEF CallInvalid, jobVars, ownerVars, sleepVars, threadVars
<1>5. CASE \/ Top(i) \/ Test(i) \/ Park(i) \/ Wake(i) \/ Call(i) \/ CallRefused(i)
           \/ InQueue(i) \/ Return(i) \/ SpuriousWake(i)
  BY <1>1, <1>5 DEF Top, Test, Park, Wake, Call, CallRefused, InQueue, Return, SpuriousWake,
                    sleepVars
<1> QED BY <1>2, <1>3, <1>4, <1>5 DEF PoolStep

LEMMA OwnerTypesStep ==
  ASSUME Inv, OwnerTypes, OwnerStep
  PROVE  OwnerTypes'
<1> USE DEF OwnerTypes
<1>1. CASE AwaitSleepers
  BY <1>1 DEF AwaitSleepers, jobVars, threadVars
<1>2. CASE ScheduleOnCore
  <2>1. schedule' \in [Cores -> Jobs \cup {NULL}]
    BY <1>2 DEF ScheduleOnCore
  <2>2. mi' \in Nat /\ (mpc' = mpc \/ mpc' = "idle")
    BY <1>2, NextCoreTypes DEF ScheduleOnCore
  <2> QED BY <1>2, <2>1, <2>2 DEF ScheduleOnCore, jobVars, sleepVars
<1>3. CASE ClearJob
  <2>1. schedule' \in [Cores -> Jobs \cup {NULL}]
    BY <1>3 DEF ClearJob
  <2>2. mi' \in Nat /\ (mpc' = mpc \/ mpc' = "jrelease") /\ mpc = "jclear"
    BY <1>3, NextCoreTypes DEF ClearJob
  <2> QED BY <1>3, <2>1, <2>2 DEF ClearJob, jobVars, sleepVars
<1>4. CASE ClearSchedule
  <2>1. schedule' \in [Cores -> Jobs \cup {NULL}]
    BY <1>4 DEF ClearSchedule
  <2>2. mi' \in Nat /\ (mpc' = mpc \/ mpc' = "drelease") /\ mpc = "dclear"
    BY <1>4, NextCoreTypes DEF ClearSchedule
  <2> QED BY <1>4, <2>1, <2>2 DEF ClearSchedule, jobVars, sleepVars
<1>5. CASE FreeJob
  <2>1. plan.job \in Jobs
    BY <1>5 DEF FreeJob
  <2> QED BY <1>5, <2>1 DEF FreeJob, NoPlan, sleepVars, threadVars
<1>6. CASE FreeJobs
  BY <1>6, OwnedAreJobs DEF FreeJobs, sleepVars, threadVars
<1>7. CASE LockThreads
  <2>1. mi' \in Nat /\ (mpc' = mpc \/ mpc' = "dunlock") /\ mpc = "dlock"
    BY <1>7, NextCoreTypes DEF LockThreads
  <2> QED BY <1>7, <2>1 DEF LockThreads, jobVars, sleepVars, threadVars
<1>8. CASE JoinThread
  <2>1. mi' \in Nat /\ mpc' \in {"dunlock", "dead"}
    BY <1>8 DEF JoinThread
  <2> QED BY <1>8, <2>1 DEF JoinThread, jobVars, sleepVars, threadVars
<1>9. CASE ReleaseNextJob
  BY <1>9 DEF ReleaseNextJob, jobVars, sleepVars, threadVars
<1>10. CASE QueueStep \/ ReleaseJob \/ JoinSignalThread \/ AllReleased \/ ReleaseThread
  BY <1>10 DEF QueueStep, ReleaseJob, JoinSignalThread, AllReleased, ReleaseThread, jobVars,
               sleepVars, threadVars, ownerVars
<1> QED BY <1>1, <1>2, <1>3, <1>4, <1>5, <1>6, <1>7, <1>8, <1>9, <1>10 DEF OwnerStep

\* deleteJob erases one entry of the list.
LEMMA RemoveAtType ==
  ASSUME NEW S, NEW s \in Seq(S), NEW n \in DOMAIN s
  PROVE  RemoveAt(s, n) \in Seq(S)
<1>1. n \in 1 .. Len(s) /\ Len(s) \in Nat
  OBVIOUS
<1>2. SubSeq(s, 1, n - 1) \in Seq(S) /\ SubSeq(s, n + 1, Len(s)) \in Seq(S)
  <2>1. ASSUME NEW a \in 1 .. Len(s) + 1, NEW b \in 0 .. Len(s)
        PROVE  SubSeq(s, a, b) \in Seq(S)
    <3>1. ASSUME NEW k \in a .. b PROVE s[k] \in S
      <4>1. k \in 1 .. Len(s)
        BY <1>1
      <4> QED BY <4>1
    <3> QED BY <3>1, SubSeqProperties
  <2>2. 1 \in 1 .. Len(s) + 1 /\ n - 1 \in 0 .. Len(s)
    BY <1>1
  <2>3. n + 1 \in 1 .. Len(s) + 1 /\ Len(s) \in 0 .. Len(s)
    BY <1>1
  <2> QED BY <2>1, <2>2, <2>3
<1>3. SubSeq(s, 1, n - 1) \o SubSeq(s, n + 1, Len(s)) \in Seq(S)
  BY <1>2, ConcatProperties
<1> QED BY <1>3 DEF RemoveAt

LEMMA OwnerTypesCall ==
  ASSUME Inv, OwnerTypes, OwnerCall \/ OwnerSpurious
  PROVE  OwnerTypes'
<1> USE DEF OwnerTypes
<1>1. ASSUME NEW j \in Jobs, NewJob(j) PROVE OwnerTypes'
  <2>1. jobs' \in Seq(Jobs)
    BY <1>1 DEF NewJob
  <2> QED BY <1>1, <2>1 DEF NewJob, sleepVars, threadVars, ownerVars
<1>2. ASSUME NEW j \in Jobs, NEW S \in SUBSET Cores, ScheduleJob(j, S) PROVE OwnerTypes'
  <2>1. schedules' \in 0 .. MaxSchedules
    BY <1>2 DEF ScheduleJob
  <2>2. plan' \in [job : Jobs \cup {NULL}, cores : SUBSET Cores] /\ plan'.job \in Jobs
    BY <1>2 DEF ScheduleJob
  <2> QED BY <1>2, <2>1, <2>2 DEF ScheduleJob, jobVars, sleepVars, threadVars
<1>3. ASSUME NEW j, QueueCall(j) PROVE OwnerTypes'
  BY <1>3 DEF QueueCall, jobVars, sleepVars, threadVars, ownerVars
<1>4. ASSUME NEW j \in Owned, DeleteJob(j) PROVE OwnerTypes'
  <2>1. \E n \in DOMAIN jobs : jobs[n] = j
    BY DEF Owned
  <2>2. jobs' \in Seq(Jobs)
    <3>1. PICK n \in DOMAIN jobs : jobs' = RemoveAt(jobs, n)
      BY <1>4, <2>1 DEF DeleteJob
    <3> QED BY <3>1, RemoveAtType
  <2>3. plan' \in [job : Jobs \cup {NULL}, cores : SUBSET Cores] /\ plan'.job \in Jobs
    BY <1>4, OwnedAreJobs DEF DeleteJob
  <2> QED BY <1>4, <2>2, <2>3 DEF DeleteJob, sleepVars, threadVars
<1>5. CASE DeleteSingleton
  BY <1>5 DEF DeleteSingleton, jobVars, sleepVars, threadVars
<1>6. CASE OwnerSpurious
  BY <1>6 DEF OwnerSpurious, jobVars, threadVars, ownerVars
<1> QED BY <1>1, <1>2, <1>3, <1>4, <1>5, <1>6, OwnedAreJobs DEF OwnerCall

LEMMA OwnerTypesKept == Inv /\ OwnerTypes /\ [Next]_vars => OwnerTypes'
<1> SUFFICES ASSUME Inv, OwnerTypes, [Next]_vars PROVE OwnerTypes'
  OBVIOUS
<1>1. CASE SignalStep \/ Controller
  BY <1>1 DEF SignalStep, Controller, UnblockCore, BlockCore, OtherSignalStep, jobVars,
              sleepVars, threadVars, ownerVars, OwnerTypes
<1>2. CASE UNCHANGED vars
  BY <1>2 DEF vars, OwnerTypes
<1> QED BY <1>1, <1>2, OwnerTypesPool, OwnerTypesStep, OwnerTypesCall DEF Next

LEMMA TypeInvInit == Init => OwnerTypes /\ SignalTypes /\ JobTypes
<1> SUFFICES ASSUME Init PROVE OwnerTypes /\ SignalTypes /\ JobTypes
  OBVIOUS
<1>1. OwnerTypes
  <2>1. jobs \in Seq(Jobs)
    BY DEF Init
  <2>2. plan \in [job : Jobs \cup {NULL}, cores : SUBSET Cores]
    BY DEF Init, NoPlan
  <2>3. /\ freed \in SUBSET Jobs
        /\ schedule \in [Cores -> Jobs \cup {NULL}] /\ queue \in [Cores -> Jobs \cup {NULL}]
    BY DEF Init
  <2>4. mi \in Nat /\ schedules \in 0 .. MaxSchedules
    BY DEF Init
  <2>5. /\ mwaiting \in BOOLEAN /\ destruct \in BOOLEAN /\ crashed \in BOOLEAN
        /\ mpc \notin {"schedule", "jclear", "jrelease", "jfree"}
    BY DEF Init
  <2> QED BY <2>1, <2>2, <2>3, <2>4, <2>5 DEF OwnerTypes
<1>2. SignalTypes
  <2>1. pendingBlock \in Seq(Cores) /\ pendingUnblock \in Seq(Cores)
    BY DEF Init, ST!Init
  <2>2. scan \in 0 .. p /\ sent \in 0 .. MaxSignals
    BY DEF Init, ST!Init
  <2>3. /\ new_availableCores \in [Cores -> BOOLEAN]
        /\ availableCores \in [Cores -> BOOLEAN]
        /\ command \in [Cores -> BOOLEAN] /\ overtaken \in SUBSET Cores
        /\ receivedSignal \in BOOLEAN /\ receivedStopSignal \in BOOLEAN
        /\ pendingStop \in BOOLEAN /\ spc \in ST!SignalPC /\ spc # "scan"
    BY DEF Init, ST!Init, ST!SignalPC, ST!Cores, Cores
  <2> QED BY <2>1, <2>2, <2>3 DEF SignalTypes
<1>3. WQP!Init
  BY SameQueueSteps DEF Init
<1>4. JobTypes
  BY <1>3, QueueAssumption, WQP!TypeInvInit, WQP!CountersInit DEF JobTypes
<1> QED BY <1>1, <1>2, <1>4

LEMMA SignalTypesImply == SignalTypes => ST!TypeOK /\ ST!InBounds
<1> SUFFICES ASSUME SignalTypes PROVE ST!TypeOK /\ ST!InBounds
  OBVIOUS
<1>1. Cores = ST!Cores /\ Cores \subseteq ST!Numbers
  BY DEF Cores, ST!Cores, ST!Numbers
<1>2. pendingBlock \in Seq(ST!Numbers) /\ pendingUnblock \in Seq(ST!Numbers)
  BY <1>1 DEF SignalTypes
<1> QED BY <1>1, <1>2 DEF SignalTypes, ST!TypeOK, ST!InBounds

LEMMA TypeInvImplies == TypeInv => TypeOK
<1> SUFFICES ASSUME TypeInv PROVE TypeOK
  OBVIOUS
<1>1. WQ!TypeOK
  <2>1. WQP!TypeOK
    BY QueueAssumption, WQP!InvGivesTypes DEF TypeInv, JobTypes
  <2> QED BY <2>1 DEF WQ!TypeOK, WQP!TypeOK, WQ!Types, WQP!Types, WQ!WorkerPC, WQP!WorkerPC,
                      WQ!ClientPC, WQP!ClientPC
<1>2. sleeping \in 0 .. p
  <2>1. sleeping = Cardinality(Asleep) /\ Asleep \in SUBSET Cores
    BY DEF TypeInv, Inv, SleepingExact, Asleep
  <2>2. Cardinality(Asleep) \in Nat /\ Cardinality(Asleep) <= Cardinality(Cores)
    BY <2>1, CoresFinite, FS_Subset
  <2> QED BY <2>1, <2>2, CoresFinite
<1>3. ST!TypeOK /\ ST!InBounds
  BY SignalTypesImply DEF TypeInv
<1> QED BY <1>1, <1>2, <1>3 DEF TypeInv, TypeOK, Inv, Shape, OwnerTypes

LEMMA TypesHold == Spec => []TypeInv
<1>1. Init => TypeInv
  BY InvInit, TypeInvInit DEF TypeInv
<1>2. TypeInv /\ [Next]_vars => TypeInv'
  BY InvStep, OwnerTypesKept, SignalTypesStep, JobTypesStep DEF TypeInv
<1> QED BY <1>1, <1>2, PTL DEF Spec

\* Every variable of the scheduler, of its jobs and of its signal thread keeps
\* its type, the counters of the jobs never become negative, and sleeping never
\* exceeds the number of pool threads.
THEOREM TypeCorrect == Spec => []TypeOK
  BY TypesHold, TypeInvImplies, PTL

-----------------------------------------------------------------------------
(* The parts inside the whole.                                              *)

\* The jobs of a scheduler are a behaviour of WorkQueue: pool threads, owner and
\* deleteJob do nothing to a queue that its own specification does not allow.
THEOREM JobsAreQueues == Spec => WQP!Spec
<1>1. Init => WQP!Init
  BY SameQueueSteps DEF Init
<1>2. TypeInv /\ [Next]_vars => [WQP!Next]_(WQP!vars)
  BY QueuesStep DEF TypeInv
<1> QED BY <1>1, <1>2, TypesHold, PTL DEF Spec, WQP!Spec

\* So what is proved of WorkQueue holds in the scheduler, whose threads come and
\* go with the load: blockuntildone returns over an idle job only, a release
\* over a deserted one, and each job is a JobBarrier.
THEOREM BarriersAreSound == Spec => WQP!BarrierSound /\ WQP!ReleaseSound /\ WQP!ImplementsBarrier
  BY QueueAssumption, JobsAreQueues, WQP!BarrierIsSound, WQP!ReleaseIsSound,
     WQP!QueueImplementsBarrier, PTL

\* The stop signal is sent once, by the destructor.
StopInv == mpc \notin Destroying \cup {"dead"} => ~pendingStop /\ ~receivedStopSignal

LEMMA StopInvStep == StopInv /\ [Next]_vars => StopInv'
<1> SUFFICES ASSUME StopInv, [Next]_vars, mpc' \notin Destroying \cup {"dead"}
             PROVE  ~pendingStop' /\ ~receivedStopSignal'
  BY DEF StopInv
<1> USE DEF StopInv, Destroying
<1>1. CASE \E i \in Cores : PoolStep(i) \/ SpuriousWake(i)
  BY <1>1 DEF PoolStep, SpuriousWake, Top, Test, Count, Park, Wake, Take, Call, CallRefused,
              CallInvalid, InQueue, Return, signalVars, ownerVars
<1>2. CASE SignalStep
  <2>1. mpc' = mpc
    BY <1>2 DEF SignalStep, ownerVars
  <2>2. ~pendingStop /\ ~receivedStopSignal
    BY <2>1
  <2>3. ASSUME ST!ScanUnblock \/ ST!ScanBlock \/ ST!ScanSame
        PROVE  UNCHANGED <<pendingStop, receivedStopSignal>>
    BY <2>3 DEF ST!ScanUnblock, ST!ScanBlock, ST!ScanSame, ST!NextCore, ST!flagVars,
                ST!pendingVars
  <2>4. ASSUME ST!HandleBlock \/ ST!HandleUnblock
        PROVE  UNCHANGED <<pendingStop, receivedStopSignal>>
    BY <2>4 DEF ST!HandleBlock, ST!HandleUnblock
  <2>5. ASSUME ST!Leave \/ ST!StartScan \/ ST!SuspendAgain
        PROVE  UNCHANGED <<pendingStop, receivedStopSignal>>
    BY <2>5 DEF ST!Leave, ST!StartScan, ST!SuspendAgain, ST!flagVars, ST!pendingVars
  <2>6. ~ST!HandleStop
    BY <2>2 DEF ST!HandleStop
  <2>7. UNCHANGED <<pendingStop, receivedStopSignal>>
    BY <1>2, <2>3, <2>4, <2>5, <2>6 DEF SignalStep, UnblockCore, BlockCore, OtherSignalStep
  <2> QED BY <2>2, <2>7
<1>3. CASE Controller
  <2>1. mpc' = mpc
    BY <1>3 DEF Controller, ownerVars
  <2>2. ASSUME NEW i \in Cores, ST!SendBlock(i) \/ ST!SendUnblock(i)
        PROVE  UNCHANGED <<pendingStop, receivedStopSignal>>
    BY <2>2 DEF ST!SendBlock, ST!SendUnblock, ST!flagVars
  <2>3. UNCHANGED <<pendingStop, receivedStopSignal>>
    BY <1>3, <2>2 DEF Controller
  <2> QED BY <2>1, <2>3
<1>4. CASE OwnerStep
  BY <1>4 DEF OwnerStep, AwaitSleepers, ScheduleOnCore, QueueStep, ClearJob, ReleaseJob, FreeJob,
              JoinSignalThread, ClearSchedule, ReleaseNextJob, AllReleased, FreeJobs, LockThreads,
              ReleaseThread, JoinThread, NextOwnerCore, signalVars, ownerVars
<1>5. CASE OwnerCall
  BY <1>5 DEF OwnerCall, OwnerIdle, NewJob, ScheduleJob, QueueCall, DeleteJob, DeleteSingleton,
              signalVars, ownerVars
<1>6. CASE OwnerSpurious
  BY <1>6 DEF OwnerSpurious, signalVars, ownerVars
<1>7. CASE UNCHANGED vars
  BY <1>7 DEF vars
<1> QED BY <1>1, <1>2, <1>3, <1>4, <1>5, <1>6, <1>7 DEF Next

\* Each step of the scheduler is a step of the signal thread or of those who
\* send to it, or leaves both alone.
LEMMA SignalsStep ==
  ASSUME StopInv, ST!InBounds, [Next]_vars
  PROVE  ST!Next \/ UNCHANGED ST!vars
<1>1. UNCHANGED signalVars => UNCHANGED ST!vars
  BY DEF signalVars, ST!vars
<1>2. CASE SignalStep
  BY <1>2 DEF SignalStep, UnblockCore, BlockCore, OtherSignalStep, ST!Next, ST!ThreadStep
<1>3. CASE Controller
  <2>1. PICK i \in Cores : ST!SendBlock(i) \/ ST!SendUnblock(i)
    BY <1>3 DEF Controller
  <2>2. i \in ST!Numbers
    BY DEF Cores, ST!Numbers
  <2>3. ST!MaySend
    BY <1>3 DEF Controller
  <2> QED BY <2>1, <2>2, <2>3 DEF ST!Next, ST!Sender
<1>4. CASE DeleteSingleton
  BY <1>4 DEF DeleteSingleton, OwnerIdle, StopInv, Destroying, ST!Next
<1>5. ASSUME \E i \in Cores : PoolStep(i) \/ SpuriousWake(i) PROVE UNCHANGED signalVars
  BY <1>5 DEF PoolStep, SpuriousWake, Top, Test, Count, Park, Wake, Take, Call, CallRefused,
              CallInvalid, InQueue, Return
<1>6. ASSUME OwnerStep PROVE UNCHANGED signalVars
  BY <1>6 DEF OwnerStep, AwaitSleepers, ScheduleOnCore, QueueStep, ClearJob, ReleaseJob, FreeJob,
              JoinSignalThread, ClearSchedule, ReleaseNextJob, AllReleased, FreeJobs, LockThreads,
              ReleaseThread, JoinThread
<1>7. ASSUME OwnerCall, ~DeleteSingleton PROVE UNCHANGED signalVars
  BY <1>7 DEF OwnerCall, NewJob, ScheduleJob, QueueCall, DeleteJob
<1>8. ASSUME OwnerSpurious PROVE UNCHANGED signalVars
  BY <1>8 DEF OwnerSpurious
<1>9. CASE UNCHANGED vars
  BY <1>9 DEF vars, ST!vars
<1> QED BY <1>1, <1>2, <1>3, <1>4, <1>5, <1>6, <1>7, <1>8, <1>9 DEF Next

\* The signal thread of a scheduler is a behaviour of SignalThread, although it
\* has to wait for the mutex of a pool thread before it unblocks its core.
THEOREM SignalsAreSignalThread == Spec => ST!Spec
<1>1. Init => ST!Init /\ StopInv
  BY DEF Init, ST!Init, StopInv
<1>2. StopInv /\ TypeInv /\ [Next]_vars => [ST!Next]_(ST!vars)
  BY SignalsStep, SignalTypesImply DEF TypeInv
<1> QED BY <1>1, <1>2, StopInvStep, TypesHold, PTL DEF Spec, ST!Spec

-----------------------------------------------------------------------------
(* When a null job is called.                                               *)

Clearing == {"dclear", "drelease", "dwait"}
Freeing == {"dlock", "dunlock", "djointhread", "dead"}

\* Until the destructor clears the schedule, a thread that has passed the test
\* finds a job at its second reading of schedule too, and takes it to the call.
NullInv ==
  /\ mpc \notin {"jclear", "jrelease", "jfree"}
  /\ mpc \notin Freeing => freed = {}
  /\ mpc \notin Clearing \cup {"dfree"} \cup Freeing =>
       \A i \in Cores : /\ loop[i] = "take" => schedule[i] # NULL
                        /\ loop[i] = "call" => queue[i] # NULL
  /\ crashed => mpc \in Clearing

\* The comment "wait until this thread is scheduled to a job" (ThreadWork) is
\* right up to the destructor, which clears the schedule without the mutexes:
\* that, and what follows up to its wait, is the only time at which a null job
\* can be called.  A deleted one never is.
NullCallInDestructor == crashed => mpc \in Clearing /\ freed = {}

LEMMA NullKept ==
  ASSUME NullInv, ~crashed',
         mpc' \notin {"jclear", "jrelease", "jfree"},
         mpc' \notin Freeing => mpc \notin Freeing /\ freed' = freed,
         mpc' \notin Clearing \cup {"dfree"} \cup Freeing =>
           mpc \notin Clearing \cup {"dfree"} \cup Freeing,
         \A i \in Cores : loop'[i] \in {"take", "call"} =>
           /\ loop[i] = loop'[i] /\ queue'[i] = queue[i]
           /\ schedule'[i] = schedule[i] \/ mpc' \in Clearing
  PROVE  NullInv'
  BY DEF NullInv

LEMMA NullPool ==
  ASSUME Inv, OwnerTypes, NullInv, ~crashed, NEW i \in Cores, PoolStep(i) \/ SpuriousWake(i)
  PROVE  NullInv'
<1>1. loop \in [Cores -> ThreadPC] /\ queue \in [Cores -> Jobs \cup {NULL}]
  BY DEF Inv, Shape, OwnerTypes
<1>2. CASE CallInvalid(i)
  <2>1. /\ loop[i] = "call" /\ (queue[i] = NULL \/ queue[i] \in freed)
        /\ UNCHANGED <<mpc, freed, loop, queue, schedule>>
    BY <1>2 DEF CallInvalid, Callable, ownerVars, jobVars, threadVars
  <2>2. mpc \notin {"dfree"} \cup Freeing
    BY <2>1 DEF Inv, CoreInv, ShutDown, Freeing
  <2>3. mpc \in Clearing
    BY <2>1, <2>2 DEF NullInv
  <2> QED BY <2>1, <2>3 DEF NullInv
<1>3. CASE Test(i)
  <2>1. /\ loop' = [loop EXCEPT ![i] =
                      IF schedule[i] = NULL \/ ~availableCores[i] THEN "count" ELSE "take"]
        /\ UNCHANGED <<mpc, freed, queue, schedule, crashed>>
    BY <1>3 DEF Test, GoTo, ownerVars, jobVars
  <2>2. \A k \in Cores : loop'[k] \in {"take", "call"} =>
          loop[k] = loop'[k] \/ (loop'[k] = "take" /\ schedule[k] # NULL)
    BY <1>1, <2>1
  <2> QED BY <2>1, <2>2 DEF NullInv
<1>4. CASE Take(i)
  <2>1. /\ loop[i] = "take" /\ loop' = [loop EXCEPT ![i] = "call"]
        /\ queue' = [queue EXCEPT ![i] = schedule[i]]
        /\ UNCHANGED <<mpc, freed, schedule, crashed>>
    BY <1>4 DEF Take, GoTo, ownerVars, jobVars
  <2>2. /\ \A k \in Cores \ {i} : loop'[k] = loop[k] /\ queue'[k] = queue[k]
        /\ loop'[i] = "call" /\ queue'[i] = schedule[i]
    BY <1>1, <2>1
  <2> QED BY <2>1, <2>2 DEF NullInv
<1>5. CASE \/ Top(i) \/ Count(i) \/ Park(i) \/ Wake(i) \/ Call(i) \/ CallRefused(i)
           \/ InQueue(i) \/ Return(i) \/ SpuriousWake(i)
  <2>1. UNCHANGED <<mpc, freed, queue, schedule, crashed>>
    BY <1>5 DEF Top, Count, Park, Wake, Call, CallRefused, InQueue, Return, SpuriousWake,
                ownerVars, jobVars
  <2>2. \/ UNCHANGED loop
        \/ \E l \in {"test", "park", "parked", "woken", "exited", "inqueue", "top"} :
             loop' = [loop EXCEPT ![i] = l]
        \/ loop' = [loop EXCEPT ![i] = IF @ = "parked" THEN "woken" ELSE @]
    <3>1. CASE Top(i) \/ Count(i) \/ Park(i) \/ Call(i) \/ CallRefused(i) \/ Return(i)
      BY <3>1 DEF Top, Count, Park, Call, CallRefused, Return, GoTo
    <3>2. CASE Wake(i)
      BY <3>2 DEF Wake, GoTo
    <3>3. CASE InQueue(i) \/ SpuriousWake(i)
      BY <3>3 DEF InQueue, SpuriousWake, NotifyThread
    <3> QED BY <1>5, <3>1, <3>2, <3>3
  <2>3. \A k \in Cores : loop'[k] \in {"take", "call"} => loop[k] = loop'[k]
    BY <1>1, <2>2
  <2> QED BY <2>1, <2>3, NullKept DEF NullInv
<1> QED BY <1>2, <1>3, <1>4, <1>5 DEF PoolStep

LEMMA NullSignals ==
  ASSUME Inv, NullInv, ~crashed, SignalStep \/ Controller \/ OwnerCall \/ OwnerSpurious,
         ~DeleteJobs
  PROVE  NullInv'
<1>1. UNCHANGED <<freed, queue, schedule, crashed>>
  BY DEF SignalStep, Controller, OwnerCall, OwnerSpurious, NewJob, ScheduleJob, QueueCall,
         DeleteJob, DeleteSingleton, jobVars, threadVars
<1>2. mpc' = mpc \/ (mpc = "idle" /\ mpc' \in {"schedule", "djoin"})
  BY DEF SignalStep, Controller, OwnerCall, OwnerSpurious, NewJob, ScheduleJob, QueueCall,
         DeleteJob, DeleteSingleton, OwnerIdle, ownerVars
<1>3. UNCHANGED loop \/ loop' = [loop EXCEPT ![scan] = IF @ = "parked" THEN "woken" ELSE @]
  BY DEF SignalStep, UnblockCore, BlockCore, OtherSignalStep, NotifyThread, Controller, OwnerCall,
         OwnerSpurious, NewJob, ScheduleJob, QueueCall, DeleteJob, DeleteSingleton, threadVars
<1>4. \A k \in Cores : loop'[k] \in {"take", "call"} => loop[k] = loop'[k]
  BY <1>3 DEF Inv, Shape
<1> QED BY <1>1, <1>2, <1>4, NullKept DEF NullInv, Clearing, Freeing

LEMMA NullOwner ==
  ASSUME Inv, OwnerTypes, NullInv, ~crashed, OwnerStep
  PROVE  NullInv'
<1> USE DEF Clearing, Freeing
<1>1. CASE ScheduleOnCore
  <2>1. PICK m \in Cores : m = mi
    BY <1>1 DEF Inv, OwnerInv, ScheduleOnCore
  <2>2. /\ mpc = "schedule" /\ thread_mutex[m] = "free"
        /\ schedule' = [schedule EXCEPT ![m] = IF m \in plan.cores THEN plan.job ELSE NULL]
        /\ loop' = loop \/ loop' = [loop EXCEPT ![m] = IF @ = "parked" THEN "woken" ELSE @]
        /\ mpc' = mpc \/ mpc' = "idle"
        /\ UNCHANGED <<freed, queue, crashed>>
    BY <1>1, <2>1 DEF ScheduleOnCore, NextOwnerCore, NotifyThread, jobVars
  <2>3. loop[m] # "take"
    BY <2>2 DEF Inv, CoreInv, LockInv
  <2>4. ASSUME NEW k \in Cores, loop'[k] \in {"take", "call"}
        PROVE  loop'[k] = loop[k] /\ (k # m => schedule'[k] = schedule[k])
    BY <2>2, <2>4 DEF Inv, Shape, OwnerTypes
  <2>5. ASSUME NEW k \in Cores
        PROVE  /\ loop'[k] = "take" => schedule'[k] # NULL
               /\ loop'[k] = "call" => queue'[k] # NULL
    <3>1. loop[k] = "take" => schedule[k] # NULL
      BY <2>2 DEF NullInv
    <3>2. loop[k] = "call" => queue[k] # NULL
      BY <2>2 DEF NullInv
    <3>3. loop'[k] = "take" => k # m /\ loop[k] = "take" /\ schedule'[k] = schedule[k]
      BY <2>3, <2>4
    <3>4. loop'[k] = "call" => loop[k] = "call" /\ queue'[k] = queue[k]
      BY <2>2, <2>4
    <3> QED BY <3>1, <3>2, <3>3, <3>4
  <2>6. freed' = {} /\ ~crashed' /\ mpc' \in {"schedule", "idle"}
    BY <2>2 DEF NullInv
  <2> QED BY <2>5, <2>6 DEF NullInv
<1>2. CASE ClearJob \/ ReleaseJob \/ FreeJob
  BY <1>2 DEF ClearJob, ReleaseJob, FreeJob, NullInv
<1>3. CASE ClearSchedule
  <2>1. /\ mpc = "dclear" /\ mpc' \in {"dclear", "drelease"}
        /\ UNCHANGED <<freed, crashed>>
    BY <1>3 DEF ClearSchedule, NextOwnerCore, jobVars
  <2> QED BY <2>1 DEF NullInv
<1>4. CASE AwaitSleepers \/ QueueStep \/ JoinSignalThread \/ ReleaseNextJob \/ AllReleased
  <2>1. UNCHANGED <<freed, queue, schedule, loop, crashed>>
    BY <1>4 DEF AwaitSleepers, QueueStep, JoinSignalThread, ReleaseNextJob, AllReleased, jobVars,
                threadVars
  <2>2. \/ mpc' = mpc \/ (mpc = "init" /\ mpc' = "idle") \/ (mpc = "dwait" /\ mpc' = "dfree")
        \/ (mpc = "djoin" /\ mpc' = "dclear") \/ (mpc = "drelease" /\ mpc' = "dwait")
    BY <1>4 DEF AwaitSleepers, QueueStep, JoinSignalThread, ReleaseNextJob, AllReleased, ownerVars
  <2> QED BY <2>1, <2>2 DEF NullInv
<1>5. CASE FreeJobs \/ LockThreads \/ ReleaseThread \/ JoinThread
  <2>1. mpc' \in Freeing /\ crashed' = crashed
    BY <1>5 DEF FreeJobs, LockThreads, ReleaseThread, JoinThread, NextOwnerCore
  <2> QED BY <2>1 DEF NullInv
<1> QED BY <1>1, <1>2, <1>3, <1>4, <1>5 DEF OwnerStep

\* Without deleteJob, which says of itself that it is not safe, a pool thread
\* calls a null job in the destructor only, and a deleted one never.
THEOREM NullCallsAreTheDestructors ==
  ASSUME ~DeleteJobs PROVE Spec => []NullCallInDestructor
<1>1. Init => NullInv
  BY DEF Init, NullInv, Clearing, Freeing
<1>2. TypeInv /\ NullInv /\ [Next]_vars => NullInv'
  <2> SUFFICES ASSUME TypeInv, NullInv, [Next]_vars PROVE NullInv'
    OBVIOUS
  <2>1. CASE Next
    BY <2>1, NullPool, NullSignals, NullOwner DEF Next, TypeInv
  <2>2. CASE UNCHANGED vars
    BY <2>2 DEF vars, NullInv
  <2> QED BY <2>1, <2>2
<1>3. NullInv => NullCallInDestructor
  BY DEF NullInv, NullCallInDestructor, Clearing, Freeing
<1> QED BY <1>1, <1>2, <1>3, TypesHold, PTL DEF Spec

=============================================================================
