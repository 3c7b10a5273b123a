--------------------------- MODULE WorkQueueProofs ---------------------------
(***************************************************************************)
(* Proofs about WorkQueue for every set of queues, workers, clients and     *)
(* packets.  Types and shape first (TypeInv), then the two counters on top  *)
(* of it, then what follows from exact counters: the barrier, the release   *)
(* and the absence of stranded packets.                                     *)
(*                                                                          *)
(* The second part shows that WorkQueue implements JobBarrier.  It needs    *)
(* that a packet is in one place at most: one position of one deque, or in  *)
(* the hands of one worker, or done (ItemsOnce).                            *)
(***************************************************************************)
EXTENDS WorkQueue, FiniteSetTheorems, SequenceTheorems, TLAPS

USE WorkQueueAssumption

\* A worker is inside a queue unless it is out, and executes a packet while it
\* runs; a client is inside a call about a queue unless it is idle.
Shape ==
  /\ \A w \in Workers : wpc[w] = "running" => item[w] \in Items
  /\ \A w \in Workers : wpc[w] = "out" <=> wq[w] = NoQueue
  /\ \A c \in Clients : cpc[c] = "idle" <=> cq[c] = NoQueue

TypeInv == Types /\ Shape

-----------------------------------------------------------------------------
(* Sets of workers and how they change when one worker moves.               *)

LEMMA WorkersFinite ==
  ASSUME NEW S \in SUBSET Workers
  PROVE  /\ IsFiniteSet(S)
         /\ Cardinality(S) \in Nat
         /\ Cardinality(S) = 0 <=> S = {}
BY FS_Subset, FS_CardinalityType, FS_EmptySet DEF WorkQueueAssumption

\* Only w changes place: every set of the form At(j, pcs) gains or loses w.
LEMMA OneWorkerMoves ==
  ASSUME NEW w \in Workers, NEW CONSTANT j, NEW CONSTANT pcs,
         \A v \in Workers \ {w} : wpc'[v] = wpc[v] /\ wq'[v] = wq[v]
  PROVE  LET before == IF w \in At(j, pcs) THEN 1 ELSE 0
             after == IF w \in At(j, pcs)' THEN 1 ELSE 0
         IN  Cardinality(At(j, pcs))' = Cardinality(At(j, pcs)) + after - before
<1> DEFINE S == At(j, pcs)
<1> DEFINE T == At(j, pcs)'
<1>1. S \in SUBSET Workers /\ T \in SUBSET Workers
  BY DEF At
<1>2. T \ {w} = S \ {w}
  BY DEF At
<1> DEFINE s == IF w \in S THEN 1 ELSE 0
<1> DEFINE t == IF w \in T THEN 1 ELSE 0
<1> HIDE DEF S, T
<1>3. /\ Cardinality(S \ {w}) = Cardinality(S) - s
      /\ Cardinality(T \ {w}) = Cardinality(T) - t
      /\ Cardinality(S) \in Nat /\ Cardinality(T) \in Nat
      /\ s \in {0, 1} /\ t \in {0, 1}
  BY <1>1, WorkersFinite, FS_RemoveElement
<1> HIDE DEF s, t
<1>4. Cardinality(S) - s = Cardinality(T) - t
  BY <1>2, <1>3
<1>5. Cardinality(T) = Cardinality(S) + t - s
  BY <1>3, <1>4
<1> QED BY <1>5 DEF S, T, s, t

-----------------------------------------------------------------------------
(* Types. *)

LEMMA TypeInvInit == Init => TypeInv
BY DEF Init, TypeInv, Types, Shape, WorkerPC, ClientPC, WorkQueueAssumption

LEMMA RetestValues ==
  /\ DOMAIN Retest = {"budwait", "relwait"}
  /\ Retest["budwait"] = "bud"
  /\ Retest["relwait"] = "rel"
BY DEF Retest

LEMMA NotifyExternalTypes ==
  ASSUME TypeInv, NEW j, NotifyExternal(j) \/ UNCHANGED cpc
  PROVE  /\ cpc' \in [Clients -> ClientPC]
         /\ \A c \in Clients : cpc'[c] = "idle" <=> cpc[c] = "idle"
<1>1. cpc \in [Clients -> ClientPC]
  BY DEF TypeInv, Types
<1>2. CASE NotifyExternal(j)
  BY <1>1, <1>2, RetestValues DEF NotifyExternal, ClientPC
<1>3. CASE UNCHANGED cpc
  BY <1>1, <1>3
<1> QED BY <1>2, <1>3

LEMMA NotifyOneTypes ==
  ASSUME TypeInv, NEW j, NotifyOne(j)
  PROVE  /\ wpc' \in [Workers -> WorkerPC]
         /\ \A w \in Workers : wpc'[w] = "out" <=> wpc[w] = "out"
         /\ \A w \in Workers : wpc'[w] = "running" => wpc[w] = "running"
BY DEF TypeInv, Types, NotifyOne, Waiting, At, WorkerPC

LEMMA TakeFrontTypes ==
  ASSUME TypeInv, NEW w \in Workers, wq[w] \in Queues, TakeFront(w, wq[w])
  PROVE  /\ q' \in [Queues -> Seq(Items)]
         /\ active' \in [Queues -> Int]
         /\ item' \in [Workers -> Items \cup {NoItem}]
         /\ wpc' = [wpc EXCEPT ![w] = "running"]
<1>1. q[wq[w]] \in Seq(Items) /\ q[wq[w]] # <<>>
  BY DEF TypeInv, Types, TakeFront
<1>2. Head(q[wq[w]]) \in Items /\ Tail(q[wq[w]]) \in Seq(Items)
  BY <1>1, HeadTailProperties
<1> QED BY <1>2 DEF TypeInv, Types, TakeFront

LEMMA TypeInvWorker ==
  ASSUME TypeInv, NEW w \in Workers, WorkerStep(w)
  PROVE  TypeInv'
<1>1. wpc[w] # "out" => wq[w] \in Queues
  BY DEF TypeInv, Types, Shape
<1>2. CASE EnterTake(w)
  <2>1. wq[w] \in Queues /\ TakeFront(w, wq[w])
    BY <1>1, <1>2 DEF EnterTake
  <2> QED BY <1>2, <2>1, TakeFrontTypes
          DEF TypeInv, Types, Shape, EnterTake, TakeFront, WorkerPC, clientVars
<1>3. CASE WakeTake(w)
  <2>1. wq[w] \in Queues /\ TakeFront(w, wq[w])
    BY <1>1, <1>3 DEF WakeTake
  <2> QED BY <1>3, <2>1, TakeFrontTypes
          DEF TypeInv, Types, Shape, WakeTake, TakeFront, WorkerPC, clientVars
<1>4. CASE EnterSleep(w)
  <2>1. NotifyExternal(wq[w]) \/ UNCHANGED cpc
    BY <1>4 DEF EnterSleep, WaitForPacket, NotifyExternalIf
  <2> QED BY <1>1, <1>4, <2>1, NotifyExternalTypes
          DEF TypeInv, Types, Shape, EnterSleep, WaitForPacket, WorkerPC
<1>5. CASE WakeSleep(w)
  <2>1. NotifyExternal(wq[w]) \/ UNCHANGED cpc
    BY <1>5 DEF WakeSleep, WaitForPacket, NotifyExternalIf
  <2> QED BY <1>1, <1>5, <2>1, NotifyExternalTypes
          DEF TypeInv, Types, Shape, WakeSleep, WaitForPacket, WorkerPC
<1>6. CASE WakeLeave(w)
  <2>1. NotifyExternal(wq[w]) \/ UNCHANGED cpc
    BY <1>6 DEF WakeLeave, NotifyExternalIf
  <2> QED BY <1>1, <1>6, <2>1, NotifyExternalTypes
          DEF TypeInv, Types, Shape, WakeLeave, WorkerPC
<1>7. CASE Finish(w)
  <2>1. item[w] \in Items
    BY <1>7 DEF TypeInv, Shape, Finish
  <2>2. NotifyExternal(wq[w]) \/ UNCHANGED cpc
    BY <1>7 DEF Finish, NotifyExternalIf
  <2> QED BY <1>1, <1>7, <2>1, <2>2, NotifyExternalTypes
          DEF TypeInv, Types, Shape, Finish, WorkerPC
<1> QED BY <1>2, <1>3, <1>4, <1>5, <1>6, <1>7 DEF WorkerStep

LEMMA TypeInvCalls ==
  ASSUME TypeInv, NEW c \in Clients, NEW j \in Queues, ClientCall(c, j)
  PROVE  TypeInv'
<1>1. ASSUME NEW i \in Items, Push(c, j, i) PROVE TypeInv'
  <2>1. q' \in [Queues -> Seq(Items)]
    BY <1>1, AppendProperties DEF TypeInv, Types, Push
  <2>2. /\ wpc' \in [Workers -> WorkerPC]
        /\ \A w \in Workers : wpc'[w] = "out" <=> wpc[w] = "out"
        /\ \A w \in Workers : wpc'[w] = "running" => wpc[w] = "running"
    BY <1>1, NotifyOneTypes DEF Push
  <2> QED BY <1>1, <2>1, <2>2 DEF TypeInv, Types, Shape, Push, clientVars
<1>2. CASE BlockUntilDone(c, j)
  BY <1>2 DEF TypeInv, Types, Shape, BlockUntilDone, ClientPC, queueVars, workerVars
<1>3. CASE Release(c, j)
  BY <1>3, ZenonT(60) DEF TypeInv, Types, Shape, Release, Waiting, At, WorkerPC, ClientPC, clientVars
<1> QED BY <1>1, <1>2, <1>3 DEF ClientCall

LEMMA TypeInvStep == TypeInv /\ [Next]_vars => TypeInv'
<1> SUFFICES ASSUME TypeInv, [Next]_vars PROVE TypeInv'
  OBVIOUS
<1>1. ASSUME NEW w \in Workers, WorkerStep(w) PROVE TypeInv'
  BY <1>1, TypeInvWorker
<1>2. ASSUME NEW w \in Workers, SpuriousWake(w) PROVE TypeInv'
  BY <1>2 DEF TypeInv, Types, Shape, SpuriousWake, WorkerPC, queueVars, clientVars
<1>3. ASSUME NEW w \in Workers, NEW j \in Queues, Enter(w, j) PROVE TypeInv'
  BY <1>3 DEF TypeInv, Types, Shape, Enter, WorkerPC, queueVars, clientVars
<1>4. ASSUME NEW c \in Clients, ClientStep(c) PROVE TypeInv'
  BY <1>4, ZenonT(60) DEF TypeInv, Types, Shape, ClientStep, BudReturn, BudWait, RelReturn, RelWait,
              ClientPC, queueVars, workerVars
<1>5. ASSUME NEW c \in Clients, SpuriousExternal(c) PROVE TypeInv'
  <2>1. cpc' \in [Clients -> ClientPC]
    BY <1>5, RetestValues DEF TypeInv, Types, SpuriousExternal, ClientPC
  <2>2. \A d \in Clients : cpc'[d] = "idle" <=> cpc[d] = "idle"
    BY <1>5, RetestValues DEF TypeInv, Types, SpuriousExternal
  <2> QED BY <1>5, <2>1, <2>2
          DEF TypeInv, Types, Shape, SpuriousExternal, queueVars, workerVars
<1>6. ASSUME NEW c \in Clients, NEW j \in Queues, ClientCall(c, j) PROVE TypeInv'
  BY <1>6, TypeInvCalls
<1>7. CASE UNCHANGED vars
  BY <1>7 DEF TypeInv, Types, Shape, vars
<1> QED BY <1>1, <1>2, <1>3, <1>4, <1>5, <1>6, <1>7 DEF Next

-----------------------------------------------------------------------------
(* The counters. *)

\* Running(j) and Asleep(j) after a step of w, and w's own place in them.
LEMMA WorkerMoves ==
  ASSUME TypeInv, NEW w \in Workers, NEW j \in Queues,
         \A v \in Workers \ {w} : wpc'[v] = wpc[v] /\ wq'[v] = wq[v]
  PROVE  /\ Cardinality(Running(j))' =
              Cardinality(Running(j))
                + (IF wq'[w] = j /\ wpc'[w] = "running" THEN 1 ELSE 0)
                - (IF wq[w] = j /\ wpc[w] = "running" THEN 1 ELSE 0)
         /\ Cardinality(Asleep(j))' =
              Cardinality(Asleep(j))
                + (IF wq'[w] = j /\ wpc'[w] \in {"waiting", "woken"} THEN 1 ELSE 0)
                - (IF wq[w] = j /\ wpc[w] \in {"waiting", "woken"} THEN 1 ELSE 0)
         /\ Cardinality(Woken(j))' =
              Cardinality(Woken(j))
                + (IF wq'[w] = j /\ wpc'[w] = "woken" THEN 1 ELSE 0)
                - (IF wq[w] = j /\ wpc[w] = "woken" THEN 1 ELSE 0)
<1>1. \A pcs : /\ w \in At(j, pcs) <=> wq[w] = j /\ wpc[w] \in pcs
               /\ w \in At(j, pcs)' <=> wq'[w] = j /\ wpc'[w] \in pcs
  BY DEF At
<1>2. Cardinality(At(j, {"running"}))' =
        Cardinality(At(j, {"running"}))
          + (IF w \in At(j, {"running"})' THEN 1 ELSE 0)
          - (IF w \in At(j, {"running"}) THEN 1 ELSE 0)
  BY OneWorkerMoves
<1>3. Cardinality(At(j, {"waiting", "woken"}))' =
        Cardinality(At(j, {"waiting", "woken"}))
          + (IF w \in At(j, {"waiting", "woken"})' THEN 1 ELSE 0)
          - (IF w \in At(j, {"waiting", "woken"}) THEN 1 ELSE 0)
  BY OneWorkerMoves
<1>4. Cardinality(At(j, {"woken"}))' =
        Cardinality(At(j, {"woken"}))
          + (IF w \in At(j, {"woken"})' THEN 1 ELSE 0)
          - (IF w \in At(j, {"woken"}) THEN 1 ELSE 0)
  BY OneWorkerMoves
<1> QED BY <1>1, <1>2, <1>3, <1>4 DEF Running, Asleep, Woken

LEMMA CountsAreNat ==
  ASSUME NEW j
  PROVE  /\ Cardinality(Running(j)) \in Nat
         /\ Cardinality(Asleep(j)) \in Nat
         /\ Cardinality(Woken(j)) \in Nat
         /\ Cardinality(Running(j)) = 0 <=> Running(j) = {}
         /\ Cardinality(Asleep(j)) = 0 <=> Asleep(j) = {}
<1>1. Running(j) \in SUBSET Workers /\ Asleep(j) \in SUBSET Workers /\ Woken(j) \in SUBSET Workers
  BY DEF Running, Asleep, Woken, At
<1> QED BY <1>1, WorkersFinite

LEMMA OthersStay ==
  ASSUME TypeInv, NEW w \in Workers,
         WorkerStep(w) \/ SpuriousWake(w) \/ \E j \in Queues : Enter(w, j)
  PROVE  \A v \in Workers \ {w} : wpc'[v] = wpc[v] /\ wq'[v] = wq[v]
BY DEF TypeInv, Types, WorkerStep, EnterTake, EnterSleep, WakeTake, WakeSleep, WakeLeave,
       Finish, TakeFront, WaitForPacket, SpuriousWake, Enter

LEMMA CountersInit == Init => CountersExact
<1> SUFFICES ASSUME Init, NEW j \in Queues
             PROVE  Running(j) = {} /\ Asleep(j) = {} /\ active[j] = 0 /\ sleeping[j] = 0
  BY FS_EmptySet DEF CountersExact
<1> QED BY DEF Init, Running, Asleep, At

LEMMA CountersWorker ==
  ASSUME TypeInv, CountersExact, NEW w \in Workers, WorkerStep(w)
  PROVE  CountersExact'
<1> SUFFICES ASSUME NEW j \in Queues
             PROVE  /\ active'[j] = Cardinality(Running(j))'
                    /\ sleeping'[j] = Cardinality(Asleep(j))'
  BY DEF CountersExact
<1>1. wpc \in [Workers -> WorkerPC] /\ wq \in [Workers -> Queues \cup {NoQueue}]
  BY DEF TypeInv, Types
<1>2. active \in [Queues -> Int] /\ sleeping \in [Queues -> Int]
  BY DEF TypeInv, Types
<1>3. active[j] = Cardinality(Running(j)) /\ sleeping[j] = Cardinality(Asleep(j))
  BY DEF CountersExact
<1>4. /\ Cardinality(Running(j))' =
           Cardinality(Running(j))
             + (IF wq'[w] = j /\ wpc'[w] = "running" THEN 1 ELSE 0)
             - (IF wq[w] = j /\ wpc[w] = "running" THEN 1 ELSE 0)
      /\ Cardinality(Asleep(j))' =
           Cardinality(Asleep(j))
             + (IF wq'[w] = j /\ wpc'[w] \in {"waiting", "woken"} THEN 1 ELSE 0)
             - (IF wq[w] = j /\ wpc[w] \in {"waiting", "woken"} THEN 1 ELSE 0)
  BY OthersStay, WorkerMoves
<1>5. CASE EnterTake(w)
  <2>1. wpc[w] = "entering" /\ wpc'[w] = "running" /\ wq'[w] = wq[w]
    BY <1>1, <1>5 DEF EnterTake, TakeFront
  <2>2. active'[j] = (IF wq[w] = j THEN active[j] + 1 ELSE active[j])
    BY <1>2, <1>5 DEF EnterTake, TakeFront
  <2>3. sleeping'[j] = sleeping[j]
    BY <1>2, <1>5 DEF EnterTake, TakeFront
  <2> QED BY <1>2, <1>3, <1>4, <2>1, <2>2, <2>3
<1>6. CASE EnterSleep(w)
  <2>1. wpc[w] = "entering" /\ wpc'[w] = "waiting" /\ wq'[w] = wq[w]
    BY <1>1, <1>6 DEF EnterSleep, WaitForPacket
  <2>2. active'[j] = active[j]
    BY <1>2, <1>6 DEF EnterSleep, WaitForPacket
  <2>3. sleeping'[j] = (IF wq[w] = j THEN sleeping[j] + 1 ELSE sleeping[j])
    BY <1>2, <1>6 DEF EnterSleep, WaitForPacket
  <2> QED BY <1>2, <1>3, <1>4, <2>1, <2>2, <2>3
<1>7. CASE WakeTake(w)
  <2>1. wpc[w] = "woken" /\ wpc'[w] = "running" /\ wq'[w] = wq[w]
    BY <1>1, <1>7 DEF WakeTake, TakeFront
  <2>2. active'[j] = (IF wq[w] = j THEN active[j] + 1 ELSE active[j])
    BY <1>2, <1>7 DEF WakeTake, TakeFront
  <2>3. sleeping'[j] = (IF wq[w] = j THEN sleeping[j] - 1 ELSE sleeping[j])
    BY <1>2, <1>7 DEF WakeTake, TakeFront
  <2> QED BY <1>2, <1>3, <1>4, <2>1, <2>2, <2>3
<1>8. CASE WakeSleep(w)
  <2>1. wpc[w] = "woken" /\ wpc'[w] = "waiting" /\ wq'[w] = wq[w]
    BY <1>1, <1>8 DEF WakeSleep, WaitForPacket
  <2>2. active'[j] = active[j]
    BY <1>2, <1>8 DEF WakeSleep, WaitForPacket
  <2>3. sleeping'[j] = sleeping[j]
    BY <1>2, <1>8 DEF WakeSleep, WaitForPacket
  <2> QED BY <1>2, <1>3, <1>4, <2>1, <2>2, <2>3
<1>9. CASE WakeLeave(w)
  <2>1. wpc[w] = "woken" /\ wpc'[w] = "out" /\ wq'[w] = NoQueue
    BY <1>1, <1>9 DEF WakeLeave
  <2>2. active'[j] = active[j]
    BY <1>2, <1>9 DEF WakeLeave
  <2>3. sleeping'[j] = (IF wq[w] = j THEN sleeping[j] - 1 ELSE sleeping[j])
    BY <1>2, <1>9 DEF WakeLeave
  <2> QED BY <1>2, <1>3, <1>4, <2>1, <2>2, <2>3
<1>10. CASE Finish(w)
  <2>1. wpc[w] = "running" /\ wpc'[w] = "out" /\ wq'[w] = NoQueue
    BY <1>1, <1>10 DEF Finish
  <2>2. active'[j] = (IF wq[w] = j THEN active[j] - 1 ELSE active[j])
    BY <1>2, <1>10 DEF Finish
  <2>3. sleeping'[j] = sleeping[j]
    BY <1>2, <1>10 DEF Finish
  <2> QED BY <1>2, <1>3, <1>4, <2>1, <2>2, <2>3
<1> QED BY <1>5, <1>6, <1>7, <1>8, <1>9, <1>10 DEF WorkerStep

\* A step after which every worker is where it was, up to having been woken,
\* leaves the counted sets alone.
LEMMA CountersKept ==
  ASSUME CountersExact, active' = active, sleeping' = sleeping, wq' = wq,
         \A w \in Workers :
           wpc'[w] = wpc[w] \/ (wpc[w] = "waiting" /\ wpc'[w] = "woken")
  PROVE  CountersExact'
<1> SUFFICES ASSUME NEW j \in Queues PROVE Running(j)' = Running(j) /\ Asleep(j)' = Asleep(j)
  BY DEF CountersExact
<1> QED BY DEF Running, Asleep, At

LEMMA CountersStep == TypeInv /\ CountersExact /\ [Next]_vars => CountersExact'
<1> SUFFICES ASSUME TypeInv, CountersExact, [Next]_vars PROVE CountersExact'
  OBVIOUS
<1>1. wpc \in [Workers -> WorkerPC]
  BY DEF TypeInv, Types
<1>2. ASSUME NEW w \in Workers, WorkerStep(w) PROVE CountersExact'
  BY <1>2, CountersWorker
<1>3. ASSUME NEW w \in Workers, SpuriousWake(w) PROVE CountersExact'
  BY <1>1, <1>3, CountersKept DEF SpuriousWake, queueVars
<1>4. ASSUME NEW w \in Workers, NEW k \in Queues, Enter(w, k) PROVE CountersExact'
  <2> SUFFICES ASSUME NEW j \in Queues PROVE Running(j)' = Running(j) /\ Asleep(j)' = Asleep(j)
    BY <1>4 DEF CountersExact, Enter, queueVars
  <2> QED BY <1>1, <1>4 DEF Enter, Running, Asleep, At, TypeInv, Types, Shape
<1>5. ASSUME NEW c \in Clients, ClientStep(c) \/ SpuriousExternal(c) PROVE CountersExact'
  BY <1>5, CountersKept
     DEF ClientStep, BudReturn, BudWait, RelReturn, RelWait, SpuriousExternal, queueVars, workerVars
<1>6. ASSUME NEW c \in Clients, NEW j \in Queues, NEW i \in Items, Push(c, j, i)
      PROVE  CountersExact'
  BY <1>1, <1>6, CountersKept DEF Push, NotifyOne, Waiting, At
<1>7. ASSUME NEW c \in Clients, NEW j \in Queues, BlockUntilDone(c, j) PROVE CountersExact'
  BY <1>7, CountersKept DEF BlockUntilDone, queueVars, workerVars
<1>8. ASSUME NEW c \in Clients, NEW j \in Queues, Release(c, j) PROVE CountersExact'
  BY <1>1, <1>8, CountersKept DEF Release, Waiting, At
<1>9. CASE UNCHANGED vars
  BY <1>9, CountersKept DEF vars
<1> QED BY <1>2, <1>3, <1>4, <1>5, <1>6, <1>7, <1>8, <1>9 DEF Next, ClientCall

LEMMA Invariance == Spec => [](TypeInv /\ CountersExact)
<1>1. Init => TypeInv /\ CountersExact
  BY TypeInvInit, CountersInit
<1>2. TypeInv /\ CountersExact /\ [Next]_vars => (TypeInv /\ CountersExact)'
  BY TypeInvStep, CountersStep
<1> QED BY <1>1, <1>2, PTL DEF Spec

LEMMA InvGivesTypes == TypeInv /\ CountersExact => TypeOK
<1> SUFFICES ASSUME TypeInv, CountersExact, NEW j \in Queues
             PROVE  active[j] >= 0 /\ sleeping[j] >= 0
  BY DEF TypeOK, TypeInv
<1> QED BY CountsAreNat DEF CountersExact

\* Type correctness: every variable of the queue keeps its type, and no counter
\* is ever decremented below zero.
THEOREM TypeCorrect == Spec => []TypeOK
  BY InvGivesTypes, Invariance, PTL

\* active and sleeping count real threads at every moment, for any number of
\* queues, workers and clients: the increments and decrements scattered over
\* wait_and_workOne balance on every path through it.
THEOREM CountersCorrect == Spec => []CountersExact
BY Invariance, PTL

-----------------------------------------------------------------------------
(* What blockuntildone and releaseWaitingThreads conclude from the counters. *)

\* BudReturn is the only step that takes a client from "bud" to "idle".
LEMMA OnlyBudReturn ==
  ASSUME TypeInv, [Next]_vars, NEW c \in Clients, cpc[c] = "bud", cpc'[c] = "idle"
  PROVE  BudReturn(c)
<1> USE DEF TypeInv, Types
<1>1. ASSUME NEW w \in Workers, WorkerStep(w) PROVE cpc'[c] = "bud"
  <2>1. UNCHANGED cpc \/ \E j : NotifyExternal(j)
    BY <1>1 DEF WorkerStep, EnterTake, EnterSleep, WakeTake, WakeSleep, WakeLeave, Finish,
                TakeFront, WaitForPacket, NotifyExternalIf, clientVars
  <2> QED BY <2>1, RetestValues DEF NotifyExternal
<1>2. ASSUME NEW d \in Clients, ClientStep(d) \/ SpuriousExternal(d), ~BudReturn(c)
      PROVE  cpc'[c] = "bud"
  BY <1>2, RetestValues
     DEF ClientStep, BudReturn, BudWait, RelReturn, RelWait, SpuriousExternal
<1>3. ASSUME NEW d \in Clients, NEW j \in Queues, ClientCall(d, j) PROVE cpc'[c] = "bud"
  BY <1>3 DEF ClientCall, Push, BlockUntilDone, Release, clientVars
<1> QED BY <1>1, <1>2, <1>3 DEF Next, SpuriousWake, Enter, clientVars, vars

\* blockuntildone is a sound barrier: it lets a client through only over a
\* queue with no packet in it and no thread executing one.
THEOREM BarrierIsSound == Spec => BarrierSound
<1>1. TypeInv /\ CountersExact /\ [Next]_vars =>
        [\A c \in Clients :
           cpc[c] = "bud" /\ cpc'[c] = "idle" =>
             Queued(cq[c]) = {} /\ Running(cq[c]) = {}]_vars
  <2> SUFFICES ASSUME TypeInv, CountersExact, [Next]_vars,
                      NEW c \in Clients, cpc[c] = "bud", cpc'[c] = "idle"
               PROVE  Queued(cq[c]) = {} /\ Running(cq[c]) = {}
    OBVIOUS
  <2>1. q[cq[c]] = <<>> /\ ~(active[cq[c]] > 0)
    BY OnlyBudReturn DEF BudReturn, Drained
  <2>2. cq[c] \in Queues
    BY DEF TypeInv, Types, Shape
  <2>3. Cardinality(Running(cq[c])) = 0
    BY <2>1, <2>2, CountsAreNat DEF CountersExact
  <2> QED BY <2>1, <2>3, CountsAreNat DEF Queued
<1> QED BY <1>1, Invariance, PTL DEF BarrierSound, Spec

\* RelReturn is the only step that takes a client from "rel" to "idle".
LEMMA OnlyRelReturn ==
  ASSUME TypeInv, [Next]_vars, NEW c \in Clients, cpc[c] = "rel", cpc'[c] = "idle"
  PROVE  RelReturn(c)
<1> USE DEF TypeInv, Types
<1>1. ASSUME NEW w \in Workers, WorkerStep(w) PROVE cpc'[c] = "rel"
  <2>1. UNCHANGED cpc \/ \E j : NotifyExternal(j)
    BY <1>1 DEF WorkerStep, EnterTake, EnterSleep, WakeTake, WakeSleep, WakeLeave, Finish,
                TakeFront, WaitForPacket, NotifyExternalIf, clientVars
  <2> QED BY <2>1, RetestValues DEF NotifyExternal
<1>2. ASSUME NEW d \in Clients, ClientStep(d) \/ SpuriousExternal(d), ~RelReturn(c)
      PROVE  cpc'[c] = "rel"
  BY <1>2, RetestValues
     DEF ClientStep, BudReturn, BudWait, RelReturn, RelWait, SpuriousExternal
<1>3. ASSUME NEW d \in Clients, NEW j \in Queues, ClientCall(d, j) PROVE cpc'[c] = "rel"
  BY <1>3 DEF ClientCall, Push, BlockUntilDone, Release, clientVars
<1> QED BY <1>1, <1>2, <1>3 DEF Next, SpuriousWake, Enter, clientVars, vars

\* Release is the only step that puts a queue out of service.
LEMMA OnlyRelease ==
  ASSUME TypeInv, [Next]_vars, NEW j \in Queues, ~destruct[j], destruct'[j]
  PROVE  \E c \in Clients : Release(c, j)
<1> USE DEF TypeInv, Types
<1>1. ASSUME NEW w \in Workers, WorkerStep(w) PROVE UNCHANGED destruct
  BY <1>1 DEF WorkerStep, EnterTake, EnterSleep, WakeTake, WakeSleep, WakeLeave, Finish,
              TakeFront, WaitForPacket
<1>2. ASSUME NEW c \in Clients, ClientStep(c) \/ SpuriousExternal(c) PROVE UNCHANGED destruct
  BY <1>2 DEF ClientStep, BudReturn, BudWait, RelReturn, RelWait, SpuriousExternal, queueVars
<1>3. ASSUME NEW c \in Clients, NEW k \in Queues, ClientCall(c, k), k # j \/ ~Release(c, k)
      PROVE  destruct'[j] = destruct[j]
  BY <1>3 DEF ClientCall, Push, BlockUntilDone, Release, queueVars
<1> QED BY <1>1, <1>2, <1>3 DEF Next, SpuriousWake, Enter, ClientCall, queueVars, vars

\* When releaseWaitingThreads returns, nobody works or sleeps in the queue.
THEOREM ReleaseIsSound == Spec => ReleaseSound
<1>1. TypeInv /\ CountersExact /\ [Next]_vars =>
        [\A j \in Queues :
           \/ \E c \in Clients : cpc[c] = "rel" /\ cpc'[c] = "idle" /\ cq[c] = j
           \/ ~destruct[j] /\ destruct'[j] /\ UNCHANGED cpc
           => Running(j)' = {} /\ Asleep(j)' = {}]_vars
  <2> SUFFICES ASSUME TypeInv, CountersExact, [Next]_vars, NEW j \in Queues,
                      \/ \E c \in Clients : cpc[c] = "rel" /\ cpc'[c] = "idle" /\ cq[c] = j
                      \/ ~destruct[j] /\ destruct'[j] /\ UNCHANGED cpc
               PROVE  Running(j)' = {} /\ Asleep(j)' = {}
    OBVIOUS
  <2>1. Deserted(j) => Running(j) = {} /\ Asleep(j) = {}
    BY CountsAreNat DEF Deserted, CountersExact
  <2>2. CASE \E c \in Clients : cpc[c] = "rel" /\ cpc'[c] = "idle" /\ cq[c] = j
    <3>1. Deserted(j) /\ UNCHANGED <<wpc, wq>>
      BY <2>2, OnlyRelReturn DEF RelReturn, workerVars
    <3> QED BY <3>1, <2>1 DEF Running, Asleep, At
  <2>3. CASE ~destruct[j] /\ destruct'[j] /\ UNCHANGED cpc
    <3>1. PICK c \in Clients : Release(c, j)
      BY <2>3, OnlyRelease
    <3>2. Deserted(j)
      BY <2>3, <3>1 DEF Release, TypeInv, Types
    <3>3. Waiting(j) = {}
      BY <2>1, <3>2 DEF Asleep, Waiting, At
    <3>4. UNCHANGED <<wpc, wq>>
      BY <3>1, <3>3 DEF Release, TypeInv, Types
    <3> QED BY <2>1, <3>2, <3>4 DEF Running, Asleep, At
  <2> QED BY <2>2, <2>3
<1> QED BY <1>1, Invariance, PTL DEF ReleaseSound, Spec

-----------------------------------------------------------------------------
(* No packet is stranded. *)

LEMMA WokenStays ==
  ASSUME NEW j, UNCHANGED <<wpc, wq>>
  PROVE  Woken(j)' = Woken(j) /\ Waiting(j)' = Waiting(j)
BY DEF Woken, Waiting, At

\* TakeFront removes one packet of w's queue and nothing else.
LEMMA TakeFrontLength ==
  ASSUME TypeInv, NEW w \in Workers, wq[w] \in Queues, TakeFront(w, wq[w]), NEW j \in Queues
  PROVE  /\ Len(q[j]) \in Nat
         /\ Len(q'[j]) = (IF j = wq[w] THEN Len(q[j]) - 1 ELSE Len(q[j]))
<1>1. \A k \in Queues : q[k] \in Seq(Items)
  BY DEF TypeInv, Types
<1>2. q[wq[w]] # <<>> => Len(Tail(q[wq[w]])) = Len(q[wq[w]]) - 1
  BY <1>1, HeadTailProperties
<1> QED BY <1>1, <1>2, LenProperties DEF TakeFront, TypeInv, Types

LEMMA NoLostPushWorker ==
  ASSUME TypeInv, NoLostPush, NEW w \in Workers, WorkerStep(w), NEW j \in Queues,
         ~destruct'[j], Waiting(j)' # {}
  PROVE  Len(q'[j]) <= Cardinality(Woken(j)')
<1>1. wpc \in [Workers -> WorkerPC] /\ wq \in [Workers -> Queues \cup {NoQueue}]
  BY DEF TypeInv, Types
<1>2. wpc[w] # "out" => wq[w] \in Queues
  BY DEF TypeInv, Types, Shape
<1>3. Cardinality(Woken(j))' =
        Cardinality(Woken(j))
          + (IF wq'[w] = j /\ wpc'[w] = "woken" THEN 1 ELSE 0)
          - (IF wq[w] = j /\ wpc[w] = "woken" THEN 1 ELSE 0)
  BY OthersStay, WorkerMoves
<1>4. Cardinality(Woken(j)) \in Nat /\ Cardinality(Woken(j)') \in Nat
  <2>1. Woken(j) \in SUBSET Workers /\ Woken(j)' \in SUBSET Workers
    BY DEF Woken, At
  <2> QED BY <2>1, WorkersFinite
<1>5. ~destruct[j]
  BY DEF WorkerStep, EnterTake, EnterSleep, WakeTake, WakeSleep, WakeLeave, Finish,
         TakeFront, WaitForPacket
<1>6. (wq'[w] # j \/ wpc'[w] # "waiting") => Waiting(j) # {}
  BY OthersStay DEF Waiting, At
<1>7. Waiting(j) # {} => Len(q[j]) <= Cardinality(Woken(j))
  BY <1>5 DEF NoLostPush
<1>8. Len(q[j]) \in Nat
  BY LenProperties DEF TypeInv, Types
<1>9. CASE EnterTake(w)
  <2>1. wq[w] \in Queues /\ wpc[w] = "entering" /\ TakeFront(w, wq[w])
    BY <1>2, <1>9 DEF EnterTake
  <2>2. wpc'[w] = "running" /\ wq'[w] = wq[w]
    BY <1>1, <2>1 DEF TakeFront
  <2> QED BY <1>3, <1>4, <1>6, <1>7, <2>1, <2>2, TakeFrontLength
<1>10. CASE WakeTake(w)
  <2>1. wq[w] \in Queues /\ wpc[w] = "woken" /\ TakeFront(w, wq[w])
    BY <1>2, <1>10 DEF WakeTake
  <2>2. wpc'[w] = "running" /\ wq'[w] = wq[w]
    BY <1>1, <2>1 DEF TakeFront
  <2> QED BY <1>3, <1>4, <1>6, <1>7, <2>1, <2>2, TakeFrontLength
<1>11. CASE EnterSleep(w) \/ WakeSleep(w)
  <2>1. q' = q /\ q[wq[w]] = <<>> /\ wq' = wq /\ wpc'[w] = "waiting"
    BY <1>1, <1>11 DEF EnterSleep, WakeSleep, WaitForPacket
  <2>2. CASE wq[w] = j
    <3>1. Len(q'[j]) = 0
      BY <2>1, <2>2
    <3> QED BY <1>4, <3>1
  <2>3. CASE wq[w] # j
    BY <1>3, <1>4, <1>6, <1>7, <2>1, <2>3
  <2> QED BY <2>2, <2>3
<1>12. CASE WakeLeave(w)
  <2>1. q' = q /\ wpc'[w] = "out" /\ wq[w] # j
    BY <1>1, <1>5, <1>12 DEF WakeLeave
  <2> QED BY <1>3, <1>4, <1>6, <1>7, <1>8, <2>1
<1>13. CASE Finish(w)
  <2>1. q' = q /\ wpc[w] = "running" /\ wpc'[w] = "out"
    BY <1>1, <1>13 DEF Finish
  <2> QED BY <1>3, <1>4, <1>6, <1>7, <1>8, <2>1
<1> QED BY <1>9, <1>10, <1>11, <1>12, <1>13 DEF WorkerStep

LEMMA NoLostPushPush ==
  ASSUME TypeInv, NoLostPush, NEW c \in Clients, NEW k \in Queues, NEW i \in Items,
         Push(c, k, i), NEW j \in Queues, ~destruct'[j], Waiting(j)' # {}
  PROVE  Len(q'[j]) <= Cardinality(Woken(j)')
<1>1. wpc \in [Workers -> WorkerPC] /\ \A l \in Queues : q[l] \in Seq(Items)
  BY DEF TypeInv, Types
<1>2. Len(q[j]) \in Nat /\ Len(q'[j]) = (IF j = k THEN Len(q[j]) + 1 ELSE Len(q[j]))
  <2>1. q[k] \in Seq(Items) /\ q[j] \in Seq(Items) /\ q' = [q EXCEPT ![k] = Append(@, i)]
    BY <1>1 DEF Push
  <2>2. Len(Append(q[k], i)) = Len(q[k]) + 1
    BY <2>1, AppendProperties
  <2> QED BY <2>1, <2>2, LenProperties DEF TypeInv, Types
<1>3. Cardinality(Woken(j)) \in Nat
  BY CountsAreNat
<1>4. Waiting(j) # {}
  BY <1>1 DEF Push, NotifyOne, Waiting, At
<1>5. Len(q[j]) <= Cardinality(Woken(j))
  BY <1>4 DEF NoLostPush, Push
<1>6. CASE Waiting(k) = {}
  <2>1. j # k /\ Woken(j)' = Woken(j)
    BY <1>4, <1>6, WokenStays DEF Push, NotifyOne
  <2> QED BY <1>2, <1>5, <2>1
<1>7. CASE Waiting(k) # {}
  <2>1. PICK w \in Waiting(k) : wpc' = [wpc EXCEPT ![w] = "woken"]
    BY <1>7 DEF Push, NotifyOne
  <2>2. w \in Workers /\ wq[w] = k /\ wpc[w] = "waiting" /\ wq' = wq
    BY <2>1 DEF Waiting, At, Push
  <2>3. wpc'[w] = "woken" /\ \A v \in Workers \ {w} : wpc'[v] = wpc[v] /\ wq'[v] = wq[v]
    BY <1>1, <2>1, <2>2
  <2>4. Cardinality(Woken(j))' =
          Cardinality(Woken(j))
            + (IF wq'[w] = j /\ wpc'[w] = "woken" THEN 1 ELSE 0)
            - (IF wq[w] = j /\ wpc[w] = "woken" THEN 1 ELSE 0)
    BY <2>2, <2>3, WorkerMoves
  <2> QED BY <1>2, <1>3, <1>5, <2>2, <2>3, <2>4
<1> QED BY <1>6, <1>7

LEMMA NoLostPushInit == Init => NoLostPush
BY DEF Init, NoLostPush, Waiting, At

LEMMA NoLostPushStep == TypeInv /\ NoLostPush /\ [Next]_vars => NoLostPush'
<1> SUFFICES ASSUME TypeInv, NoLostPush, [Next]_vars, NEW j \in Queues,
                    ~destruct'[j], Waiting(j)' # {}
             PROVE  Len(q'[j]) <= Cardinality(Woken(j)')
  BY DEF NoLostPush
<1> DEFINE Goal == Len(q'[j]) <= Cardinality(Woken(j)')
<1>1. wpc \in [Workers -> WorkerPC]
  BY DEF TypeInv, Types
\* Nothing this invariant is about changes.
<1>2. ASSUME UNCHANGED <<q, destruct>>, Woken(j)' = Woken(j), Waiting(j)' = Waiting(j)
      PROVE  Goal
  BY <1>2 DEF NoLostPush
<1>3. ASSUME NEW w \in Workers, WorkerStep(w) PROVE Goal
  BY <1>3, NoLostPushWorker
<1>4. ASSUME NEW w \in Workers, SpuriousWake(w) PROVE Goal
  <2>1. wpc[w] = "waiting" /\ wpc'[w] = "woken" /\ wq' = wq /\ q' = q /\ destruct' = destruct
    BY <1>1, <1>4 DEF SpuriousWake, queueVars
  <2>2. Cardinality(Woken(j))' =
          Cardinality(Woken(j))
            + (IF wq'[w] = j /\ wpc'[w] = "woken" THEN 1 ELSE 0)
            - (IF wq[w] = j /\ wpc[w] = "woken" THEN 1 ELSE 0)
    BY <1>4, OthersStay, WorkerMoves
  <2>3. Waiting(j) # {}
    BY <1>1, <1>4 DEF SpuriousWake, Waiting, At
  <2>4. Len(q[j]) <= Cardinality(Woken(j)) /\ Len(q[j]) \in Nat
    BY <2>1, <2>3, LenProperties DEF NoLostPush, TypeInv, Types
  <2> QED BY <2>1, <2>2, <2>4, CountsAreNat
<1>5. ASSUME NEW w \in Workers, NEW k \in Queues, Enter(w, k) PROVE Goal
  <2>1. Woken(j)' = Woken(j) /\ Waiting(j)' = Waiting(j)
    BY <1>1, <1>5 DEF Enter, Woken, Waiting, At, TypeInv, Types
  <2> QED BY <1>2, <1>5, <2>1 DEF Enter, queueVars
<1>6. ASSUME NEW c \in Clients, ClientStep(c) \/ SpuriousExternal(c) PROVE Goal
  <2>1. UNCHANGED <<q, destruct, wpc, wq>>
    BY <1>6 DEF ClientStep, BudReturn, BudWait, RelReturn, RelWait, SpuriousExternal,
                queueVars, workerVars
  <2> QED BY <1>2, <2>1, WokenStays
<1>7. ASSUME NEW c \in Clients, NEW k \in Queues, NEW i \in Items, Push(c, k, i) PROVE Goal
  BY <1>7, NoLostPushPush
<1>8. ASSUME NEW c \in Clients, NEW k \in Queues, BlockUntilDone(c, k) PROVE Goal
  <2>1. UNCHANGED <<q, destruct, wpc, wq>>
    BY <1>8 DEF BlockUntilDone, queueVars, workerVars
  <2> QED BY <1>2, <2>1, WokenStays
<1>9. ASSUME NEW c \in Clients, NEW k \in Queues, Release(c, k) PROVE Goal
  <2>1. j # k
    BY <1>9 DEF Release, TypeInv, Types
  <2>2. Woken(j)' = Woken(j) /\ Waiting(j)' = Waiting(j)
    BY <1>1, <1>9, <2>1 DEF Release, Woken, Waiting, At
  <2>3. q' = q /\ destruct'[j] = destruct[j]
    BY <1>9, <2>1 DEF Release, TypeInv, Types
  <2> QED BY <2>2, <2>3 DEF NoLostPush
<1>10. CASE UNCHANGED vars
  <2>1. UNCHANGED <<q, destruct, wpc, wq>>
    BY <1>10 DEF vars
  <2> QED BY <1>2, <2>1, WokenStays
<1> QED BY <1>3, <1>4, <1>5, <1>6, <1>7, <1>8, <1>9, <1>10 DEF Next, ClientCall

\* One notify_one per push is enough: whatever the interleaving, a packet in a
\* queue in service either has a notified worker coming for it or finds no
\* worker asleep.
THEOREM NoPacketStranded == Spec => []NoLostPush
<1>1. Spec => []TypeInv
  BY Invariance, PTL
<1> QED BY <1>1, NoLostPushInit, NoLostPushStep, PTL DEF Spec

-----------------------------------------------------------------------------
(* The notifications of a release. *)

\* A client that waits in releaseWaitingThreads has somebody to wait for: whoever
\* leaves the queue empty of threads tells it.
NoLostRelease ==
  \A c \in Clients :
    cpc[c] = "relwait" => destruct[cq[c]] /\ Running(cq[c]) \cup Asleep(cq[c]) # {}

\* The same in terms of the counters the code decides by.
Releasing(c) ==
  /\ cpc[c] \in {"rel", "relwait"} => destruct[cq[c]]
  /\ cpc[c] = "relwait" => ~Deserted(cq[c])

\* A step of a worker leaves the clients of its queue alone, or sends them to their
\* tests; and it leaves them alone if it leaves the queue deserted.
LEMMA ReleasingWorker ==
  ASSUME TypeInv, CountersExact, NEW w \in Workers, WorkerStep(w), NEW c \in Clients, Releasing(c)
  PROVE  Releasing(c)'
<1> DEFINE j == wq[w]
<1>1. /\ cpc \in [Clients -> ClientPC] /\ active \in [Queues -> Int] /\ sleeping \in [Queues -> Int]
      /\ wpc \in [Workers -> WorkerPC]
  BY DEF TypeInv, Types
<1>2. j \in Queues /\ active[j] \in Nat /\ sleeping[j] \in Nat
  <2>1. wpc[w] # "out"
    BY DEF WorkerStep, EnterTake, EnterSleep, WakeTake, WakeSleep, WakeLeave, Finish
  <2>2. j \in Queues
    BY <2>1 DEF TypeInv, Types, Shape
  <2> QED BY <2>2, CountsAreNat DEF CountersExact
<1>3. destruct' = destruct /\ cq' = cq
  BY DEF WorkerStep, EnterTake, EnterSleep, WakeTake, WakeSleep, WakeLeave, Finish, TakeFront,
         WaitForPacket, clientVars
<1>4. cpc'[c] = cpc[c] \/ NotifyExternal(j)
  BY DEF WorkerStep, EnterTake, EnterSleep, WakeTake, WakeSleep, WakeLeave, Finish, TakeFront,
         WaitForPacket, NotifyExternalIf, clientVars
<1>5. \A k \in Queues : k # j => active'[k] = active[k] /\ sleeping'[k] = sleeping[k]
  BY <1>1 DEF WorkerStep, EnterTake, EnterSleep, WakeTake, WakeSleep, WakeLeave, Finish, TakeFront,
              WaitForPacket
<1>6. destruct[j] /\ ~Deserted(j) /\ active'[j] = 0 /\ sleeping'[j] = 0 => NotifyExternal(j)
  <2>1. CASE EnterTake(w)
    <3>1. active'[j] = active[j] + 1
      BY <1>1, <1>2, <2>1 DEF EnterTake, TakeFront
    <3> QED BY <3>1, <1>2
  <2>2. CASE WakeTake(w)
    <3>1. active'[j] = active[j] + 1
      BY <1>1, <1>2, <2>2 DEF WakeTake, TakeFront
    <3> QED BY <3>1, <1>2
  <2>3. CASE EnterSleep(w)
    <3>1. sleeping'[j] = sleeping[j] + 1
      BY <1>1, <1>2, <2>3 DEF EnterSleep
    <3> QED BY <3>1, <1>2
  <2>4. CASE WakeSleep(w)
    BY <2>4 DEF WakeSleep, WaitForPacket, Deserted
  <2>5. CASE WakeLeave(w)
    BY <2>5 DEF WakeLeave, NotifyExternalIf, Deserted
  <2>6. CASE Finish(w)
    BY <2>6 DEF Finish, NotifyExternalIf, Deserted
  <2> QED BY <2>1, <2>2, <2>3, <2>4, <2>5, <2>6 DEF WorkerStep
<1> HIDE DEF j
<1>7. ASSUME NotifyExternal(j), cq[c] = j PROVE cpc'[c] # "relwait" /\ (cpc'[c] = "rel" => cpc[c] \in {"rel", "relwait"})
  BY <1>1, <1>7, RetestValues DEF NotifyExternal
<1>8. ASSUME NotifyExternal(j), cq[c] # j PROVE cpc'[c] = cpc[c]
  BY <1>8 DEF NotifyExternal
<1>9. cpc'[c] = "relwait" => cpc[c] = "relwait"
  BY <1>4, <1>7, <1>8
<1>10. cpc'[c] \in {"rel", "relwait"} => cpc[c] \in {"rel", "relwait"}
  BY <1>4, <1>7, <1>8
<1>11. ASSUME cpc'[c] = "relwait" PROVE ~Deserted(cq[c])'
  <2>1. cpc[c] = "relwait" /\ destruct[cq[c]] /\ ~Deserted(cq[c])
    BY <1>9, <1>11 DEF Releasing
  <2>2. cq[c] \in Queues
    BY <2>1 DEF TypeInv, Types, Shape
  <2>3. CASE cq[c] = j
    <3>1. ~(active'[j] = 0 /\ sleeping'[j] = 0)
      BY <2>1, <2>3, <1>6, <1>7, <1>11
    <3> QED BY <3>1, <2>3, <1>3 DEF Deserted
  <2>4. CASE cq[c] # j
    BY <2>1, <2>2, <2>4, <1>3, <1>5 DEF Deserted
  <2> QED BY <2>3, <2>4
<1> QED BY <1>3, <1>10, <1>11 DEF Releasing

\* Clients, too, keep each other's waits justified.
LEMMA ReleasingStep ==
  ASSUME TypeInv, CountersExact, [Next]_vars, \A c \in Clients : Releasing(c)
  PROVE  \A c \in Clients : Releasing(c)'
<1> SUFFICES ASSUME NEW c \in Clients PROVE Releasing(c)'
  OBVIOUS
<1>1. /\ cpc \in [Clients -> ClientPC] /\ cq \in [Clients -> Queues \cup {NoQueue}]
      /\ destruct \in [Queues -> BOOLEAN] /\ (cpc[c] # "idle" => cq[c] \in Queues)
  BY DEF TypeInv, Types, Shape
<1>2. Releasing(c)
  OBVIOUS
\* Nothing changes but the position of c, or nothing that c depends on.
<1>3. ASSUME UNCHANGED <<active, sleeping, destruct>>, cpc'[c] = cpc[c], cq'[c] = cq[c]
      PROVE  Releasing(c)'
  BY <1>2, <1>3 DEF Releasing, Deserted
<1>4. ASSUME NEW w \in Workers, WorkerStep(w) PROVE Releasing(c)'
  BY <1>2, <1>4, ReleasingWorker
<1>5. ASSUME NEW w \in Workers, SpuriousWake(w) \/ \E j \in Queues : Enter(w, j) PROVE Releasing(c)'
  BY <1>3, <1>5 DEF SpuriousWake, Enter, queueVars, clientVars
<1>6. ASSUME NEW d \in Clients, ClientStep(d) \/ SpuriousExternal(d) PROVE Releasing(c)'
  <2>1. UNCHANGED <<active, sleeping, destruct>>
    BY <1>6 DEF ClientStep, BudReturn, BudWait, RelReturn, RelWait, SpuriousExternal, queueVars
  <2>2. CASE d # c
    <3>1. cpc'[c] = cpc[c] /\ cq'[c] = cq[c]
      BY <1>1, <1>6, <2>2
         DEF ClientStep, BudReturn, BudWait, RelReturn, RelWait, SpuriousExternal
    <3> QED BY <2>1, <3>1, <1>3
  <2>3. CASE d = c
    <3>1. CASE BudReturn(c) \/ BudWait(c)
      <4>1. cpc'[c] \notin {"rel", "relwait"}
        BY <1>1, <3>1 DEF BudReturn, BudWait
      <4> QED BY <4>1 DEF Releasing
    <3>2. CASE RelReturn(c)
      <4>1. cpc'[c] \notin {"rel", "relwait"}
        BY <1>1, <3>2 DEF RelReturn
      <4> QED BY <4>1 DEF Releasing
    <3>3. CASE RelWait(c)
      <4>1. cpc[c] = "rel" /\ ~Deserted(cq[c]) /\ cq' = cq
        BY <3>3 DEF RelWait
      <4> QED BY <4>1, <1>2, <2>1 DEF Releasing, Deserted
    <3>4. CASE SpuriousExternal(c)
      <4>1. cq' = cq /\ cpc'[c] # "relwait" /\ (cpc'[c] = "rel" => cpc[c] = "relwait")
        BY <1>1, <3>4, RetestValues DEF SpuriousExternal
      <4> QED BY <4>1, <1>2, <2>1 DEF Releasing
    <3> QED BY <2>3, <1>6, <3>1, <3>2, <3>3, <3>4 DEF ClientStep
  <2> QED BY <2>2, <2>3
<1>7. ASSUME NEW d \in Clients, NEW k \in Queues, NEW i \in Items, Push(d, k, i) PROVE Releasing(c)'
  BY <1>3, <1>7 DEF Push, clientVars
<1>8. ASSUME NEW d \in Clients, NEW k \in Queues, BlockUntilDone(d, k) PROVE Releasing(c)'
  <2>1. UNCHANGED <<active, sleeping, destruct>>
    BY <1>8 DEF BlockUntilDone, queueVars
  <2>2. CASE d # c
    BY <1>1, <1>3, <1>8, <2>1, <2>2 DEF BlockUntilDone
  <2>3. CASE d = c
    <3>1. cpc'[c] = "bud"
      BY <1>1, <1>8, <2>3 DEF BlockUntilDone
    <3> QED BY <3>1 DEF Releasing
  <2> QED BY <2>2, <2>3
<1>9. ASSUME NEW d \in Clients, NEW k \in Queues, Release(d, k) PROVE Releasing(c)'
  <2>1. /\ UNCHANGED <<active, sleeping>> /\ cpc[d] = "idle" /\ destruct' = [destruct EXCEPT ![k] = TRUE]
        /\ \/ Deserted(k) /\ UNCHANGED <<cpc, cq>>
           \/ ~Deserted(k) /\ cpc' = [cpc EXCEPT ![d] = "relwait"] /\ cq' = [cq EXCEPT ![d] = k]
    BY <1>9 DEF Release, clientVars
  <2>2. \A j \in Queues : destruct[j] => destruct'[j]
    BY <1>1, <2>1
  <2>3. CASE cpc'[c] = cpc[c] /\ cq'[c] = cq[c]
    BY <1>1, <1>2, <2>1, <2>2, <2>3 DEF Releasing, Deserted
  <2>4. CASE ~(cpc'[c] = cpc[c] /\ cq'[c] = cq[c])
    <3>1. c = d /\ ~Deserted(k) /\ cq'[c] = k
      BY <1>1, <2>1, <2>4
    <3>2. destruct'[k]
      BY <1>1, <2>1
    <3> QED BY <2>1, <3>1, <3>2 DEF Releasing, Deserted
  <2> QED BY <2>3, <2>4
<1>10. CASE UNCHANGED vars
  BY <1>3, <1>10 DEF vars
<1> QED BY <1>4, <1>5, <1>6, <1>7, <1>8, <1>9, <1>10 DEF Next, ClientCall

\* releaseWaitingThreads never sleeps over a deserted queue: what a fair scheduler
\* has to give it is that the threads it waits for leave.
THEOREM ReleaseIsNotified == Spec => []NoLostRelease
<1> DEFINE I == \A c \in Clients : Releasing(c)
<1>1. Init => I
  BY DEF Init, Releasing
<1>2. TypeInv /\ CountersExact /\ I /\ [Next]_vars => I'
  BY ReleasingStep
<1>3. TypeInv /\ CountersExact /\ I => NoLostRelease
  <2> SUFFICES ASSUME TypeInv, CountersExact, NEW c \in Clients, Releasing(c), cpc[c] = "relwait"
               PROVE  destruct[cq[c]] /\ Running(cq[c]) \cup Asleep(cq[c]) # {}
    BY DEF NoLostRelease
  <2>1. cq[c] \in Queues
    BY DEF TypeInv, Types, Shape
  <2>2. destruct[cq[c]] /\ ~(active[cq[c]] = 0 /\ sleeping[cq[c]] = 0)
    BY DEF Releasing, Deserted
  <2> QED BY <2>1, <2>2, CountsAreNat DEF CountersExact
<1> HIDE DEF I
<1> QED BY <1>1, <1>2, <1>3, Invariance, PTL DEF Spec

-----------------------------------------------------------------------------
(* A packet is in one place. *)

Elements(s) == {s[n] : n \in DOMAIN s}
Distinct(s) == \A m, n \in DOMAIN s : s[m] = s[n] => m = n

ItemsOnce ==
  /\ \A j \in Queues : Distinct(q[j])
  /\ \A j, k \in Queues : j # k => Queued(j) \cap Queued(k) = {}
  /\ \A j \in Queues : Queued(j) \cap done = {}
  /\ \A w \in Workers : wpc[w] = "running" =>
       /\ item[w] \notin done
       /\ \A j \in Queues : item[w] \notin Queued(j)
       /\ \A v \in Workers \ {w} : wpc[v] = "running" => item[v] # item[w]

-----------------------------------------------------------------------------
(* Sequences without repetition as sets.                                    *)

LEMMA TailElements ==
  ASSUME NEW s \in Seq(Items), s # <<>>, Distinct(s)
  PROVE  /\ Head(s) \in Elements(s)
         /\ Head(s) \in Items
         /\ Elements(Tail(s)) = Elements(s) \ {Head(s)}
         /\ Distinct(Tail(s))
<1>1. /\ Len(s) \in Nat \ {0}
      /\ DOMAIN s = 1 .. Len(s)
      /\ Head(s) = s[1]
      /\ Head(s) \in Items
  BY EmptySeq, LenProperties, HeadTailProperties
<1>2. /\ DOMAIN Tail(s) = 1 .. Len(s) - 1
      /\ \A n \in 1 .. Len(s) - 1 : Tail(s)[n] = s[n + 1]
  BY HeadTailProperties, LenProperties
<1>3. \A n \in 1 .. Len(s) : n = 1 \/ (n - 1 \in 1 .. Len(s) - 1 /\ n = (n - 1) + 1)
  BY <1>1
<1>4. \A n \in 1 .. Len(s) - 1 : n + 1 \in 1 .. Len(s) /\ n + 1 # 1
  BY <1>1
<1>5. Elements(Tail(s)) \subseteq Elements(s) \ {Head(s)}
  BY <1>1, <1>2, <1>4 DEF Elements, Distinct
<1>6. Elements(s) \ {Head(s)} \subseteq Elements(Tail(s))
  <2> SUFFICES ASSUME NEW n \in 1 .. Len(s), s[n] # Head(s)
               PROVE  s[n] \in Elements(Tail(s))
    BY <1>1 DEF Elements
  <2>1. n - 1 \in 1 .. Len(s) - 1 /\ Tail(s)[n - 1] = s[n]
    BY <1>1, <1>2, <1>3
  <2> QED BY <1>2, <2>1 DEF Elements
<1>7. Distinct(Tail(s))
  <2> SUFFICES ASSUME NEW m \in 1 .. Len(s) - 1, NEW n \in 1 .. Len(s) - 1,
                      s[m + 1] = s[n + 1]
               PROVE  m = n
    BY <1>2 DEF Distinct
  <2>1. m + 1 = n + 1
    BY <1>1, <1>4 DEF Distinct
  <2> QED BY <2>1
<1>8. Head(s) \in Elements(s)
  BY <1>1 DEF Elements
<1> QED BY <1>1, <1>5, <1>6, <1>7, <1>8

LEMMA AppendElements ==
  ASSUME NEW s \in Seq(Items), NEW i \in Items, Distinct(s), i \notin Elements(s)
  PROVE  /\ Elements(Append(s, i)) = Elements(s) \cup {i}
         /\ Distinct(Append(s, i))
<1>1. Len(s) \in Nat /\ DOMAIN s = 1 .. Len(s)
  BY LenProperties
<1>2. /\ DOMAIN Append(s, i) = 1 .. Len(s) + 1
      /\ \A n \in 1 .. Len(s) : Append(s, i)[n] = s[n]
      /\ Append(s, i)[Len(s) + 1] = i
  BY AppendProperties, LenProperties
<1>3. \A n : n \in 1 .. Len(s) + 1 <=> n \in 1 .. Len(s) \/ n = Len(s) + 1
  BY <1>1
<1>4. Elements(Append(s, i)) = Elements(s) \cup {i}
  BY <1>1, <1>2, <1>3 DEF Elements
<1>5. Distinct(Append(s, i))
  BY <1>1, <1>2, <1>3 DEF Distinct, Elements
<1> QED BY <1>4, <1>5

LEMMA QueuedElements ==
  ASSUME NEW j PROVE Queued(j) = Elements(q[j]) /\ Queued(j)' = Elements(q'[j])
BY DEF Queued, Elements

-----------------------------------------------------------------------------
(* The three steps that move a packet.                                      *)

\* A worker takes the front packet: out of the deque into its hands.
LEMMA Taken ==
  ASSUME TypeInv, ItemsOnce, NEW w \in Workers, EnterTake(w) \/ WakeTake(w)
  PROVE  \E j \in Queues, i \in Items :
           /\ wq[w] = j
           /\ wpc[w] # "running"
           /\ i \in Queued(j)
           /\ Queued(j)' = Queued(j) \ {i}
           /\ \A k \in Queues \ {j} : Queued(k)' = Queued(k)
           /\ \A k \in Queues : Distinct(q'[k])
           /\ item' = [item EXCEPT ![w] = i]
           /\ wpc' = [wpc EXCEPT ![w] = "running"]
           /\ UNCHANGED <<wq, cpc, cq, done>>
<1>1. PICK j \in Queues : wq[w] = j
  BY DEF EnterTake, WakeTake, TypeInv, Types, Shape
<1>2. TakeFront(w, j) /\ wpc[w] # "running"
  BY <1>1 DEF EnterTake, WakeTake
<1>3. q \in [Queues -> Seq(Items)] /\ q[j] \in Seq(Items) /\ q[j] # <<>> /\ Distinct(q[j])
  BY <1>2 DEF TypeInv, Types, ItemsOnce, TakeFront
<1>4. PICK i \in Items : i = Head(q[j])
  BY <1>3, TailElements
<1>5. q'[j] = Tail(q[j]) /\ \A k \in Queues \ {j} : q'[k] = q[k]
  BY <1>2, <1>3 DEF TakeFront
<1>6. Queued(j)' = Queued(j) \ {i} /\ i \in Queued(j)
  BY <1>3, <1>4, <1>5, TailElements, QueuedElements
<1>7. \A k \in Queues \ {j} : Queued(k)' = Queued(k)
  BY <1>5 DEF Queued
<1>8. \A k \in Queues : Distinct(q'[k])
  BY <1>3, <1>5, TailElements DEF ItemsOnce
<1> QED BY <1>1, <1>2, <1>4, <1>6, <1>7, <1>8 DEF TakeFront, clientVars

\* A packet is done: out of the worker's hands.
LEMMA Finished ==
  ASSUME TypeInv, NEW w \in Workers, Finish(w)
  PROVE  /\ wq[w] \in Queues
         /\ wpc[w] = "running"
         /\ item[w] \in Items
         /\ done' = done \cup {item[w]}
         /\ wpc' = [wpc EXCEPT ![w] = "out"]
         /\ wq' = [wq EXCEPT ![w] = NoQueue]
         /\ item' = [item EXCEPT ![w] = NoItem]
         /\ UNCHANGED <<q, cq>>
BY DEF Finish, TypeInv, Types, Shape

\* A packet comes into a deque.
LEMMA Pushed ==
  ASSUME TypeInv, ItemsOnce, NEW c \in Clients, NEW j \in Queues, NEW i \in Items, Push(c, j, i)
  PROVE  /\ Fresh(i)
         /\ Queued(j)' = Queued(j) \cup {i}
         /\ \A k \in Queues \ {j} : Queued(k)' = Queued(k)
         /\ \A k \in Queues : Distinct(q'[k])
         /\ \A w \in Workers : wpc'[w] = "running" <=> wpc[w] = "running"
         /\ UNCHANGED <<wq, item, cpc, cq, done>>
<1>1. q \in [Queues -> Seq(Items)] /\ q[j] \in Seq(Items) /\ Distinct(q[j])
  BY DEF TypeInv, Types, ItemsOnce
<1>2. Fresh(i) /\ i \notin Queued(j) /\ q' = [q EXCEPT ![j] = Append(q[j], i)]
  BY DEF Push, Fresh
<1>3. q'[j] = Append(q[j], i) /\ \A k \in Queues \ {j} : q'[k] = q[k]
  BY <1>1, <1>2
<1>4. Queued(j)' = Queued(j) \cup {i} /\ \A k \in Queues \ {j} : Queued(k)' = Queued(k)
  BY <1>1, <1>2, <1>3, AppendElements, QueuedElements
<1>5. \A k \in Queues : Distinct(q'[k])
  BY <1>1, <1>2, <1>3, AppendElements, QueuedElements DEF ItemsOnce
<1>6. \A w \in Workers : wpc'[w] = "running" <=> wpc[w] = "running"
  BY DEF Push, NotifyOne, Waiting, At, TypeInv, Types
<1> QED BY <1>2, <1>4, <1>5, <1>6 DEF Push, clientVars

\* Every other step leaves packets where they are.
Still ==
  /\ UNCHANGED <<q, item, done>>
  /\ \A w \in Workers : wpc'[w] = "running" <=> wpc[w] = "running"
  /\ \A w \in Workers : wpc[w] = "running" => wq'[w] = wq[w]

LEMMA OtherSteps ==
  ASSUME TypeInv, [Next]_vars,
         \A w \in Workers : ~EnterTake(w) /\ ~WakeTake(w) /\ ~Finish(w),
         \A c \in Clients, j \in Queues, i \in Items : ~Push(c, j, i)
  PROVE  Still
<1> USE DEF TypeInv, Types, Shape, Still
<1>1. ASSUME NEW w \in Workers, WorkerStep(w) PROVE Still
  BY <1>1 DEF WorkerStep, EnterSleep, WakeSleep, WakeLeave, WaitForPacket
<1>2. ASSUME NEW w \in Workers, SpuriousWake(w) PROVE Still
  BY <1>2 DEF SpuriousWake, queueVars
<1>3. ASSUME NEW w \in Workers, NEW j \in Queues, Enter(w, j) PROVE Still
  BY <1>3 DEF Enter, queueVars
<1>4. ASSUME NEW c \in Clients, ClientStep(c) \/ SpuriousExternal(c) PROVE Still
  BY <1>4 DEF ClientStep, BudReturn, BudWait, RelReturn, RelWait, SpuriousExternal,
              queueVars, workerVars
<1>5. ASSUME NEW c \in Clients, NEW j \in Queues, ClientCall(c, j) PROVE Still
  BY <1>5 DEF ClientCall, BlockUntilDone, Release, Waiting, At, queueVars, workerVars
<1>6. CASE UNCHANGED vars
  BY <1>6 DEF vars
<1> QED BY <1>1, <1>2, <1>3, <1>4, <1>5, <1>6 DEF Next

-----------------------------------------------------------------------------
(* A packet is in one place at most.                                        *)

LEMMA ItemsOnceInit == Init => ItemsOnce
BY DEF Init, ItemsOnce, Queued, Distinct

LEMMA ItemsOnceStep == TypeInv /\ ItemsOnce /\ [Next]_vars => ItemsOnce'
<1> SUFFICES ASSUME TypeInv, ItemsOnce, [Next]_vars PROVE ItemsOnce'
  OBVIOUS
<1> USE DEF TypeInv, Types
<1>1. ASSUME NEW w \in Workers, EnterTake(w) \/ WakeTake(w) PROVE ItemsOnce'
  <2>1. PICK j \in Queues, i \in Items :
          /\ i \in Queued(j)
          /\ Queued(j)' = Queued(j) \ {i}
          /\ \A k \in Queues \ {j} : Queued(k)' = Queued(k)
          /\ \A k \in Queues : Distinct(q'[k])
          /\ item' = [item EXCEPT ![w] = i]
          /\ wpc' = [wpc EXCEPT ![w] = "running"]
          /\ done' = done
    BY <1>1, Taken
  <2>2. \A k \in Queues : i \notin Queued(k)' /\ Queued(k)' \subseteq Queued(k)
    <3>1. \A k \in Queues \ {j} : i \notin Queued(k)
      BY <2>1 DEF ItemsOnce
    <3> QED BY <2>1, <3>1
  <2>3. i \notin done /\ \A v \in Workers : wpc[v] = "running" => item[v] # i
    BY <2>1 DEF ItemsOnce
  <2>4. \A v \in Workers \ {w} : item'[v] = item[v] /\ wpc'[v] = wpc[v]
    BY <2>1
  <2>5. item'[w] = i
    BY <2>1
  <2>6. \A k \in Queues : Queued(k)' \cap done' = {}
    BY <2>1, <2>2 DEF ItemsOnce
  <2>7. \A k, l \in Queues : k # l => Queued(k)' \cap Queued(l)' = {}
    BY <2>2 DEF ItemsOnce
  <2>8. ASSUME NEW v \in Workers, wpc'[v] = "running"
        PROVE  /\ item'[v] \notin done'
               /\ \A k \in Queues : item'[v] \notin Queued(k)'
               /\ \A u \in Workers \ {v} : wpc'[u] = "running" => item'[u] # item'[v]
    <3>1. CASE v = w
      <4>1. \A u \in Workers \ {w} : wpc'[u] = "running" => item'[u] # i
        BY <2>3, <2>4
      <4> QED BY <3>1, <4>1, <2>1, <2>2, <2>3, <2>5
    <3>2. CASE v # w
      BY <3>2, <2>1, <2>2, <2>3, <2>4, <2>5, <2>8 DEF ItemsOnce
    <3> QED BY <3>1, <3>2
  <2> QED BY <2>1, <2>6, <2>7, <2>8 DEF ItemsOnce
<1>2. ASSUME NEW w \in Workers, Finish(w) PROVE ItemsOnce'
  <2>1. /\ wpc[w] = "running"
        /\ done' = done \cup {item[w]}
        /\ wpc'[w] = "out"
        /\ \A v \in Workers \ {w} : item'[v] = item[v] /\ wpc'[v] = wpc[v]
        /\ q' = q
    BY <1>2, Finished
  <2>2. \A k \in Queues : Queued(k)' = Queued(k)
    BY <2>1 DEF Queued
  <2>3. \A k \in Queues : Distinct(q'[k])
    BY <2>1 DEF ItemsOnce
  <2>4. \A k \in Queues : Queued(k)' \cap done' = {}
    BY <2>1, <2>2 DEF ItemsOnce
  <2>5. \A k, l \in Queues : k # l => Queued(k)' \cap Queued(l)' = {}
    BY <2>2 DEF ItemsOnce
  <2>6. ASSUME NEW v \in Workers, wpc'[v] = "running"
        PROVE  /\ item'[v] \notin done'
               /\ \A k \in Queues : item'[v] \notin Queued(k)'
               /\ \A u \in Workers \ {v} : wpc'[u] = "running" => item'[u] # item'[v]
    <3>1. v # w /\ item'[v] = item[v] /\ wpc[v] = "running"
      BY <2>1, <2>6
    <3>2. /\ item[v] \notin done
          /\ \A k \in Queues : item[v] \notin Queued(k)
          /\ \A u \in Workers \ {v} : wpc[u] = "running" => item[u] # item[v]
      BY <3>1 DEF ItemsOnce
    <3>3. item'[v] \notin done'
      BY <2>1, <3>1, <3>2
    <3>4. \A k \in Queues : item'[v] \notin Queued(k)'
      BY <2>2, <3>1, <3>2
    <3>5. ASSUME NEW u \in Workers \ {v}, wpc'[u] = "running" PROVE item'[u] # item'[v]
      <4>1. u # w /\ item'[u] = item[u] /\ wpc[u] = "running"
        BY <2>1, <3>5
      <4> QED BY <3>1, <3>2, <4>1
    <3> QED BY <3>3, <3>4, <3>5
  <2> QED BY <2>3, <2>4, <2>5, <2>6 DEF ItemsOnce
<1>3. ASSUME NEW c \in Clients, NEW j \in Queues, NEW i \in Items, Push(c, j, i)
      PROVE  ItemsOnce'
  <2>1. /\ Queued(j)' = Queued(j) \cup {i}
        /\ \A k \in Queues \ {j} : Queued(k)' = Queued(k)
        /\ \A k \in Queues : Distinct(q'[k])
        /\ \A w \in Workers : wpc'[w] = "running" <=> wpc[w] = "running"
        /\ item' = item /\ done' = done
    BY <1>3, Pushed
  <2>2. i \notin done /\ \A k \in Queues : i \notin Queued(k)
    BY <1>3, Pushed DEF Fresh
  <2>3. \A w \in Workers : wpc[w] = "running" => item[w] # i
    <3>1. \A k \in Queues : i \notin Executing(k)
      BY <1>3, Pushed DEF Fresh
    <3>2. ASSUME NEW w \in Workers, wpc[w] = "running" PROVE item[w] # i
      <4>1. wq[w] \in Queues
        BY <3>2 DEF TypeInv, Types, Shape
      <4>2. item[w] \in Executing(wq[w])
        BY <3>2 DEF Executing, Running, At
      <4> QED BY <3>1, <4>1, <4>2
    <3> QED BY <3>2
  <2>4. \A k \in Queues : Queued(k)' \cap done' = {}
    <3>1. \A k \in Queues : Queued(k) \cap done = {}
      BY DEF ItemsOnce
    <3> SUFFICES ASSUME NEW k \in Queues PROVE Queued(k)' \cap done = {}
      BY <2>1
    <3>2. CASE k = j
      <4>1. Queued(k)' = Queued(k) \cup {i}
        BY <2>1, <3>2
      <4> QED BY <2>2, <3>1, <4>1
    <3>3. CASE k # j
      <4>1. Queued(k)' = Queued(k)
        BY <2>1, <3>3
      <4> QED BY <3>1, <4>1
    <3> QED BY <3>2, <3>3
  <2>5. \A k, l \in Queues : k # l => Queued(k)' \cap Queued(l)' = {}
    <3>1. \A k, l \in Queues : k # l => Queued(k) \cap Queued(l) = {}
      BY DEF ItemsOnce
    <3> SUFFICES ASSUME NEW k \in Queues, NEW l \in Queues, k # l
                 PROVE  Queued(k)' \cap Queued(l)' = {}
      OBVIOUS
    <3>2. CASE k = j
      BY <2>1, <2>2, <3>1, <3>2
    <3>3. CASE l = j
      BY <2>1, <2>2, <3>1, <3>3
    <3>4. CASE k # j /\ l # j
      BY <2>1, <3>1, <3>4
    <3> QED BY <3>2, <3>3, <3>4
  <2>6. \A k \in Queues : Queued(k)' \subseteq Queued(k) \cup {i}
    BY <2>1
  <2>7. ASSUME NEW v \in Workers, wpc'[v] = "running"
        PROVE  /\ item'[v] \notin done'
               /\ \A k \in Queues : item'[v] \notin Queued(k)'
               /\ \A u \in Workers \ {v} : wpc'[u] = "running" => item'[u] # item'[v]
    BY <2>1, <2>3, <2>6, <2>7 DEF ItemsOnce
  <2> QED BY <2>1, <2>4, <2>5, <2>7 DEF ItemsOnce
<1>4. CASE Still
  <2>1. \A k \in Queues : Queued(k)' = Queued(k) /\ q'[k] = q[k]
    BY <1>4 DEF Still, Queued
  <2>2. \A k \in Queues : Distinct(q'[k]) /\ Queued(k)' \cap done' = {}
    BY <1>4, <2>1 DEF Still, ItemsOnce
  <2>3. \A k, l \in Queues : k # l => Queued(k)' \cap Queued(l)' = {}
    BY <2>1 DEF ItemsOnce
  <2>4. ASSUME NEW v \in Workers, wpc'[v] = "running"
        PROVE  /\ item'[v] \notin done'
               /\ \A k \in Queues : item'[v] \notin Queued(k)'
               /\ \A u \in Workers \ {v} : wpc'[u] = "running" => item'[u] # item'[v]
    BY <1>4, <2>1, <2>4 DEF Still, ItemsOnce
  <2> QED BY <2>2, <2>3, <2>4 DEF ItemsOnce
<1> QED BY <1>1, <1>2, <1>3, <1>4, OtherSteps

-----------------------------------------------------------------------------
(* The refinement.                                                          *)

\* Nothing the refinement mapping shows of the packets changes.
LEMMA StillMapped ==
  ASSUME TypeInv, Still, NEW j \in Queues
  PROVE  Queued(j)' = Queued(j) /\ Executing(j)' = Executing(j)
<1>1. Running(j)' = Running(j)
  BY DEF Running, At, Still, TypeInv, Types, Shape
<1> QED BY <1>1 DEF Still, Queued, Executing

\* Where client c waits, as the refinement mapping shows it.
Gate(c) == IF cpc[c] \in {"bud", "budwait"} THEN cq[c] ELSE NoQueue

\* A notification of external_cd takes clients back to a test, in the same call.
LEMMA NotifiedGate ==
  ASSUME TypeInv, NEW j, NotifyExternal(j) \/ UNCHANGED cpc, NEW c \in Clients
  PROVE  cpc'[c] \in {"bud", "budwait"} <=> cpc[c] \in {"bud", "budwait"}
BY RetestValues DEF NotifyExternal, TypeInv, Types, ClientPC

LEMMA WorkerGate ==
  ASSUME TypeInv, NEW w \in Workers, WorkerStep(w), NEW c \in Clients
  PROVE  Gate(c)' = Gate(c)
<1>1. UNCHANGED cq /\ (UNCHANGED cpc \/ \E j : NotifyExternal(j))
  BY DEF WorkerStep, EnterTake, EnterSleep, WakeTake, WakeSleep, WakeLeave, Finish,
         TakeFront, WaitForPacket, NotifyExternalIf, clientVars
<1>2. cpc'[c] \in {"bud", "budwait"} <=> cpc[c] \in {"bud", "budwait"}
  BY <1>1, NotifiedGate
<1> QED BY <1>1, <1>2 DEF Gate

AbstractTodo == [j \in Queues |-> Queued(j)]
AbstractDoing == [j \in Queues |-> Executing(j)]
AbstractBarrier == [c \in Clients |-> Gate(c)]

\* A step that changes nothing of what the mapping shows.
LEMMA Stutters ==
  ASSUME \A j \in Queues : Queued(j)' = Queued(j) /\ Executing(j)' = Executing(j),
         \A c \in Clients : Gate(c)' = Gate(c),
         done' = done
  PROVE  UNCHANGED Barrier!vars
<1>1. AbstractTodo' = AbstractTodo
  BY DEF AbstractTodo
<1>2. AbstractDoing' = AbstractDoing
  BY DEF AbstractDoing
<1>3. AbstractBarrier' = AbstractBarrier
  BY DEF AbstractBarrier
<1> QED BY <1>1, <1>2, <1>3 DEF Barrier!vars, AbstractTodo, AbstractDoing, AbstractBarrier, Gate

\* Taking a packet is Start.
LEMMA TakeIsStart ==
  ASSUME TypeInv, ItemsOnce, NEW w \in Workers, EnterTake(w) \/ WakeTake(w)
  PROVE  \E j \in Queues, i \in Items : Barrier!Start(j, i)
<1>1. PICK j \in Queues, i \in Items :
        /\ wq[w] = j
        /\ wpc[w] # "running"
        /\ i \in Queued(j)
        /\ Queued(j)' = Queued(j) \ {i}
        /\ \A k \in Queues \ {j} : Queued(k)' = Queued(k)
        /\ item' = [item EXCEPT ![w] = i]
        /\ wpc' = [wpc EXCEPT ![w] = "running"]
        /\ UNCHANGED <<wq, cpc, cq, done>>
  BY Taken
<1>2. /\ item'[w] = i /\ wpc'[w] = "running"
      /\ \A v \in Workers \ {w} : item'[v] = item[v] /\ wpc'[v] = wpc[v]
  BY <1>1 DEF TypeInv, Types
<1>3. Running(j)' = Running(j) \cup {w} /\ w \notin Running(j)
  BY <1>1, <1>2 DEF Running, At
<1>4. Executing(j)' = Executing(j) \cup {i}
  BY <1>2, <1>3 DEF Executing, Running, At
<1>5. \A k \in Queues \ {j} : Executing(k)' = Executing(k)
  BY <1>1, <1>2 DEF Executing, Running, At
<1>6. AbstractTodo' = [AbstractTodo EXCEPT ![j] = @ \ {i}] /\ i \in AbstractTodo[j]
  BY <1>1 DEF AbstractTodo
<1>7. AbstractDoing' = [AbstractDoing EXCEPT ![j] = @ \cup {i}]
  BY <1>4, <1>5 DEF AbstractDoing
<1>8. AbstractBarrier' = AbstractBarrier
  BY <1>1 DEF AbstractBarrier, Gate
<1>9. Barrier!Start(j, i)
  BY <1>1, <1>6, <1>7, <1>8
     DEF Barrier!Start, AbstractTodo, AbstractDoing, AbstractBarrier, Gate
<1> QED BY <1>9

\* The end of wait_and_workOne after a packet is Complete.
LEMMA FinishIsComplete ==
  ASSUME TypeInv, ItemsOnce, NEW w \in Workers, Finish(w)
  PROVE  \E j \in Queues, i \in Items : Barrier!Complete(j, i)
<1>1. PICK j \in Queues, i \in Items : wq[w] = j /\ item[w] = i
  BY Finished
<1>2. /\ wpc[w] = "running"
      /\ done' = done \cup {i}
      /\ wpc' = [wpc EXCEPT ![w] = "out"]
      /\ wq' = [wq EXCEPT ![w] = NoQueue]
      /\ item' = [item EXCEPT ![w] = NoItem]
      /\ UNCHANGED q
  BY <1>1, Finished
<1>3. /\ wpc'[w] = "out"
      /\ \A v \in Workers \ {w} : item'[v] = item[v] /\ wpc'[v] = wpc[v] /\ wq'[v] = wq[v]
  BY <1>2 DEF TypeInv, Types
<1>4. \A v \in Workers \ {w} : wpc[v] = "running" => item[v] # i
  BY <1>1, <1>2 DEF ItemsOnce
<1>5. Running(j)' = Running(j) \ {w} /\ w \in Running(j)
  BY <1>1, <1>2, <1>3 DEF Running, At
<1>6. Executing(j)' = Executing(j) \ {i} /\ i \in Executing(j)
  BY <1>1, <1>3, <1>4, <1>5 DEF Executing, Running, At
<1>7. \A k \in Queues \ {j} : Executing(k)' = Executing(k)
  BY <1>1, <1>3 DEF Executing, Running, At
<1>8. AbstractDoing' = [AbstractDoing EXCEPT ![j] = @ \ {i}] /\ i \in AbstractDoing[j]
  BY <1>6, <1>7 DEF AbstractDoing
<1>9. AbstractTodo' = AbstractTodo
  BY <1>2 DEF AbstractTodo, Queued
<1>10. AbstractBarrier' = AbstractBarrier
  BY WorkerGate DEF AbstractBarrier, WorkerStep
<1>11. Barrier!Complete(j, i)
  BY <1>2, <1>8, <1>9, <1>10
     DEF Barrier!Complete, AbstractTodo, AbstractDoing, AbstractBarrier, Gate
<1> QED BY <1>11

\* push is Submit.
LEMMA PushIsSubmit ==
  ASSUME TypeInv, ItemsOnce, NEW c \in Clients, NEW j \in Queues, NEW i \in Items, Push(c, j, i)
  PROVE  Barrier!Submit(j, i)
<1>1. /\ Fresh(i)
      /\ Queued(j)' = Queued(j) \cup {i}
      /\ \A k \in Queues \ {j} : Queued(k)' = Queued(k)
      /\ \A w \in Workers : wpc'[w] = "running" <=> wpc[w] = "running"
      /\ UNCHANGED <<wq, item, cpc, cq, done>>
  BY Pushed
<1>2. \A k \in Queues : Executing(k)' = Executing(k)
  BY <1>1 DEF Executing, Running, At
<1>3. i \notin done /\ \A k \in Queues : i \notin AbstractTodo[k] \cup AbstractDoing[k]
  BY <1>1 DEF Fresh, AbstractTodo, AbstractDoing
<1>4. AbstractTodo' = [AbstractTodo EXCEPT ![j] = @ \cup {i}]
  BY <1>1 DEF AbstractTodo
<1>5. AbstractDoing' = AbstractDoing
  BY <1>2 DEF AbstractDoing
<1>6. AbstractBarrier' = AbstractBarrier
  BY <1>1 DEF AbstractBarrier, Gate
<1> QED BY <1>1, <1>3, <1>4, <1>5, <1>6
        DEF Barrier!Submit, AbstractTodo, AbstractDoing, AbstractBarrier, Gate

\* The call of blockuntildone is Wait.
LEMMA CallIsWait ==
  ASSUME TypeInv, NEW c \in Clients, NEW j \in Queues, BlockUntilDone(c, j)
  PROVE  Barrier!Wait(c, j)
<1>1. /\ UNCHANGED <<q, wpc, wq, item, done>>
      /\ Gate(c) = NoQueue /\ Gate(c)' = j
      /\ \A d \in Clients \ {c} : Gate(d)' = Gate(d)
  BY DEF BlockUntilDone, Gate, TypeInv, Types, queueVars, workerVars
<1>2. AbstractTodo' = AbstractTodo /\ AbstractDoing' = AbstractDoing
  BY <1>1 DEF AbstractTodo, AbstractDoing, Queued, Executing, Running, At
<1>3. AbstractBarrier' = [AbstractBarrier EXCEPT ![c] = j] /\ AbstractBarrier[c] = NoQueue
  BY <1>1 DEF AbstractBarrier
<1> QED BY <1>1, <1>2, <1>3
        DEF Barrier!Wait, AbstractTodo, AbstractDoing, AbstractBarrier, Gate

\* The return of blockuntildone is Return: exact counters make its test of q
\* and active the one the abstract barrier asks for.
LEMMA ReturnIsReturn ==
  ASSUME TypeInv, CountersExact, NEW c \in Clients, BudReturn(c)
  PROVE  \E j \in Queues : Barrier!Return(c, j)
<1>1. PICK j \in Queues : cq[c] = j
  BY DEF BudReturn, TypeInv, Types, Shape
<1>2. q[j] = <<>> /\ ~(active[j] > 0)
  BY <1>1 DEF BudReturn, Drained
<1>3. Running(j) = {}
  <2>1. Running(j) \in SUBSET Workers
    BY DEF Running, At
  <2>2. active[j] = Cardinality(Running(j))
    BY DEF CountersExact
  <2> QED BY <1>2, <2>1, <2>2, WorkersFinite
<1>4. Queued(j) = {} /\ Executing(j) = {}
  BY <1>2, <1>3 DEF Queued, Executing
<1>5. /\ UNCHANGED <<q, wpc, wq, item, done>>
      /\ Gate(c) = j /\ Gate(c)' = NoQueue
      /\ \A d \in Clients \ {c} : Gate(d)' = Gate(d)
  BY <1>1 DEF BudReturn, Gate, TypeInv, Types, queueVars, workerVars
<1>6. AbstractTodo' = AbstractTodo /\ AbstractDoing' = AbstractDoing
  BY <1>5 DEF AbstractTodo, AbstractDoing, Queued, Executing, Running, At
<1>7. AbstractTodo[j] = {} /\ AbstractDoing[j] = {}
  BY <1>4 DEF AbstractTodo, AbstractDoing
<1>8. AbstractBarrier' = [AbstractBarrier EXCEPT ![c] = NoQueue] /\ AbstractBarrier[c] = j
  BY <1>5 DEF AbstractBarrier
<1>9. Barrier!Return(c, j)
  BY <1>5, <1>6, <1>7, <1>8
     DEF Barrier!Return, AbstractTodo, AbstractDoing, AbstractBarrier, Gate
<1> QED BY <1>9

\* Every other step is invisible to the client.
LEMMA OtherStutters ==
  ASSUME TypeInv, [Next]_vars,
         \A w \in Workers : ~EnterTake(w) /\ ~WakeTake(w) /\ ~Finish(w),
         \A c \in Clients, j \in Queues, i \in Items : ~Push(c, j, i),
         \A c \in Clients, j \in Queues : ~BlockUntilDone(c, j),
         \A c \in Clients : ~BudReturn(c)
  PROVE  UNCHANGED Barrier!vars
<1>1. Still
  BY OtherSteps
<1>2. \A j \in Queues : Queued(j)' = Queued(j) /\ Executing(j)' = Executing(j)
  BY <1>1, StillMapped
<1>3. ASSUME NEW d \in Clients PROVE Gate(d)' = Gate(d)
  <2> USE DEF Gate
  <2>1. ASSUME NEW w \in Workers, WorkerStep(w) PROVE Gate(d)' = Gate(d)
    BY <2>1, WorkerGate
  <2>2. CASE UNCHANGED <<cpc, cq>>
    BY <2>2
  <2>3. ASSUME NEW c \in Clients, BudWait(c) \/ RelReturn(c) \/ RelWait(c) \/ SpuriousExternal(c)
        PROVE  Gate(d)' = Gate(d)
    BY <2>3, RetestValues
       DEF BudWait, RelReturn, RelWait, SpuriousExternal, TypeInv, Types, ClientPC
  <2>4. ASSUME NEW c \in Clients, NEW j \in Queues, Release(c, j) PROVE Gate(d)' = Gate(d)
    BY <2>4 DEF Release, clientVars, TypeInv, Types
  <2>5. ASSUME NEW w \in Workers, SpuriousWake(w) PROVE UNCHANGED <<cpc, cq>>
    BY <2>5 DEF SpuriousWake, clientVars
  <2>6. ASSUME NEW w \in Workers, NEW j \in Queues, Enter(w, j) PROVE UNCHANGED <<cpc, cq>>
    BY <2>6 DEF Enter, clientVars
  <2>7. UNCHANGED vars => UNCHANGED <<cpc, cq>>
    BY DEF vars
  <2> QED BY <2>1, <2>2, <2>3, <2>4, <2>5, <2>6, <2>7 DEF Next, ClientStep, ClientCall
<1> QED BY <1>1, <1>2, <1>3, Stutters DEF Still

LEMMA BarrierStep ==
  TypeInv /\ CountersExact /\ ItemsOnce /\ [Next]_vars => [Barrier!Next]_(Barrier!vars)
<1> SUFFICES ASSUME TypeInv, CountersExact, ItemsOnce, [Next]_vars
             PROVE  Barrier!Next \/ UNCHANGED Barrier!vars
  OBVIOUS
<1>1. ASSUME NEW w \in Workers, EnterTake(w) \/ WakeTake(w) PROVE Barrier!Next
  BY <1>1, TakeIsStart DEF Barrier!Next
<1>2. ASSUME NEW w \in Workers, Finish(w) PROVE Barrier!Next
  BY <1>2, FinishIsComplete DEF Barrier!Next
<1>3. ASSUME NEW c \in Clients, NEW j \in Queues, NEW i \in Items, Push(c, j, i)
      PROVE  Barrier!Next
  BY <1>3, PushIsSubmit DEF Barrier!Next
<1>4. ASSUME NEW c \in Clients, NEW j \in Queues, BlockUntilDone(c, j) PROVE Barrier!Next
  BY <1>4, CallIsWait DEF Barrier!Next
<1>5. ASSUME NEW c \in Clients, BudReturn(c) PROVE Barrier!Next
  BY <1>5, ReturnIsReturn DEF Barrier!Next
<1> QED BY <1>1, <1>2, <1>3, <1>4, <1>5, OtherStutters

LEMMA BarrierInit == Init => Barrier!Init
BY DEF Init, Barrier!Init, Queued, Executing, Running, At

-----------------------------------------------------------------------------

\* No packet of the queue is executed twice or lost between deque and worker,
\* and wait_and_workOne, push and blockuntildone together are the barrier the
\* generator of the packets relies on, for any number of jobs, pool threads,
\* clients and packets.
THEOREM QueueImplementsBarrier == Spec => ImplementsBarrier
<1>1. Spec => [](TypeInv /\ CountersExact)
  BY Invariance
<1>2. Spec => []ItemsOnce
  BY <1>1, ItemsOnceInit, ItemsOnceStep, PTL DEF Spec
<1> QED BY <1>1, <1>2, BarrierInit, BarrierStep, PTL DEF Spec, ImplementsBarrier, Barrier!Spec

=============================================================================
