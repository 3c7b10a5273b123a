------------------------ MODULE SchedulerSingletonProofs ------------------------
(***************************************************************************)
(* Proofs about SchedulerSingleton for any number of objects and signals.   *)
(*                                                                          *)
(* Life holds whatever is sent whenever: it follows an object from its      *)
(* fields to its deletion and says who may get hold of it.  Timely is what  *)
(* is true while every signal has been sent at a good moment.               *)
(***************************************************************************)
EXTENDS SchedulerSingleton, FiniteSetTheorems, TLAPS

Installed == {"built", "freed"}

\* The thread of an object is inside the handler or in the loop after it.
Handling == {"singleton", "make", "assign", "found", "write", "delivered", "pass"}

Life ==
  /\ \A o \in Objects : life[o] = "unused" <=> pc[o] = "none"
  /\ \A o \in Objects : life[o] = "freed" => pc[o] = "stopped"
  /\ \A o \in Objects :
       receivedSignal[o] \/ receivedStopSignal[o] \/ pc[o] = "pass" => life[o] \in Installed
  /\ instance # NULL => life[instance] \in Installed
  /\ \A t \in Threads : held[t] # NULL => life[held[t]] \in Installed
  /\ \A t \in Threads : pc[t] = "make" => making[t] \in Objects /\ life[making[t]] = "fields"
  /\ \A t \in Threads : pc[t] = "assign" => making[t] \in Objects /\ life[making[t]] \in Installed
  /\ \A t, u \in Threads : pc[t] = "make" /\ pc[u] = "make" /\ making[t] = making[u] => t = u
  /\ pc[Main] = "join" => held[Main] # NULL

LInv == TypeOK /\ Life

LEMMA ThreadFacts ==
  Main \in Threads /\ Main \notin Objects /\ NULL \notin Objects /\ Objects \subseteq Threads
BY SchedulerSingletonAssumption DEF Threads

LEMMA InitLife == ASSUME Init PROVE LInv
<1> USE ThreadFacts
<1>1. /\ \A t \in Threads : pc[t] \in {"idle", "none"} /\ held[t] = NULL
      /\ \A o \in Objects : pc[o] = "none" /\ life[o] = "unused"
      /\ \A o \in Objects : ~receivedSignal[o] /\ ~receivedStopSignal[o]
  BY DEF Init
<1>2. instance = NULL /\ pc[Main] = "idle"
  BY DEF Init
<1>3. Life
  BY <1>1, <1>2, Zenon DEF Life
<1>4. pc \in [Threads -> PCs] /\ signal \in [Objects -> {"core", "stop"}] /\ life \in [Objects -> Lives]
  BY DEF Init, PCs, Lives
<1>5. pendingCore \in 0 .. InFlight /\ sent \in 0 .. MaxSignals
  BY SchedulerSingletonAssumption DEF Init
<1>6. TypeOK
  BY <1>4, <1>5 DEF Init, TypeOK
<1> QED BY <1>3, <1>6 DEF LInv

LEMMA TypeStep == ASSUME LInv, [Next]_vars PROVE TypeOK'
<1> USE ThreadFacts, SchedulerSingletonAssumption DEF LInv, GoTo
<1>1. ASSUME NEW t \in Threads, Singleton(t) PROVE TypeOK'
  <2>1. CASE Find(t)
    BY <2>1 DEF Find, TypeOK, PCs, objectVars, kernelVars, historyVars
  <2>2. ASSUME NEW o \in Objects, Make(t, o) PROVE TypeOK'
    BY <2>2 DEF Make, TypeOK, PCs, Lives, kernelVars, historyVars
  <2>3. CASE Build(t)
    BY <2>3 DEF Build, TypeOK, PCs, Lives, kernelVars, historyVars
  <2>4. CASE Assign(t)
    BY <2>4 DEF Assign, Life, TypeOK, PCs, objectVars, kernelVars, historyVars
  <2>5. CASE Return(t)
    BY <2>5 DEF Return, TypeOK, PCs, objectVars, kernelVars, historyVars
  <2> QED BY <1>1, <2>1, <2>2, <2>3, <2>4, <2>5 DEF Singleton
<1>2. CASE CallSingleton
  BY <1>2 DEF CallSingleton, TypeOK, PCs, objectVars, kernelVars, historyVars
<1>3. CASE DeleteSingleton
  BY <1>3 DEF DeleteSingleton, TypeOK, PCs, objectVars
<1>4. CASE Destruct
  BY <1>4 DEF Destruct, TypeOK, PCs, Lives, kernelVars, historyVars
<1>5. CASE Clear
  BY <1>5 DEF Clear, TypeOK, PCs, objectVars, kernelVars, historyVars
<1>6. ASSUME NEW o \in Objects, SignalStep(o) PROVE TypeOK'
  <2>1. CASE Suspend(o)
    BY <2>1 DEF Suspend, TypeOK, PCs, objectVars, kernelVars, historyVars
  <2>2. CASE DeliverCore(o)
    BY <2>2 DEF DeliverCore, TypeOK, PCs, objectVars, historyVars
  <2>3. CASE DeliverStop(o)
    BY <2>3 DEF DeliverStop, TypeOK, PCs, objectVars, historyVars
  <2>4. CASE Write(o)
    BY <2>4 DEF Write, TypeOK, PCs, kernelVars, historyVars
  <2>5. CASE WriteWild(o)
    BY <2>5 DEF WriteWild, TypeOK, objectVars, callVars, kernelVars, historyVars
  <2>6. CASE Leave(o)
    BY <2>6 DEF Leave, TypeOK, PCs, objectVars, kernelVars, historyVars
  <2>7. CASE StartPass(o)
    BY <2>7 DEF StartPass, TypeOK, PCs, kernelVars, historyVars
  <2>8. CASE SuspendAgain(o)
    BY <2>8 DEF SuspendAgain, TypeOK, PCs, objectVars, kernelVars, historyVars
  <2> QED BY <1>1, <1>6, <2>1, <2>2, <2>3, <2>4, <2>5, <2>6, <2>7, <2>8 DEF SignalStep
<1>7. CASE SendCore
  BY <1>7 DEF SendCore, TypeOK, objectVars, callVars
<1>8. CASE UNCHANGED vars
  BY <1>8 DEF vars, TypeOK
<1> QED BY <1>1, <1>2, <1>3, <1>4, <1>5, <1>6, <1>7, <1>8 DEF Next, MainStep

LEMMA LifeStep == ASSUME LInv, [Next]_vars PROVE Life'
<1> USE ThreadFacts DEF LInv, TypeOK, GoTo, Installed
<1>1. ASSUME NEW t \in Threads, Singleton(t) PROVE Life'
  <2>1. CASE Find(t)
    BY <2>1 DEF Find, Life, objectVars
  <2>2. ASSUME NEW o \in Objects, Make(t, o) PROVE Life'
    BY <2>2 DEF Make, Life
  <2>3. CASE Build(t)
    BY <2>3 DEF Build, Life
  <2>4. CASE Assign(t)
    BY <2>4 DEF Assign, Life, objectVars
  <2>5. CASE Return(t)
    BY <2>5 DEF Return, Life, objectVars
  <2> QED BY <1>1, <2>1, <2>2, <2>3, <2>4, <2>5 DEF Singleton
<1>2. CASE CallSingleton
  BY <1>2 DEF CallSingleton, Life, objectVars
<1>3. CASE DeleteSingleton
  BY <1>3 DEF DeleteSingleton, Life, objectVars
<1>4. CASE Destruct
  BY <1>4 DEF Destruct, Life
<1>5. CASE Clear
  BY <1>5 DEF Clear, Life, objectVars
<1>6. ASSUME NEW o \in Objects, SignalStep(o) PROVE Life'
  <2>1. CASE Suspend(o)
    BY <2>1 DEF Suspend, Life, objectVars
  <2>2. CASE DeliverCore(o)
    BY <2>2 DEF DeliverCore, Life, objectVars
  <2>3. CASE DeliverStop(o)
    BY <2>3 DEF DeliverStop, Life, objectVars
  <2>4. CASE Write(o)
    BY <2>4 DEF Write, Life
  <2>5. CASE WriteWild(o)
    BY <2>5 DEF WriteWild, Life, objectVars, callVars
  <2>6. CASE Leave(o)
    BY <2>6 DEF Leave, Life, objectVars
  <2>7. CASE StartPass(o)
    BY <2>7 DEF StartPass, Life
  <2>8. CASE SuspendAgain(o)
    BY <2>8 DEF SuspendAgain, Life, objectVars
  <2> QED BY <1>1, <1>6, <2>1, <2>2, <2>3, <2>4, <2>5, <2>6, <2>7, <2>8 DEF SignalStep
<1>7. CASE SendCore
  BY <1>7 DEF SendCore, Life, objectVars, callVars
<1>8. CASE UNCHANGED vars
  BY <1>8 DEF vars, Life
<1> QED BY <1>1, <1>2, <1>3, <1>4, <1>5, <1>6, <1>7, <1>8 DEF Next, MainStep

LEMMA LifeInvariance == Spec => []LInv
<1>1. Init => LInv
  BY InitLife
<1>2. LInv /\ [Next]_vars => LInv'
  BY TypeStep, LifeStep DEF LInv
<1> QED BY <1>1, <1>2, PTL DEF Spec

-----------------------------------------------------------------------------
(* While every signal was timely.                                           *)

\* The thread of o handles the stop signal, or has handled it.
Stopping(o) ==
  receivedStopSignal[o] \/ (pc[o] \in {"singleton", "found", "write"} /\ signal[o] = "stop")

Timely ==
  /\ ~wild
  /\ pendingCore > 0 => instance # NULL /\ pc[Main] \notin {"join", "clear"}
  /\ \A o \in Objects :
       life[o] \in {"fields", "built"} =>
         o = instance \/ (o = making[Main] /\ pc[Main] \in {"make", "assign"})
  /\ pc[Main] \in {"make", "assign"} => instance = NULL
  /\ pc[Main] = "assign" => life[making[Main]] = "built"
  /\ pc[Main] = "join" => held[Main] = instance
  /\ instance # NULL => life[instance] = (IF pc[Main] = "clear" THEN "freed" ELSE "built")
  /\ \A o \in Objects : pc[o] \in Handling => o = instance /\ pc[o] \notin {"make", "assign"}
  /\ \A o \in Objects : pc[o] = "write" => held[o] = o
  /\ \A o \in pendingStop : o = instance /\ pc[Main] = "join"
  /\ \A o \in Objects :
       Stopping(o) =>
         /\ o \notin pendingStop
         /\ (o = instance /\ pc[Main] \in {"join", "clear"}) \/ life[o] = "freed"
  /\ \A o \in Objects : pc[o] = "stopped" => receivedStopSignal[o]
  /\ \A o \in Objects : receivedSignal[o] => pc[o] \in {"delivered", "stopped"}

IInv == LInv /\ (untimely \/ Timely)

LEMMA InitTimely == ASSUME Init PROVE Timely
<1> USE ThreadFacts
<1>1. /\ \A o \in Objects : pc[o] = "none" /\ life[o] = "unused"
      /\ \A o \in Objects : ~receivedSignal[o] /\ ~receivedStopSignal[o]
      /\ instance = NULL /\ pc[Main] = "idle" /\ pendingCore = 0 /\ pendingStop = {} /\ ~wild
  BY DEF Init
<1> QED BY <1>1 DEF Timely, Stopping, Handling

LEMMA TimelyStep == ASSUME LInv, Timely, [Next]_vars, ~untimely' PROVE Timely'
<1> USE ThreadFacts DEF LInv, TypeOK, Life, GoTo, Installed, Handling, Stopping
<1>1. ASSUME NEW t \in Threads, Singleton(t) PROVE Timely'
  <2>0. t = Main \/ (t \in Objects /\ t # Main)
    BY DEF Threads
  <2>1. CASE Find(t)
    BY <2>0, <2>1 DEF Find, Timely, objectVars, kernelVars
  <2>2. ASSUME NEW o \in Objects, Make(t, o) PROVE Timely'
    <3>1. t = Main
      BY <2>0, <2>2 DEF Make, Timely
    <3> QED BY <2>2, <3>1, SMTT(30) DEF Make, Timely, kernelVars
  <2>3. CASE Build(t)
    <3>1. t = Main
      BY <2>0, <2>3 DEF Build, Timely
    <3> QED BY <2>3, <3>1 DEF Build, Timely, kernelVars
  <2>4. CASE Assign(t)
    <3>1. t = Main
      BY <2>0, <2>4 DEF Assign, Timely
    <3> DEFINE o == making[Main]
    <3>2. /\ o \in Objects /\ instance' = o /\ pc' = [pc EXCEPT ![Main] = "found"]
          /\ instance = NULL /\ life[o] = "built" /\ o # NULL
      BY <2>4, <3>1 DEF Assign, Timely
    <3>3. \A u \in Objects : pc'[u] = pc[u] /\ pc[u] \notin Handling /\ u \notin pendingStop
      BY <3>2 DEF Timely
    <3>4. \A u \in Objects : Stopping(u) => life[u] = "freed"
      BY <3>2 DEF Timely
    <3>5. UNCHANGED <<objectVars, held, signal, kernelVars, wild, historyVars>>
      BY <2>4 DEF Assign
    <3> QED BY <3>2, <3>3, <3>4, <3>5 DEF Timely, objectVars, kernelVars
  <2>5. CASE Return(t)
    BY <2>0, <2>5 DEF Return, Timely, objectVars, kernelVars
  <2> QED BY <1>1, <2>1, <2>2, <2>3, <2>4, <2>5 DEF Singleton
<1>2. CASE CallSingleton
  BY <1>2 DEF CallSingleton, Timely, objectVars, kernelVars
<1>3. CASE DeleteSingleton
  <2>1. /\ pc[Main] = "idle" /\ instance \in Objects /\ life[instance] = "built"
        /\ held' = [held EXCEPT ![Main] = instance] /\ pc' = [pc EXCEPT ![Main] = "join"]
        /\ pendingStop' = pendingStop \cup {instance}
        /\ UNCHANGED <<instance, objectVars, making, signal, pendingCore, wild>>
    BY <1>3 DEF DeleteSingleton, Timely
  <2>2. pendingCore' = 0 /\ pendingStop = {}
    <3>1. untimely' = (untimely \/ pendingCore > 0)
      BY <1>3 DEF DeleteSingleton
    <3>2. ~(pendingCore > 0)
      BY <3>1, Zenon
    <3> QED BY <2>1, <3>2 DEF Timely
  <2>3. \A o \in Objects : pc'[o] = pc[o] /\ held'[o] = held[o]
    BY <2>1
  <2>4. \A o \in Objects : Stopping(o) => o # instance /\ life[o] = "freed"
    BY <2>1 DEF Timely
  <2> QED BY <2>1, <2>2, <2>3, <2>4 DEF Timely, objectVars
<1>4. CASE Destruct
  <2>1. /\ pc[Main] = "join" /\ held[Main] = instance /\ instance \in Objects
        /\ pc[instance] = "stopped" /\ life[instance] = "built"
        /\ life' = [life EXCEPT ![instance] = "freed"] /\ pc' = [pc EXCEPT ![Main] = "clear"]
    BY <1>4 DEF Destruct, Timely
  <2>2. pendingStop = {} /\ ~(pendingCore > 0)
    BY <2>1 DEF Timely
  <2>3. \A o \in Objects : pc'[o] = pc[o] /\ (o # instance => life'[o] = life[o])
    BY <2>1
  <2>4. UNCHANGED <<instance, receivedSignal, receivedStopSignal, making, held, signal, kernelVars, wild>>
    BY <1>4 DEF Destruct
  <2> QED BY <2>1, <2>2, <2>3, <2>4 DEF Timely, kernelVars
<1>5. CASE Clear
  BY <1>5 DEF Clear, Timely, objectVars, kernelVars
<1>6. ASSUME NEW o \in Objects, SignalStep(o) PROVE Timely'
  <2>1. CASE Suspend(o)
    BY <2>1 DEF Suspend, Timely, objectVars, kernelVars
  <2>2. CASE DeliverCore(o)
    <3>1. instance = o /\ instance # NULL /\ pc[Main] \notin {"join", "clear"}
      BY <2>2 DEF DeliverCore, Timely, Lives
    <3>2. /\ pc' = [pc EXCEPT ![o] = "singleton"] /\ signal' = [signal EXCEPT ![o] = "core"]
          /\ pc[o] = "suspended"
          /\ UNCHANGED <<instance, objectVars, making, held, pendingStop, wild>>
      BY <2>2 DEF DeliverCore
    <3>3. pc'[Main] = pc[Main] /\ \A u \in Objects : u # o => pc'[u] = pc[u] /\ signal'[u] = signal[u]
      BY <3>2
    <3>4. ~receivedStopSignal[o] /\ ~receivedSignal[o] /\ pc'[o] = "singleton" /\ signal'[o] = "core"
      BY <3>1, <3>2 DEF Timely
    <3> QED BY <3>1, <3>2, <3>3, <3>4 DEF Timely, objectVars
  <2>3. CASE DeliverStop(o)
    BY <2>3 DEF DeliverStop, Timely, objectVars
  <2>4. CASE Write(o)
    BY <2>4 DEF Write, Timely, kernelVars
  <2>5. CASE WriteWild(o)
    BY <2>5 DEF WriteWild, Timely
  <2>6. CASE Leave(o)
    BY <2>6 DEF Leave, Timely, objectVars, kernelVars
  <2>7. CASE StartPass(o)
    BY <2>7 DEF StartPass, Timely, kernelVars
  <2>8. CASE SuspendAgain(o)
    BY <2>8 DEF SuspendAgain, Timely, objectVars, kernelVars
  <2> QED BY <1>1, <1>6, <2>1, <2>2, <2>3, <2>4, <2>5, <2>6, <2>7, <2>8 DEF SignalStep
<1>7. CASE SendCore
  BY <1>7 DEF SendCore, Timely, objectVars, callVars
<1>8. CASE UNCHANGED vars
  BY <1>8 DEF vars, Timely
<1> QED BY <1>1, <1>2, <1>3, <1>4, <1>5, <1>6, <1>7, <1>8 DEF Next, MainStep

LEMMA UntimelyStays == ASSUME [Next]_vars, untimely PROVE untimely'
<1> USE DEF historyVars
<1>1. UNCHANGED historyVars => untimely'
  OBVIOUS
<1>2. DeleteSingleton \/ SendCore => untimely'
  BY Zenon DEF DeleteSingleton, SendCore
<1>3. \A t \in Threads : Singleton(t) => UNCHANGED historyVars
  BY Zenon DEF Singleton, Find, Make, Build, Assign, Return
<1>4. CallSingleton \/ Destruct \/ Clear => UNCHANGED historyVars
  BY Zenon DEF CallSingleton, Destruct, Clear
<1>5. \A o \in Objects : SignalStep(o) => UNCHANGED historyVars
  BY <1>3, ThreadFacts, Zenon
    DEF SignalStep, Suspend, DeliverCore, DeliverStop, Write, WriteWild, Leave, StartPass,
      SuspendAgain, Threads
<1>6. UNCHANGED vars => untimely'
  BY DEF vars
<1> QED BY <1>1, <1>2, <1>3, <1>4, <1>5, <1>6, ThreadFacts, Zenon DEF Next, MainStep

LEMMA Invariance == Spec => []IInv
<1>1. Init => IInv
  BY InitLife, InitTimely DEF IInv
<1>2. IInv /\ [Next]_vars => IInv'
  <2> SUFFICES ASSUME IInv, [Next]_vars PROVE IInv'
    OBVIOUS
  <2>1. LInv'
    BY TypeStep, LifeStep DEF IInv, LInv
  <2>2. CASE untimely
    BY <2>1, <2>2, UntimelyStays DEF IInv
  <2>3. CASE Timely
    BY <2>1, <2>3, TimelyStep, Zenon DEF IInv
  <2> QED BY <2>2, <2>3 DEF IInv
<1> QED BY <1>1, <1>2, PTL DEF Spec

-----------------------------------------------------------------------------
(* The theorems.                                                            *)

\* Every variable of the construction keeps its type.
THEOREM TypeCorrect == Spec => []TypeOK
<1>1. LInv => TypeOK
  BY DEF LInv
<1> QED BY <1>1, LifeInvariance, PTL

\* The loop of signalthreadfunction never runs on a scheduler whose vectors have
\* no size yet or that is deleted, whoever sends a signal whenever.
THEOREM PassesMeetWholeObjects == Spec => []PassOnWholeObject
<1>1. LInv => PassOnWholeObject
  BY DEF LInv, Life, PassOnWholeObject, Installed
<1> QED BY <1>1, LifeInvariance, PTL

\* "the only object of this class" (maleablescheduler.h), if signals are timely.
THEOREM ThereIsOneScheduler == Spec => []OneScheduler
<1>1. ASSUME IInv, ~untimely PROVE Cardinality(Alive) <= 1
  <2> DEFINE x == IF pc[Main] \in {"make", "assign"} THEN making[Main] ELSE instance
  <2>1. Alive \subseteq {x}
    BY <1>1, ThreadFacts DEF IInv, LInv, TypeOK, Timely, Alive
  <2>2. Alive = {} \/ Alive = {x}
    BY <2>1
  <2> HIDE DEF x
  <2>3. Cardinality({}) = 0 /\ Cardinality({x}) = 1
    BY FS_EmptySet, FS_Singleton
  <2> QED BY <2>2, <2>3
<1>2. IInv => OneScheduler
  BY <1>1 DEF OneScheduler
<1> QED BY <1>2, Invariance, PTL

\* What sighandler writes goes to a scheduler that is there, if signals are
\* timely.
THEOREM HandlersWriteIntoObjects == Spec => []HandlersFindObject
<1>1. IInv => HandlersFindObject
  BY DEF IInv, Timely, HandlersFindObject
<1> QED BY <1>1, Invariance, PTL

\* No signal thread waits in sigsuspend with receivedSignal set, if signals are
\* timely.
THEOREM CommandsAreActedOn == Spec => []NoCommandStuck
<1>1. IInv => NoCommandStuck
  BY DEF IInv, Timely, NoCommandStuck
<1> QED BY <1>1, Invariance, PTL

=============================================================================
