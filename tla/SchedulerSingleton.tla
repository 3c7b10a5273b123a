-------------------------- MODULE SchedulerSingleton --------------------------
(***************************************************************************)
(* Construction, singleton() and deleteSingleton() of MaleableScheduler     *)
(* (malms/threadpool/maleablescheduler.h).  sighandler gets at the object   *)
(* through singleton() too, on whichever signal thread it runs, so that a   *)
(* signal delivered while instance is NULL constructs a scheduler inside    *)
(* the handler.                                                             *)
(*                                                                          *)
(* An object is known by its signal thread.  What the flags and the loop    *)
(* over the cores do to one object is SignalThread, what its pool does is   *)
(* MaleableScheduler: here a core signal carries nothing, a pass over the   *)
(* cores is one state, and so are starting the pool and shutting it down.   *)
(***************************************************************************)
EXTENDS Integers, FiniteSets

CONSTANTS
  Objects,     \* bound: the MaleableSchedulers that may ever be constructed
  Main,        \* the thread that calls singleton and deleteSingleton
  NULL,
  MaxSignals,  \* bound: block and unblock signals sent
  InFlight     \* bound: signals undelivered at a time

ASSUME SchedulerSingletonAssumption ==
  /\ Main \notin Objects
  /\ NULL \notin Objects
  /\ MaxSignals \in Nat
  /\ InFlight \in Nat

Threads == Objects \cup {Main}

VARIABLES
  instance,
  life,          \* life[o]: "unused", "fields" (the flags are set and the signal
                 \* thread is started), "built" or "freed"
  receivedSignal, receivedStopSignal,
  pc,            \* pc[t]: Main in a static function, o's signal thread in its loop
  making,        \* making[t]: the object t is constructing
  held,          \* held[t]: what singleton() last returned to t
  signal,        \* signal[o]: the signal o's thread is handling
  pendingCore,   \* block and unblock signals sent and not delivered
  pendingStop,   \* the threads a SIGSTOPSIGNALTHREAD is pending for
  wild,          \* a handler has written through NULL or into a freed object
  untimely,      \* history: a signal was sent while there was no instance or it was
                 \* being deleted, or was still pending when deleteSingleton began
  sent           \* history: number of signals sent

objectVars == <<life, receivedSignal, receivedStopSignal>>
callVars == <<pc, making, held>>
kernelVars == <<pendingCore, pendingStop>>
historyVars == <<untimely, sent>>
vars == <<instance, life, receivedSignal, receivedStopSignal, pc, making, held, signal,
          pendingCore, pendingStop, wild, untimely, sent>>

Init ==
  /\ instance = NULL
  /\ life = [o \in Objects |-> "unused"]
  /\ receivedSignal = [o \in Objects |-> FALSE]
  /\ receivedStopSignal = [o \in Objects |-> FALSE]
  /\ pc = [t \in Threads |-> IF t = Main THEN "idle" ELSE "none"]
  /\ making = [t \in Threads |-> NULL]
  /\ held = [t \in Threads |-> NULL]
  /\ signal = [o \in Objects |-> "core"]
  /\ pendingCore = 0
  /\ pendingStop = {}
  /\ wild = FALSE
  /\ untimely = FALSE
  /\ sent = 0

GoTo(t, label) == pc' = [pc EXCEPT ![t] = label]

-----------------------------------------------------------------------------
(* singleton(), on the main thread or inside a handler.                     *)

Find(t) ==
  /\ pc[t] = "singleton"
  /\ instance # NULL
  /\ GoTo(t, "found")
  /\ UNCHANGED <<instance, objectVars, making, held, signal, kernelVars, wild, historyVars>>

\* Faulty variant: instance is set before the object is complete.
MakeInstalls(t, o) ==
  /\ pc[t] = "singleton"
  /\ instance = NULL
  /\ life[o] = "unused"
  /\ making' = [making EXCEPT ![t] = o]
  /\ instance' = o
  /\ life' = [life EXCEPT ![o] = "fields"]
  /\ pc' = [pc EXCEPT ![t] = "make", ![o] = "created"]
  /\ UNCHANGED <<receivedSignal, receivedStopSignal, held, signal, kernelVars, wild, historyVars>>

\* new MaleableScheduler(), up to the start of the signal thread.
Make(t, o) ==
  /\ pc[t] = "singleton"
  /\ instance = NULL
  /\ life[o] = "unused"
  /\ making' = [making EXCEPT ![t] = o]
  /\ life' = [life EXCEPT ![o] = "fields"]
  /\ pc' = [pc EXCEPT ![t] = "make", ![o] = "created"]
  /\ UNCHANGED <<instance, receivedSignal, receivedStopSignal, held, signal, kernelVars, wild,
                 historyVars>>

\* The rest of init: the vectors get their size and the pool falls asleep.
Build(t) ==
  /\ pc[t] = "make"
  /\ life' = [life EXCEPT ![making[t]] = "built"]
  /\ GoTo(t, "assign")
  /\ UNCHANGED <<instance, receivedSignal, receivedStopSignal, making, held, signal, kernelVars,
                 wild, historyVars>>

Assign(t) ==
  /\ pc[t] = "assign"
  /\ instance' = making[t]
  /\ making' = [making EXCEPT ![t] = NULL]
  /\ GoTo(t, "found")
  /\ UNCHANGED <<objectVars, held, signal, kernelVars, wild, historyVars>>

\* return instance, which is read again.
Return(t) ==
  /\ pc[t] = "found"
  /\ held' = [held EXCEPT ![t] = instance]
  /\ GoTo(t, IF t = Main THEN "idle" ELSE "write")
  /\ UNCHANGED <<instance, objectVars, making, signal, kernelVars, wild, historyVars>>

Singleton(t) == Find(t) \/ (\E o \in Objects : Make(t, o)) \/ Build(t) \/ Assign(t) \/ Return(t)

-----------------------------------------------------------------------------
(* The main thread: singleton() and deleteSingleton() in any order.         *)

CallSingleton ==
  /\ pc[Main] = "idle"
  /\ instance = NULL => \E o \in Objects : life[o] = "unused"
  /\ GoTo(Main, "singleton")
  /\ UNCHANGED <<instance, objectVars, making, held, signal, kernelVars, wild, historyVars>>

\* Faulty variant: the object is not deleted.
DeleteSingletonLeaks ==
  /\ pc[Main] = "idle"
  /\ instance # NULL
  /\ GoTo(Main, "clear")
  /\ UNCHANGED <<instance, objectVars, making, held, signal, kernelVars, wild, historyVars>>

\* delete instance, up to the pthread_kill.
DeleteSingleton ==
  /\ pc[Main] = "idle"
  /\ instance # NULL
  /\ held' = [held EXCEPT ![Main] = instance]
  /\ pendingStop' = pendingStop \cup {instance}
  /\ untimely' = (untimely \/ pendingCore > 0)
  /\ GoTo(Main, "join")
  /\ UNCHANGED <<instance, objectVars, making, signal, pendingCore, wild, sent>>

\* Faulty variant: the destructor does not wait for the signal thread.
DestructUnjoined ==
  /\ pc[Main] = "join"
  /\ life' = [life EXCEPT ![held[Main]] = "freed"]
  /\ GoTo(Main, "clear")
  /\ UNCHANGED <<instance, receivedSignal, receivedStopSignal, making, held, signal, kernelVars,
                 wild, historyVars>>

\* The signal thread is joined; the rest of the destructor.
Destruct ==
  /\ pc[Main] = "join"
  /\ pc[held[Main]] = "stopped"
  /\ life' = [life EXCEPT ![held[Main]] = "freed"]
  /\ GoTo(Main, "clear")
  /\ UNCHANGED <<instance, receivedSignal, receivedStopSignal, making, held, signal, kernelVars,
                 wild, historyVars>>

Clear ==
  /\ pc[Main] = "clear"
  /\ instance' = NULL
  /\ held' = [held EXCEPT ![Main] = NULL]
  /\ GoTo(Main, "idle")
  /\ UNCHANGED <<objectVars, making, signal, kernelVars, wild, historyVars>>

-----------------------------------------------------------------------------
(* signalthreadfunction of object o, and sighandler.                        *)

\* The handler is installed, the thread in sigsuspend for the first time.
Suspend(o) ==
  /\ pc[o] = "created"
  /\ GoTo(o, "suspended")
  /\ UNCHANGED <<instance, objectVars, making, held, signal, kernelVars, wild, historyVars>>

\* Sent to the process: any signal thread that is in sigsuspend gets it.
DeliverCore(o) ==
  /\ pc[o] = "suspended"
  /\ pendingCore > 0
  /\ pendingCore' = pendingCore - 1
  /\ signal' = [signal EXCEPT ![o] = "core"]
  /\ GoTo(o, "singleton")
  /\ UNCHANGED <<instance, objectVars, making, held, pendingStop, wild, historyVars>>

\* Sent to the thread.
DeliverStop(o) ==
  /\ pc[o] = "suspended"
  /\ o \in pendingStop
  /\ pendingStop' = pendingStop \ {o}
  /\ signal' = [signal EXCEPT ![o] = "stop"]
  /\ GoTo(o, "singleton")
  /\ UNCHANGED <<instance, objectVars, making, held, pendingCore, wild, historyVars>>

\* Faulty variant: the object is told of the stop like of a core.
WriteSignalOnly(o) ==
  /\ pc[o] = "write"
  /\ held[o] \in Objects /\ life[held[o]] # "freed"
  /\ receivedSignal' = [receivedSignal EXCEPT ![held[o]] = TRUE]
  /\ GoTo(o, "delivered")
  /\ UNCHANGED <<instance, life, receivedStopSignal, making, held, signal, kernelVars, wild,
                 historyVars>>

\* What the handler writes goes to the object singleton() gave it, whose thread
\* need not be this one.
Write(o) ==
  /\ pc[o] = "write"
  /\ held[o] \in Objects /\ life[held[o]] # "freed"
  /\ receivedSignal' = [receivedSignal EXCEPT ![held[o]] = @ \/ signal[o] = "core"]
  /\ receivedStopSignal' = [receivedStopSignal EXCEPT ![held[o]] = @ \/ signal[o] = "stop"]
  /\ GoTo(o, "delivered")
  /\ UNCHANGED <<instance, life, making, held, signal, kernelVars, wild, historyVars>>

WriteWild(o) ==
  /\ pc[o] = "write"
  /\ ~(held[o] \in Objects /\ life[held[o]] # "freed")
  /\ wild' = TRUE
  /\ UNCHANGED <<instance, objectVars, callVars, signal, kernelVars, historyVars>>

Leave(o) ==
  /\ pc[o] = "delivered"
  /\ receivedStopSignal[o]
  /\ GoTo(o, "stopped")
  /\ UNCHANGED <<instance, objectVars, making, held, signal, kernelVars, wild, historyVars>>

StartPass(o) ==
  /\ pc[o] = "delivered"
  /\ ~receivedStopSignal[o]
  /\ receivedSignal[o]
  /\ receivedSignal' = [receivedSignal EXCEPT ![o] = FALSE]
  /\ GoTo(o, "pass")
  /\ UNCHANGED <<instance, life, receivedStopSignal, making, held, signal, kernelVars, wild,
                 historyVars>>

\* Faulty variant: the thread waits again without a pass.
SuspendUnread(o) ==
  /\ pc[o] = "delivered"
  /\ ~receivedStopSignal[o]
  /\ GoTo(o, "suspended")
  /\ UNCHANGED <<instance, objectVars, making, held, signal, kernelVars, wild, historyVars>>

SuspendAgain(o) ==
  /\ \/ pc[o] = "pass"
     \/ pc[o] = "delivered" /\ ~receivedStopSignal[o] /\ ~receivedSignal[o]
  /\ GoTo(o, "suspended")
  /\ UNCHANGED <<instance, objectVars, making, held, signal, kernelVars, wild, historyVars>>

-----------------------------------------------------------------------------
(* The controlling process.                                                 *)

\* The first init has blocked the signals in every thread but the signal
\* threads in sigsuspend: from then on they stay pending.  Before that a signal
\* ends the process.
Masked == \E o \in Objects : life[o] # "unused"

SendCore ==
  /\ sent < MaxSignals
  /\ pendingCore < InFlight
  /\ Masked
  /\ pendingCore' = pendingCore + 1
  /\ untimely' = (untimely \/ instance = NULL \/ pc[Main] \in {"join", "clear"})
  /\ sent' = sent + 1
  /\ UNCHANGED <<instance, objectVars, callVars, signal, pendingStop, wild>>

-----------------------------------------------------------------------------

MainStep == Singleton(Main) \/ Destruct \/ Clear

SignalStep(o) ==
  \/ Singleton(o)
  \/ Suspend(o) \/ DeliverCore(o) \/ DeliverStop(o)
  \/ Write(o) \/ WriteWild(o)
  \/ Leave(o) \/ StartPass(o) \/ SuspendAgain(o)

Next ==
  /\ ~wild
  /\ \/ CallSingleton \/ DeleteSingleton \/ MainStep
     \/ \E o \in Objects : SignalStep(o)
     \/ SendCore

Spec == Init /\ [][Next]_vars

\* The operating system runs the threads that can run and delivers signals; the
\* pool comes up and shuts down (MaleableScheduler).  Calls and signals just
\* happen or not.
FairSpec ==
  /\ Spec
  /\ WF_vars(~wild /\ MainStep)
  /\ \A o \in Objects : WF_vars(~wild /\ SignalStep(o))

-----------------------------------------------------------------------------
(* Properties. *)

Lives == {"unused", "fields", "built", "freed"}
PCs == {"none", "idle", "singleton", "make", "assign", "found", "join", "clear", "created",
        "suspended", "write", "delivered", "pass", "stopped"}

TypeOK ==
  /\ instance \in Objects \cup {NULL}
  /\ life \in [Objects -> Lives]
  /\ receivedSignal \in [Objects -> BOOLEAN]
  /\ receivedStopSignal \in [Objects -> BOOLEAN]
  /\ pc \in [Threads -> PCs]
  /\ making \in [Threads -> Objects \cup {NULL}]
  /\ held \in [Threads -> Objects \cup {NULL}]
  /\ signal \in [Objects -> {"core", "stop"}]
  /\ pendingCore \in 0 .. InFlight
  /\ pendingStop \in SUBSET Objects
  /\ wild \in BOOLEAN
  /\ untimely \in BOOLEAN
  /\ sent \in 0 .. MaxSignals

\* The signal thread is started before the vectors its loop indexes have their
\* size, and the destructor deletes what they hold.  The loop never runs on such
\* an object, whoever sends whatever when: only a handler that got the object
\* from singleton() makes its thread look at the cores, and the thread is joined
\* before anything is deleted.
PassOnWholeObject == \A o \in Objects : pc[o] = "pass" => life[o] = "built"

Alive == {o \in Objects : life[o] \in {"fields", "built"}}

\* "the only object of this class": there are two at a time only if some signal
\* was untimely.
OneScheduler == Cardinality(Alive) <= 1 \/ untimely

\* A handler never writes through NULL or into a deleted scheduler, unless some
\* signal was untimely: no signal thread is left when the object is deleted.
HandlersFindObject == wild => untimely

\* No thread sleeps over its flag: every command delivered is acted on without
\* waiting for the next one, unless some signal was untimely (the handler may
\* then run on one object's thread and write into another).
NoCommandStuck == \A o \in Objects : pc[o] = "suspended" /\ receivedSignal[o] => untimely

\* singleton() and deleteSingleton() return, unless some signal was untimely.
CallsReturn == pc[Main] # "idle" ~> pc[Main] = "idle" \/ untimely

=============================================================================
