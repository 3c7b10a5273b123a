----------------------------- MODULE DynLoadCores -----------------------------
(***************************************************************************)
(* The benchmark driver timing/dynloadcores.cpp: one load thread per core,  *)
(* a control thread that loads and unloads cores in a fixed pattern and     *)
(* tells the sorting process about it, and the main thread that forks the   *)
(* sorting process (timing/timesortfile.cpp), waits for it and joins all.   *)
(*                                                                          *)
(* The critical sections under thread_mutex[i] contain no other blocking    *)
(* call than the wait that gives the mutex back, so each is one step; the   *)
(* atomics read or written outside of them are steps of their own.          *)
(***************************************************************************)
EXTENDS Integers, Sequences, FiniteSets

CONSTANTS
  p,             \* boost::thread::hardware_concurrency()
  load_pattern,  \* command line: 1, 2 or 3
  send_info,     \* command line: info or noinfo
  Spurious       \* whether condition variables may wake up unnotified

Cores == 0 .. p - 1

ASSUME DynLoadCoresAssumption ==
  /\ load_pattern \in 1 .. 3
  /\ send_info \in BOOLEAN
  /\ Spurious \in BOOLEAN
  /\ p \in Nat /\ p >= (IF load_pattern = 1 THEN 3 ELSE 8)

NoPid == 0  \* what pidofsort is initialised to
Child == 1  \* the process id fork returns

VARIABLES
  thread_active, thread_quit, numthreads_sleeping, quit, pidofsort,
  tpc,    \* the load threads
  cpc,    \* the control thread
  phase,  \* control: 0 before the loop, else the position in its body
  op,     \* control: the call it has come to in the phase; later the loop index i
  pid,    \* control: its copy of pidofsort
  mpc,    \* the main thread
  spc,    \* the sorting process
  told    \* history: cores the sorting process was last told are blocked

threadVars == <<thread_active, thread_quit, tpc>>
controlVars == <<cpc, phase, op, pid>>
vars == <<thread_active, thread_quit, numthreads_sleeping, quit, pidofsort, tpc,
          cpc, phase, op, pid, mpc, spc, told>>

-----------------------------------------------------------------------------
(* The three load patterns: what is done before the loop, and the body of   *)
(* the loop as the calls between one nanosleep and the next.                *)

load(i) == [call |-> "loadcore", core |-> i]
unload(i) == [call |-> "unloadcore", core |-> i]

Start ==
  CASE load_pattern = 1 -> <<load(1), load(2)>>
    [] load_pattern = 2 -> <<load(0), load(4), load(6)>>
    [] load_pattern = 3 -> <<load(0), load(4)>>

\* Faulty variant: pattern 1 with a core that is not unloaded.
BodyForgets ==
  << <<load(0)>>, <<unload(1)>>, <<load(1), load(2), unload(0)>>, <<>> >>

\* The body for pattern 1 sleeps at both ends: its last phase calls nothing.
Body ==
  CASE load_pattern = 1 ->
         << <<load(0)>>,
            <<unload(1), unload(2)>>,
            <<load(1), load(2), unload(0)>>,
            <<>> >>
    [] load_pattern = 2 ->
         << <<load(2), unload(4)>>,
            <<load(4), unload(6)>>,
            <<load(6), unload(0)>>,
            <<load(0), unload(2)>> >>
    [] load_pattern = 3 ->
         << <<load(1), load(5), unload(0), unload(4)>>,
            <<load(2), load(6), unload(1), unload(5)>>,
            <<load(3), load(7), unload(2), unload(6)>>,
            <<load(0), load(4), unload(3), unload(7)>> >>

Calls == IF phase = 0 THEN Start ELSE Body[phase]

Init ==
  /\ thread_active = [i \in Cores |-> FALSE]
  /\ thread_quit = [i \in Cores |-> FALSE]
  /\ numthreads_sleeping = 0
  /\ quit = FALSE
  /\ pidofsort = NoPid
  /\ tpc = [i \in Cores |-> "created"]
  /\ cpc = "created"
  /\ phase = 0
  /\ op = 1
  /\ pid = NoPid
  /\ mpc = "await"
  /\ spc = "unborn"
  /\ told = {}

-----------------------------------------------------------------------------
(* thread_func.                                                             *)

\* The first wait, which no test precedes.
Ready(i) ==
  /\ tpc[i] = "created"
  /\ numthreads_sleeping' = numthreads_sleeping + 1
  /\ tpc' = [tpc EXCEPT ![i] = "ready"]
  /\ UNCHANGED <<thread_active, thread_quit, quit, pidofsort, controlVars, mpc, spc, told>>

\* The thread at the head of its loop: working or about to wait.
TestActive(i) ==
  /\ tpc[i] = "loop"
  /\ tpc' = [tpc EXCEPT ![i] = IF thread_active[i] THEN "work" ELSE "testquit"]
  /\ UNCHANGED <<thread_active, thread_quit, numthreads_sleeping, quit, pidofsort,
                 controlVars, mpc, spc, told>>

Work(i) ==
  /\ tpc[i] = "work"
  /\ tpc' = [tpc EXCEPT ![i] = "loop"]
  /\ UNCHANGED <<thread_active, thread_quit, numthreads_sleeping, quit, pidofsort,
                 controlVars, mpc, spc, told>>

\* thread_quit is tested before the mutex is taken and after the wait.
TestQuit(i) ==
  /\ tpc[i] \in {"testquit", "retestquit"}
  /\ tpc' = [tpc EXCEPT ![i] =
               CASE thread_quit[i] -> "exited"
                 [] ~thread_quit[i] /\ tpc[i] = "testquit" -> "lock"
                 [] ~thread_quit[i] /\ tpc[i] = "retestquit" -> "loop"]
  /\ UNCHANGED <<thread_active, thread_quit, numthreads_sleeping, quit, pidofsort,
                 controlVars, mpc, spc, told>>

\* Faulty variant: the thread waits without testing thread_active again.
ParkUntested(i) ==
  /\ tpc[i] = "lock"
  /\ tpc' = [tpc EXCEPT ![i] = "asleep"]
  /\ UNCHANGED <<thread_active, thread_quit, numthreads_sleeping, quit, pidofsort,
                 controlVars, mpc, spc, told>>

Park(i) ==
  /\ tpc[i] = "lock"
  /\ tpc' = [tpc EXCEPT ![i] = IF thread_active[i] THEN "retestquit" ELSE "asleep"]
  /\ UNCHANGED <<thread_active, thread_quit, numthreads_sleeping, quit, pidofsort,
                 controlVars, mpc, spc, told>>

\* What thread i does next when its condition variable wakes it.
Awake(i) ==
  CASE tpc[i] = "ready" -> "loop"
    [] tpc[i] = "asleep" -> "retestquit"
    [] OTHER -> tpc[i]

Notify(i) == tpc' = [tpc EXCEPT ![i] = Awake(i)]

SpuriousWake(i) ==
  /\ Spurious
  /\ tpc[i] \in {"ready", "asleep"}
  /\ Notify(i)
  /\ UNCHANGED <<thread_active, thread_quit, numthreads_sleeping, quit, pidofsort,
                 controlVars, mpc, spc, told>>

ThreadStep(i) == Ready(i) \/ TestActive(i) \/ Work(i) \/ TestQuit(i) \/ Park(i)

-----------------------------------------------------------------------------
(* controlthreadfunc.                                                       *)

InstallHandler ==
  /\ cpc = "created"
  /\ cpc' = "armed"
  /\ UNCHANGED <<threadVars, numthreads_sleeping, quit, pidofsort, phase, op, pid, mpc, spc, told>>

Suspend ==
  /\ cpc = "armed"
  /\ cpc' = "suspended"
  /\ UNCHANGED <<threadVars, numthreads_sleeping, quit, pidofsort, phase, op, pid, mpc, spc, told>>

GetPid ==
  /\ cpc = "getpid"
  /\ pid' = pidofsort
  /\ cpc' = "first"
  /\ UNCHANGED <<threadVars, numthreads_sleeping, quit, pidofsort, phase, op, mpc, spc, told>>

\* loadcore and unloadcore have two steps, the send and the change of
\* thread_active, in opposite orders.
Calling(call, step) == cpc = step /\ Calls[op].call = call

NextCall ==
  /\ IF op < Len(Calls) THEN op' = op + 1 /\ cpc' = "first"
                        ELSE op' = 1 /\ cpc' = "nap"
  /\ UNCHANGED <<phase, pid>>

\* A signal to process 0 or to nobody reaches no scheduler.
Tell(S) == told' = IF send_info /\ pid = Child THEN S ELSE told

LoadTells ==
  /\ Calling("loadcore", "first")
  /\ Tell(told \cup {Calls[op].core})
  /\ cpc' = "second"
  /\ UNCHANGED <<threadVars, numthreads_sleeping, quit, pidofsort, phase, op, pid, mpc, spc>>

LoadActivates ==
  /\ Calling("loadcore", "second")
  /\ thread_active' = [thread_active EXCEPT ![Calls[op].core] = TRUE]
  /\ Notify(Calls[op].core)
  /\ NextCall
  /\ UNCHANGED <<thread_quit, numthreads_sleeping, quit, pidofsort, mpc, spc, told>>

\* Faulty variant: unloadcore sends first, as loadcore does.
UnloadDeactivatesLate ==
  /\ Calling("unloadcore", "first")
  /\ Tell(told \ {Calls[op].core})
  /\ cpc' = "second"
  /\ UNCHANGED <<threadVars, numthreads_sleeping, quit, pidofsort, phase, op, pid, mpc, spc>>

UnloadDeactivates ==
  /\ Calling("unloadcore", "first")
  /\ thread_active' = [thread_active EXCEPT ![Calls[op].core] = FALSE]
  /\ cpc' = "second"
  /\ UNCHANGED <<thread_quit, tpc, numthreads_sleeping, quit, pidofsort, phase, op, pid, mpc, spc,
                 told>>

UnloadTells ==
  /\ Calling("unloadcore", "second")
  /\ Tell(told \ {Calls[op].core})
  /\ NextCall
  /\ UNCHANGED <<threadVars, numthreads_sleeping, quit, pidofsort, mpc, spc>>

\* nanosleep returns and quit is tested: on to the next phase of the body, or
\* to the loop that ends the load threads.
NextPhase == (phase % Len(Body)) + 1

Nap ==
  /\ cpc = "nap"
  /\ ~quit
  /\ phase' = NextPhase
  /\ op' = 1
  /\ cpc' = IF Body[NextPhase] = <<>> THEN "nap" ELSE "first"
  /\ UNCHANGED <<threadVars, numthreads_sleeping, quit, pidofsort, pid, mpc, spc, told>>

NapQuit ==
  /\ cpc = "nap"
  /\ quit
  /\ cpc' = "quit"
  /\ op' = 0
  /\ UNCHANGED <<threadVars, numthreads_sleeping, quit, pidofsort, phase, pid, mpc, spc, told>>

SetThreadQuit ==
  /\ cpc = "quit"
  /\ thread_quit' = [thread_quit EXCEPT ![op] = TRUE]
  /\ cpc' = "wake"
  /\ UNCHANGED <<thread_active, tpc, numthreads_sleeping, quit, pidofsort, phase, op, pid, mpc, spc,
                 told>>

NextQuit ==
  /\ op' = op + 1
  /\ cpc' = IF op + 1 < p THEN "quit" ELSE "ended"
  /\ UNCHANGED <<phase, pid>>

EndLoad ==
  /\ cpc = "wake"
  /\ thread_active[op]
  /\ thread_active' = [thread_active EXCEPT ![op] = FALSE]
  /\ NextQuit
  /\ UNCHANGED <<thread_quit, tpc, numthreads_sleeping, quit, pidofsort, mpc, spc, told>>

WakeToQuit ==
  /\ cpc = "wake"
  /\ ~thread_active[op]
  /\ Notify(op)
  /\ NextQuit
  /\ UNCHANGED <<thread_active, thread_quit, numthreads_sleeping, quit, pidofsort, mpc, spc, told>>

ControlStep ==
  \/ InstallHandler \/ Suspend \/ GetPid
  \/ LoadTells \/ LoadActivates \/ UnloadDeactivates \/ UnloadTells
  \/ Nap \/ NapQuit \/ SetThreadQuit \/ EndLoad \/ WakeToQuit

-----------------------------------------------------------------------------
(* main, and the sorting process it forks.                                  *)

\* Faulty variant: the last thread is not waited for.
AwaitThreadsButOne ==
  /\ mpc = "await"
  /\ numthreads_sleeping >= p - 1
  /\ mpc' = "fork"
  /\ UNCHANGED <<threadVars, numthreads_sleeping, quit, pidofsort, controlVars, spc, told>>

AwaitThreads ==
  /\ mpc = "await"
  /\ numthreads_sleeping >= p
  /\ mpc' = "fork"
  /\ UNCHANGED <<threadVars, numthreads_sleeping, quit, pidofsort, controlVars, spc, told>>

Fork ==
  /\ mpc = "fork"
  /\ spc' = "running"
  /\ mpc' = "setpid"
  /\ UNCHANGED <<threadVars, numthreads_sleeping, quit, pidofsort, controlVars, told>>

SetPid ==
  /\ mpc = "setpid"
  /\ pidofsort' = Child
  /\ mpc' = "waitpid"
  /\ UNCHANGED <<threadVars, numthreads_sleeping, quit, controlVars, spc, told>>

WaitPid ==
  /\ mpc = "waitpid"
  /\ spc = "exited"
  /\ quit' = TRUE
  /\ mpc' = "join"
  /\ UNCHANGED <<threadVars, numthreads_sleeping, pidofsort, controlVars, spc, told>>

Join ==
  /\ mpc = "join"
  /\ \A i \in Cores : tpc[i] = "exited"
  /\ cpc = "ended"
  /\ mpc' = "returned"
  /\ UNCHANGED <<threadVars, numthreads_sleeping, quit, pidofsort, controlVars, spc, told>>

MainStep == AwaitThreads \/ Fork \/ SetPid \/ WaitPid \/ Join

\* timesortfile has read its input and sends SIGSTARTBLOCKCORES, which only the
\* control thread does not block: it ends the driver if no handler is there
\* yet, and is lost if the thread is not in sigsuspend yet.
SortSignals ==
  /\ spc = "running"
  /\ spc' = "sorting"
  /\ cpc' = IF cpc = "suspended" THEN "getpid" ELSE cpc
  /\ mpc' = IF cpc = "created" THEN "killed" ELSE mpc
  /\ UNCHANGED <<threadVars, numthreads_sleeping, quit, pidofsort, phase, op, pid, told>>

\* It also ends without having sent anything: the input cannot be opened, or
\* execv fails.
SortExits ==
  /\ spc \in {"running", "sorting"}
  /\ spc' = "exited"
  /\ UNCHANGED <<threadVars, numthreads_sleeping, quit, pidofsort, controlVars, mpc, told>>

-----------------------------------------------------------------------------

Next ==
  /\ mpc # "killed"
  /\ \/ \E i \in Cores : ThreadStep(i) \/ SpuriousWake(i)
     \/ ControlStep
     \/ MainStep
     \/ SortSignals
     \/ SortExits

Spec == Init /\ [][Next]_vars

\* Every thread that can run is run, and the sorting process comes to an end.
Fairness ==
  /\ \A i \in Cores : WF_vars(mpc # "killed" /\ ThreadStep(i))
  /\ WF_vars(mpc # "killed" /\ ControlStep)
  /\ WF_vars(mpc # "killed" /\ MainStep)
  /\ WF_vars(mpc # "killed" /\ SortExits)

FairSpec == Spec /\ Fairness

-----------------------------------------------------------------------------
(* Properties. *)

Loaded == {i \in Cores : thread_active[i]}
Informed == send_info /\ pid = Child

TypeOK ==
  /\ thread_active \in [Cores -> BOOLEAN]
  /\ thread_quit \in [Cores -> BOOLEAN]
  /\ numthreads_sleeping \in 0 .. p
  /\ quit \in BOOLEAN
  /\ pidofsort \in {NoPid, Child}
  /\ tpc \in [Cores -> {"created", "ready", "loop", "work", "testquit", "lock", "asleep",
                        "retestquit", "exited"}]
  /\ cpc \in {"created", "armed", "suspended", "getpid", "first", "second", "nap", "quit",
              "wake", "ended"}
  /\ phase \in 0 .. Len(Body)
  /\ op \in 0 .. p
  /\ pid \in {NoPid, Child}
  /\ mpc \in {"await", "fork", "setpid", "waitpid", "join", "returned", "killed"}
  /\ spc \in {"unborn", "running", "sorting", "exited"}
  /\ told \in SUBSET Cores

\* The diagrams in the comments of controlthreadfunc, row by row.
Diagram ==
  CASE load_pattern = 1 -> << {1, 2}, {0, 1, 2}, {0}, {1, 2} >>
    [] load_pattern = 2 -> << {0, 4, 6}, {0, 2, 6}, {0, 2, 4}, {2, 4, 6} >>
    [] load_pattern = 3 -> << {0, 4}, {1, 5}, {2, 6}, {3, 7} >>

\* While the control thread sleeps, the loaded cores are those of the row of
\* the pattern's diagram, and an informed sorting process has been told exactly
\* that.
NapShowsPattern ==
  cpc = "nap" =>
    /\ Loaded = Diagram[(phase % Len(Diagram)) + 1]
    /\ Informed => told = Loaded

\* At no instant is a core loaded that the scheduler of an informed sorting
\* process believes to be available: the block is sent before the load starts
\* and the unblock after it has been told to stop.
LoadIsAnnounced == Informed => Loaded \subseteq told

\* No load thread sleeps, or is on its way to a wait that nothing precedes, on
\* a core that is to be loaded: main starts the sorting process only when all
\* threads are in their first wait, and the second test of thread_active, under
\* the mutex, catches a loadcore between the first test and the wait.
LoadedIsAwake ==
  \A i \in Cores : tpc[i] \in {"created", "ready", "asleep"} => ~thread_active[i]

\* Once the control thread has been started by the signal, main returns, except
\* when a load thread tested thread_quit before it was set and fell asleep
\* after the notification.
QuitReturns ==
  mpc = "join" /\ cpc \notin {"created", "armed", "suspended"} ~>
    mpc = "returned" \/ \E i \in Cores : tpc[i] = "asleep" /\ thread_quit[i] /\ cpc = "ended"

\* "quit working threads, has to be done here to prevent deadlock": when the
\* control thread has done it, the joins in main return.
QuitPreventsDeadlock == cpc = "ended" ~> mpc = "returned"

=============================================================================
