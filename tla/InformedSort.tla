----------------------------- MODULE InformedSort -----------------------------
(***************************************************************************)
(* A timing session: the driver (DynLoadCores) loads cores and tells the    *)
(* sorting process (timing/timesortfile.cpp) so, whose signal thread        *)
(* (SignalThread) makes the cores unavailable, while a user may run         *)
(* utils/sendblockcore.cpp on the same process.                             *)
(*                                                                          *)
(* Of the load threads only the start is kept: once they are in their first *)
(* wait neither the control thread nor the sorting process depends on them. *)
(***************************************************************************)
EXTENDS SignalThread

CONSTANTS load_pattern, send_info, Spurious  \* DynLoadCores.tla

ASSUME DriverAssumption ==
  /\ load_pattern \in 1 .. 3
  /\ send_info \in BOOLEAN
  /\ Spurious \in BOOLEAN
  /\ p \in Nat /\ p >= (IF load_pattern = 1 THEN 3 ELSE 8)

VARIABLES
  algorithm,   \* -a: "malms", or "other" for those that know no scheduler
  constructed, \* timesortfile has its scheduler
  fatal,       \* history: who sent the signal that ended a process without one
  thread_active, thread_quit, numthreads_sleeping, quit, pidofsort, tpc,
  cpc, phase, op, pid, mpc, sortpc, told  \* DynLoadCores.tla

driverVars == <<thread_active, thread_quit, numthreads_sleeping, quit, pidofsort, tpc,
                cpc, phase, op, pid, mpc, sortpc, told>>
processVars == <<algorithm, constructed, fatal>>
sessionVars == <<vars, processVars, driverVars>>

DL == INSTANCE DynLoadCores WITH spc <- sortpc

InitSession ==
  /\ Init
  /\ DL!Init
  /\ algorithm \in {"malms", "other"}
  /\ constructed = FALSE
  /\ fatal = "nobody"

-----------------------------------------------------------------------------
(* sigqueue, as its receiver sees it.                                       *)

Alive == sortpc \in {"running", "sorting"} /\ fatal = "nobody" /\ InBounds

Receives(sender, command_) ==
  /\ fatal' = IF Alive /\ ~constructed THEN sender ELSE fatal
  /\ IF Alive /\ constructed THEN command_ ELSE UNCHANGED vars
  /\ UNCHANGED <<algorithm, constructed>>

-----------------------------------------------------------------------------
(* timesortfile.                                                            *)

\* singleton(), newJob and the schedule.
Construct ==
  /\ sortpc = "running"
  /\ algorithm = "malms"
  /\ ~constructed
  /\ constructed' = TRUE
  /\ UNCHANGED <<vars, algorithm, fatal, driverVars>>

\* Faulty variant: the start signal is sent before the scheduler is there.
StartAtOnce == TRUE

\* The start signal is sent when preparation is done.
Prepared == algorithm = "malms" => constructed

StartDriver ==
  /\ Prepared
  /\ fatal = "nobody"
  /\ DL!SortSignals
  /\ UNCHANGED <<vars, processVars>>

SignalThreadRuns ==
  /\ Alive
  /\ constructed
  /\ ThreadStep
  /\ UNCHANGED <<processVars, driverVars>>

-----------------------------------------------------------------------------
(* The driver and sendblockcore.                                            *)

LoadTellsSort ==
  /\ DL!LoadTells
  /\ IF send_info /\ pid = DL!Child
     THEN Receives("driver", Room /\ SendBlock(DL!Calls[op].core) /\ UNCHANGED sent)
     ELSE UNCHANGED <<vars, processVars>>

\* Faulty variant: unloadcore sends SIGBLOCKCORE.
UnloadTellsBlock ==
  /\ DL!UnloadTells
  /\ IF send_info /\ pid = DL!Child
     THEN Receives("driver", Room /\ SendBlock(DL!Calls[op].core) /\ UNCHANGED sent)
     ELSE UNCHANGED <<vars, processVars>>

UnloadTellsSort ==
  /\ DL!UnloadTells
  /\ IF send_info /\ pid = DL!Child
     THEN Receives("driver", Room /\ SendUnblock(DL!Calls[op].core) /\ UNCHANGED sent)
     ELSE UNCHANGED <<vars, processVars>>

OtherDriverStep ==
  /\ \/ \E i \in Cores : DL!Ready(i)
     \/ DL!InstallHandler \/ DL!Suspend \/ DL!GetPid \/ DL!LoadActivates \/ DL!UnloadDeactivates
     \/ DL!Nap \/ DL!NapQuit \/ DL!SetThreadQuit \/ DL!EndLoad \/ DL!WakeToQuit
     \/ DL!AwaitThreads \/ DL!Fork \/ DL!SetPid \/ DL!WaitPid
     \/ DL!SortExits
  /\ UNCHANGED <<vars, processVars>>

\* One core of sendblockcore's list.  Core 0 is refused with the usage: atoi
\* returns 0 for what is not a number, too.  Nothing else is refused.
SendBlockCore ==
  /\ Alive
  /\ \E i \in Numbers \ {0} :
       Receives("user", MaySend /\ (SendBlock(i) \/ SendUnblock(i)))
  /\ UNCHANGED driverVars

-----------------------------------------------------------------------------

NextSession ==
  \/ Construct \/ SignalThreadRuns \/ SendBlockCore
  \/ /\ mpc # "killed"
     /\ StartDriver \/ LoadTellsSort \/ UnloadTellsSort \/ OtherDriverStep

SpecSession == InitSession /\ [][NextSession]_sessionVars

\* The operating system runs the signal thread and delivers pending signals.
FairSession == SpecSession /\ WF_sessionVars(SignalThreadRuns)

-----------------------------------------------------------------------------
(* Properties. *)

\* The driver's commands never lead the handler outside its array: that takes
\* sendblockcore, and then it is the cell in front.
SessionTypeOK ==
  /\ TypeOK
  /\ sent = 0 => InBounds
  /\ DL!TypeOK
  /\ algorithm \in {"malms", "other"}
  /\ constructed \in BOOLEAN
  /\ fatal \in {"nobody", "driver", "user"}

\* A driver that informs a process sorting with MALMS never ends it: its first
\* signal comes after the scheduler has blocked the signals, since timesortfile
\* sends the start signal with its scheduler in place.  (With any other
\* algorithm `info' ends the process: nobody catches the signals.)
DriverSparesSort == fatal = "driver" => algorithm # "malms"

\* While the control thread sleeps and the signals are through, the cores the
\* pool leaves alone are the loaded ones, as long as no user meddles.  A core
\* that was loaded again before its unblock had been delivered is the exception.
LoadedCoresAreLeft ==
  cpc = "nap" /\ DL!Informed /\ Alive /\ Quiet /\ sent = 0 =>
    \A i \in Cores : availableCores[i] <=> i \notin DL!Loaded \/ i \in overtaken

\* A core that has been blocked is left by the pool eventually, whatever the
\* driver keeps sending about other cores, unless it is unblocked first or a
\* negative number has led the handler outside its array.
BlockTakesEffect ==
  \A i \in Cores :
    ~command[i] ~> ~availableCores[i] \/ command[i] \/ i \in overtaken \/ ~Alive

=============================================================================
