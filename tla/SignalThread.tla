---------------------------- MODULE SignalThread ----------------------------
(***************************************************************************)
(* The signal thread of MaleableScheduler                                   *)
(* (malms/threadpool/maleablescheduler.h): realtime signals tell it which   *)
(* cores are blocked, sighandler writes that into new_availableCores, and   *)
(* the loop of signalthreadfunction carries it over into availableCores,    *)
(* one core per step.                                                       *)
(*                                                                          *)
(* The thread blocks every signal except inside sigsuspend, so the handler  *)
(* never runs in the middle of the loop, and one sigsuspend delivers one    *)
(* signal.  The kernel and the sending processes are external: pending      *)
(* realtime signals are kept in order per signal number, and of two numbers *)
(* the lower one, SIGBLOCKCORE, is delivered first.                         *)
(***************************************************************************)
EXTENDS Integers, Sequences, Functions

CONSTANTS
  p,           \* number of pinned threads, cores 0 .. p-1
  MaxSignals,  \* bound: signals the controller sends in a behaviour
  InFlight     \* bound: signals the controller lets be undelivered at a time

ASSUME SignalThreadAssumption ==
  /\ p \in Nat \ {0}
  /\ MaxSignals \in Nat
  /\ InFlight \in Nat

Cores == 0 .. p - 1

\* The numbers a signal may carry: p stands for every one that is too large, -1
\* for every negative one.
Numbers == -1 .. p

VARIABLES
  new_availableCores,  \* what the handler was told, cell by cell
  availableCores,      \* what the scheduler and the pool threads act on
  receivedSignal,
  receivedStopSignal,
  spc,                 \* the thread: in sigsuspend, past it, in the loop, gone
  scan,                \* the loop variable i
  pendingBlock,        \* SIGBLOCKCOREs sent and not delivered
  pendingUnblock,      \* SIGUNBLOCKCOREs sent and not delivered
  pendingStop,         \* SIGSTOPSIGNALTHREAD sent and not delivered
  command,             \* history: command[i] is FALSE iff i was last told to block
  overtaken,           \* history: cores whose last command was a block sent
                       \* while an unblock for the core was pending
  sent                 \* history: number of signals sent

viewVars == <<new_availableCores, availableCores>>
flagVars == <<receivedSignal, receivedStopSignal>>
pendingVars == <<pendingBlock, pendingUnblock, pendingStop>>
senderVars == <<command, overtaken, sent>>
vars == <<new_availableCores, availableCores, receivedSignal, receivedStopSignal,
          spc, scan, pendingBlock, pendingUnblock, pendingStop, command,
          overtaken, sent>>

SignalPC == {"suspended", "delivered", "scan", "stopped"}

Init ==
  /\ new_availableCores = [i \in Cores |-> TRUE]
  /\ availableCores = [i \in Cores |-> TRUE]
  /\ receivedSignal = FALSE
  /\ receivedStopSignal = FALSE
  /\ spc = "suspended"
  /\ scan = 0
  /\ pendingBlock = <<>>
  /\ pendingUnblock = <<>>
  /\ pendingStop = FALSE
  /\ command = [i \in Cores |-> TRUE]
  /\ overtaken = {}
  /\ sent = 0

-----------------------------------------------------------------------------
(* The controlling process (sendblockcore, dynloadcores) and the kernel.    *)

Room == Len(pendingBlock) + Len(pendingUnblock) < InFlight

MaySend ==
  /\ sent < MaxSignals
  /\ Room
  /\ sent' = sent + 1

SendBlock(i) ==
  /\ pendingBlock' = Append(pendingBlock, i)
  /\ command' = [k \in Cores |-> IF k = i THEN FALSE ELSE command[k]]
  /\ overtaken' = IF i \in Range(pendingUnblock) THEN overtaken \cup {i} ELSE overtaken \ {i}
  /\ UNCHANGED <<viewVars, flagVars, spc, scan, pendingUnblock, pendingStop>>

SendUnblock(i) ==
  /\ pendingUnblock' = Append(pendingUnblock, i)
  /\ command' = [k \in Cores |-> IF k = i THEN TRUE ELSE command[k]]
  /\ overtaken' = overtaken \ {i}
  /\ UNCHANGED <<viewVars, flagVars, spc, scan, pendingBlock, pendingStop>>

\* The destructor's pthread_kill, the only sender of SIGSTOPSIGNALTHREAD.
SendStop ==
  /\ ~pendingStop
  /\ pendingStop' = TRUE
  /\ UNCHANGED <<viewVars, flagVars, spc, scan, pendingBlock, pendingUnblock, senderVars>>

-----------------------------------------------------------------------------
(* sighandler, run by the signal thread inside sigsuspend.                  *)

\* As long as only cells of the array have been written.  What the process does
\* after any other write is undefined, and no longer followed.
InBounds == DOMAIN new_availableCores = Cores

\* One cell becomes what the signal says, wherever it lies.
Write(i, available) ==
  new_availableCores' = [k \in DOMAIN new_availableCores \cup {i} |->
                           IF k = i THEN available ELSE new_availableCores[k]]

\* Faulty variants: the core number is not compared with p, and the unblock
\* branch does not set receivedSignal.
ToldUnchecked(i, available) == Write(i, available) /\ receivedSignal' = TRUE

ToldBlocksOnly(i, available) ==
  /\ IF i < p THEN Write(i, available) ELSE UNCHANGED new_availableCores
  /\ receivedSignal' = (receivedSignal \/ (i < p /\ ~available))

\* The number is compared with p only: a negative one is written in front of the
\* array.
Told(i, available) ==
  /\ IF i < p THEN Write(i, available) ELSE UNCHANGED new_availableCores
  /\ receivedSignal' = (receivedSignal \/ i < p)

\* Faulty variant: sigsuspend's mask keeps SIGBLOCKCORE out.
HandleBlockMasked ==
  /\ FALSE
  /\ UNCHANGED vars

HandleBlock ==
  /\ spc = "suspended"
  /\ pendingBlock # <<>>
  /\ Told(Head(pendingBlock), FALSE)
  /\ pendingBlock' = Tail(pendingBlock)
  /\ spc' = "delivered"
  /\ UNCHANGED <<availableCores, receivedStopSignal, scan, pendingUnblock,
                 pendingStop, senderVars>>

HandleUnblock ==
  /\ spc = "suspended"
  /\ pendingBlock = <<>>
  /\ pendingUnblock # <<>>
  /\ Told(Head(pendingUnblock), TRUE)
  /\ pendingUnblock' = Tail(pendingUnblock)
  /\ spc' = "delivered"
  /\ UNCHANGED <<availableCores, receivedStopSignal, scan, pendingBlock,
                 pendingStop, senderVars>>

\* Directed at the thread, the others at the process: in no fixed order.
HandleStop ==
  /\ spc = "suspended"
  /\ pendingStop
  /\ receivedStopSignal' = TRUE
  /\ pendingStop' = FALSE
  /\ spc' = "delivered"
  /\ UNCHANGED <<viewVars, receivedSignal, scan, pendingBlock, pendingUnblock, senderVars>>

-----------------------------------------------------------------------------
(* signalthreadfunction, from the return of sigsuspend to the next one.     *)

Leave ==
  /\ spc = "delivered"
  /\ receivedStopSignal
  /\ spc' = "stopped"
  /\ UNCHANGED <<viewVars, flagVars, scan, pendingVars, senderVars>>

StartScan ==
  /\ spc = "delivered"
  /\ ~receivedStopSignal
  /\ receivedSignal
  /\ receivedSignal' = FALSE
  /\ scan' = 0
  /\ spc' = "scan"
  /\ UNCHANGED <<viewVars, receivedStopSignal, pendingVars, senderVars>>

SuspendAgain ==
  /\ spc = "delivered"
  /\ ~receivedStopSignal
  /\ ~receivedSignal
  /\ spc' = "suspended"
  /\ UNCHANGED <<viewVars, flagVars, scan, pendingVars, senderVars>>

\* Faulty variant: the loop ends one core early.
NextCoreShort ==
  /\ scan' = scan + 1
  /\ spc' = IF scan + 1 < p - 1 THEN "scan" ELSE "suspended"
  /\ UNCHANGED <<new_availableCores, flagVars, pendingVars, senderVars>>

NextCore ==
  /\ scan' = scan + 1
  /\ spc' = IF scan + 1 < p THEN "scan" ELSE "suspended"
  /\ UNCHANGED <<new_availableCores, flagVars, pendingVars, senderVars>>

\* The core is unblocked; the lock and the notification the code does here
\* concern the pool thread and are added by MaleableScheduler.
ScanUnblock ==
  /\ spc = "scan"
  /\ ~availableCores[scan] /\ new_availableCores[scan]
  /\ availableCores' = [availableCores EXCEPT ![scan] = TRUE]
  /\ NextCore

ScanBlock ==
  /\ spc = "scan"
  /\ availableCores[scan] /\ ~new_availableCores[scan]
  /\ availableCores' = [availableCores EXCEPT ![scan] = FALSE]
  /\ NextCore

ScanSame ==
  /\ spc = "scan"
  /\ availableCores[scan] = new_availableCores[scan]
  /\ NextCore
  /\ UNCHANGED availableCores

-----------------------------------------------------------------------------

ThreadStep ==
  \/ HandleBlock
  \/ HandleUnblock
  \/ HandleStop
  \/ Leave
  \/ StartScan
  \/ SuspendAgain
  \/ ScanUnblock
  \/ ScanBlock
  \/ ScanSame

Sender == MaySend /\ \E i \in Numbers : SendBlock(i) \/ SendUnblock(i)

Next == InBounds /\ (ThreadStep \/ Sender \/ (~receivedStopSignal /\ SendStop))

Spec == Init /\ [][Next]_vars

-----------------------------------------------------------------------------
(* Properties. *)

TypeOK ==
  /\ new_availableCores \in [Cores -> BOOLEAN] \cup [Cores \cup {-1} -> BOOLEAN]
  /\ availableCores \in [Cores -> BOOLEAN]
  /\ receivedSignal \in BOOLEAN
  /\ receivedStopSignal \in BOOLEAN
  /\ spc \in SignalPC
  /\ scan \in 0 .. p
  /\ pendingBlock \in Seq(Numbers)
  /\ pendingUnblock \in Seq(Numbers)
  /\ pendingStop \in BOOLEAN
  /\ command \in [Cores -> BOOLEAN]
  /\ overtaken \in SUBSET Numbers
  /\ sent \in 0 .. MaxSignals

Quiet == spc = "suspended" /\ pendingBlock = <<>> /\ pendingUnblock = <<>>

\* Whenever the thread is back in sigsuspend the pool threads see what the
\* handler was told, for every core; the loop leaves nothing to a later signal
\* that may never come.
ViewSettled == spc = "suspended" => availableCores = new_availableCores

\* "telling it which cores are enabled and disabled": when every signal has
\* been handled each core is as the controller last said, with one exception
\* and always that one: a block sent while an unblock of the same core was
\* still pending is delivered before it, and the core stays available.
CommandsHold ==
  Quiet => \A i \in Cores : availableCores[i] <=> command[i] \/ i \in overtaken

=============================================================================
