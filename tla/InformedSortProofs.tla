-------------------------- MODULE InformedSortProofs --------------------------
(***************************************************************************)
(* Proofs about SignalThread for every number of cores and of signals, and  *)
(* about InformedSort for every number of cores that has room for the       *)
(* pattern, all three patterns, and any number of signals of the user.      *)
(*                                                                          *)
(* Inv ties the view of the pool threads to the position in the loop of the *)
(* signal thread, and what the controller said last to the queues of        *)
(* pending signals.  The driver of a session is the driver of DynLoadCores, *)
(* so that what is proved there holds here; what the driver sends keeps Inv,*)
(* because the cores it names are cores there are.                          *)
(***************************************************************************)
EXTENDS InformedSort, TLAPS

DLP == INSTANCE DynLoadCoresProofs WITH spc <- sortpc

USE SignalThreadAssumption, DriverAssumption

-----------------------------------------------------------------------------
(* The signal thread. *)

\* What the thread and the kernel keep; the senders' counter is apart.
Types ==
  /\ new_availableCores \in [Cores -> BOOLEAN] \cup [Cores \cup {-1} -> BOOLEAN]
  /\ availableCores \in [Cores -> BOOLEAN]
  /\ receivedSignal \in BOOLEAN
  /\ receivedStopSignal \in BOOLEAN
  /\ spc \in SignalPC
  /\ scan \in 0 .. p
  /\ pendingBlock \in Seq(Numbers)
  /\ pendingUnblock \in Seq(Numbers)
  /\ pendingStop \in BOOLEAN
  /\ command \in [Cores -> BOOLEAN]
  /\ overtaken \in SUBSET Numbers

\* The cores whose turn in the loop is over, or will not come before the next
\* signal, are as the handler was told.
ViewInv ==
  /\ spc = "suspended" => availableCores = new_availableCores
  /\ spc = "delivered" /\ ~receivedSignal => availableCores = new_availableCores
  /\ spc = "scan" =>
       /\ scan \in Cores
       /\ \A k \in Cores : k < scan => availableCores[k] = new_availableCores[k]

\* Whether core i is available once all pending signals have been delivered.
Outcome(i) ==
  \/ i \in Range(pendingUnblock)
  \/ i \notin Range(pendingBlock) /\ new_availableCores[i]

Owed == \A i \in Cores : Outcome(i) <=> command[i] \/ i \in overtaken

Inv == Types /\ ViewInv /\ Owed

-----------------------------------------------------------------------------
(* Queues of pending signals. *)

LEMMA RangeOfAppend ==
  ASSUME NEW S, NEW s \in Seq(S), NEW e \in S
  PROVE  /\ Append(s, e) \in Seq(S)
         /\ Range(Append(s, e)) = Range(s) \cup {e}
<1>1. /\ Append(s, e) \in Seq(S)
      /\ DOMAIN Append(s, e) = 1 .. Len(s) + 1
      /\ \A k \in 1 .. Len(s) : Append(s, e)[k] = s[k]
      /\ Append(s, e)[Len(s) + 1] = e
      /\ DOMAIN s = 1 .. Len(s) /\ Len(s) \in Nat
  OBVIOUS
<1>2. ASSUME NEW x \in Range(Append(s, e)) PROVE x \in Range(s) \cup {e}
  <2>1. PICK k \in 1 .. Len(s) + 1 : x = Append(s, e)[k]
    BY <1>1 DEF Range
  <2> QED BY <1>1, <2>1 DEF Range
<1>3. ASSUME NEW x \in Range(s) PROVE x \in Range(Append(s, e))
  <2>1. PICK k \in 1 .. Len(s) : x = s[k]
    BY <1>1 DEF Range
  <2> QED BY <1>1, <2>1 DEF Range
<1>4. e \in Range(Append(s, e))
  BY <1>1 DEF Range
<1> QED BY <1>1, <1>2, <1>3, <1>4

LEMMA RangeOfTail ==
  ASSUME NEW S, NEW s \in Seq(S), s # <<>>
  PROVE  /\ Head(s) \in S
         /\ Tail(s) \in Seq(S)
         /\ Range(s) = Range(Tail(s)) \cup {Head(s)}
<1>1. /\ Head(s) \in S /\ Head(s) = s[1]
      /\ Tail(s) \in Seq(S)
      /\ DOMAIN Tail(s) = 1 .. Len(s) - 1
      /\ \A k \in 1 .. Len(s) - 1 : Tail(s)[k] = s[k + 1]
      /\ DOMAIN s = 1 .. Len(s) /\ Len(s) \in Nat \ {0}
  OBVIOUS
<1>2. ASSUME NEW x \in Range(s) PROVE x \in Range(Tail(s)) \cup {Head(s)}
  <2>1. PICK k \in 1 .. Len(s) : x = s[k]
    BY <1>1 DEF Range
  <2>2. CASE k = 1
    BY <1>1, <2>1, <2>2
  <2>3. CASE k # 1
    <3>1. k - 1 \in 1 .. Len(s) - 1 /\ Tail(s)[k - 1] = s[k]
      BY <1>1, <2>1, <2>3
    <3> QED BY <1>1, <2>1, <3>1 DEF Range
  <2> QED BY <2>2, <2>3
<1>3. ASSUME NEW x \in Range(Tail(s)) PROVE x \in Range(s)
  <2>1. PICK k \in 1 .. Len(s) - 1 : x = Tail(s)[k]
    BY <1>1 DEF Range
  <2>2. k + 1 \in 1 .. Len(s) /\ x = s[k + 1]
    BY <1>1, <2>1
  <2> QED BY <1>1, <2>2 DEF Range
<1>4. Head(s) \in Range(s)
  BY <1>1 DEF Range
<1> QED BY <1>1, <1>2, <1>3, <1>4

-----------------------------------------------------------------------------
(* The invariant. *)

LEMMA InvInit == Init => Inv
<1> SUFFICES ASSUME Init PROVE Inv
  OBVIOUS
<1>1. Types
  BY DEF Init, Types, SignalPC, Cores
<1>2. ViewInv
  BY DEF Init, ViewInv
<1>3. Range(<<>>) = {}
  BY DEF Range
<1>4. Owed
  BY <1>3 DEF Init, Owed, Outcome
<1> QED BY <1>1, <1>2, <1>4 DEF Inv

LEMMA InvSendBlock == ASSUME Inv, NEW i \in Numbers, SendBlock(i) PROVE Inv'
<1> USE DEF Inv
<1>1. Types'
  BY RangeOfAppend DEF SendBlock, Types, Cores, viewVars, flagVars
<1>2. ViewInv'
  BY DEF SendBlock, ViewInv, viewVars, flagVars
<1>3. Range(pendingBlock)' = Range(pendingBlock) \cup {i}
  <2>1. pendingBlock' = Append(pendingBlock, i) /\ pendingBlock \in Seq(Numbers)
    BY DEF SendBlock, Types
  <2>2. Range(Append(pendingBlock, i)) = Range(pendingBlock) \cup {i}
    BY <2>1, RangeOfAppend
  <2> QED BY <2>1, <2>2
<1>4. Owed'
  BY <1>3 DEF SendBlock, Owed, Outcome, Types, viewVars
<1> QED BY <1>1, <1>2, <1>4

LEMMA InvSendUnblock == ASSUME Inv, NEW i \in Numbers, SendUnblock(i) PROVE Inv'
<1> USE DEF Inv
<1>1. Types'
  BY RangeOfAppend DEF SendUnblock, Types, Cores, viewVars, flagVars
<1>2. ViewInv'
  BY DEF SendUnblock, ViewInv, viewVars, flagVars
<1>3. Range(pendingUnblock)' = Range(pendingUnblock) \cup {i}
  <2>1. pendingUnblock' = Append(pendingUnblock, i) /\ pendingUnblock \in Seq(Numbers)
    BY DEF SendUnblock, Types
  <2>2. Range(Append(pendingUnblock, i)) = Range(pendingUnblock) \cup {i}
    BY <2>1, RangeOfAppend
  <2> QED BY <2>1, <2>2
<1>4. Owed'
  BY <1>3 DEF SendUnblock, Owed, Outcome, Types, viewVars
<1> QED BY <1>1, <1>2, <1>4

LEMMA InvSendStop == Inv /\ SendStop => Inv'
BY DEF Inv, Types, ViewInv, Owed, Outcome, SendStop, viewVars, flagVars, senderVars

\* The handler changes what it was told only together with receivedSignal.
LEMMA ToldOne ==
  ASSUME Types, NEW i \in Numbers, NEW b \in BOOLEAN, Told(i, b)
  PROVE  /\ new_availableCores' \in [Cores -> BOOLEAN] \cup [Cores \cup {-1} -> BOOLEAN]
         /\ receivedSignal' \in BOOLEAN
         /\ \A k \in Cores : new_availableCores'[k] =
                               IF k = i THEN b ELSE new_availableCores[k]
         /\ ~receivedSignal' => ~receivedSignal /\ new_availableCores' = new_availableCores
         /\ InBounds /\ i # -1 => InBounds'
<1> DEFINE D == DOMAIN new_availableCores
<1>1. /\ D \in {Cores, Cores \cup {-1}} /\ new_availableCores \in [D -> BOOLEAN]
      /\ receivedSignal \in BOOLEAN
      /\ receivedSignal' = (receivedSignal \/ i < p)
  BY DEF Told, Types
<1>2. receivedSignal' \in BOOLEAN /\ (~receivedSignal' => ~receivedSignal /\ ~(i < p))
  BY <1>1, Zenon
<1>3. i < p => i \in Cores \cup {-1}
  BY DEF Cores, Numbers
<1>4. ~(i < p) => i \notin Cores
  BY DEF Cores
<1>5. CASE i < p
  <2>1. new_availableCores' = [k \in D \cup {i} |-> IF k = i THEN b ELSE new_availableCores[k]]
    BY <1>5 DEF Told, Write
  <2>2. D \cup {i} \in {Cores, Cores \cup {-1}}
    BY <1>1, <1>3, <1>5
  <2>3. InBounds /\ i # -1 => D \cup {i} = Cores
    BY <1>3, <1>5 DEF InBounds
  <2>4. new_availableCores' \in [D \cup {i} -> BOOLEAN]
    BY <1>1, <2>1
  <2>5. InBounds /\ i # -1 => InBounds'
    BY <2>1, <2>3 DEF InBounds
  <2>6. \A k \in Cores : k \in D
    BY <1>1
  <2> HIDE DEF D
  <2>7. \A k \in Cores : new_availableCores'[k] = IF k = i THEN b ELSE new_availableCores[k]
    BY <2>1, <2>6
  <2> QED BY <1>2, <1>5, <2>2, <2>4, <2>5, <2>7
<1>6. CASE ~(i < p)
  <2>1. new_availableCores' = new_availableCores
    BY <1>6 DEF Told
  <2> QED BY <1>2, <1>4, <1>6, <2>1 DEF InBounds, Types
<1> QED BY <1>5, <1>6

LEMMA InvHandleBlock == Inv /\ HandleBlock => Inv'
<1> SUFFICES ASSUME Inv, HandleBlock PROVE Inv'
  OBVIOUS
<1> DEFINE i == Head(pendingBlock)
<1>1. /\ i \in Numbers /\ pendingBlock' \in Seq(Numbers)
      /\ Range(pendingBlock) = Range(pendingBlock') \cup {i}
  BY RangeOfTail DEF HandleBlock, Inv, Types
<1>2. Told(i, FALSE) /\ Types
  BY DEF HandleBlock, Inv
<1> HIDE DEF i
<1>3. /\ new_availableCores' \in [Cores -> BOOLEAN] \cup [Cores \cup {-1} -> BOOLEAN]
      /\ receivedSignal' \in BOOLEAN
      /\ \A k \in Cores : new_availableCores'[k] = IF k = i THEN FALSE ELSE new_availableCores[k]
      /\ ~receivedSignal' => ~receivedSignal /\ new_availableCores' = new_availableCores
  BY <1>1, <1>2, ToldOne
<1>4. Types'
  BY <1>1, <1>3 DEF Inv, HandleBlock, Types, SignalPC, senderVars
<1>5. ViewInv'
  BY <1>3 DEF Inv, HandleBlock, ViewInv
<1>6. Owed'
  BY <1>1, <1>3 DEF Inv, HandleBlock, Owed, Outcome, senderVars
<1> QED BY <1>4, <1>5, <1>6 DEF Inv

LEMMA InvHandleUnblock == Inv /\ HandleUnblock => Inv'
<1> SUFFICES ASSUME Inv, HandleUnblock PROVE Inv'
  OBVIOUS
<1> DEFINE i == Head(pendingUnblock)
<1>1. /\ i \in Numbers /\ pendingUnblock' \in Seq(Numbers)
      /\ Range(pendingUnblock) = Range(pendingUnblock') \cup {i}
  BY RangeOfTail DEF HandleUnblock, Inv, Types
<1>2. Told(i, TRUE) /\ Types
  BY DEF HandleUnblock, Inv
<1>0. Range(pendingBlock) = {} /\ pendingBlock' = pendingBlock
  BY DEF HandleUnblock, Range
<1> HIDE DEF i
<1>3. /\ new_availableCores' \in [Cores -> BOOLEAN] \cup [Cores \cup {-1} -> BOOLEAN]
      /\ receivedSignal' \in BOOLEAN
      /\ \A k \in Cores : new_availableCores'[k] = IF k = i THEN TRUE ELSE new_availableCores[k]
      /\ ~receivedSignal' => ~receivedSignal /\ new_availableCores' = new_availableCores
  BY <1>1, <1>2, ToldOne
<1>4. Types'
  BY <1>1, <1>3 DEF Inv, HandleUnblock, Types, SignalPC, senderVars
<1>5. ViewInv'
  BY <1>3 DEF Inv, HandleUnblock, ViewInv
<1>6. Owed'
  BY <1>0, <1>1, <1>3 DEF Inv, HandleUnblock, Owed, Outcome, senderVars
<1> QED BY <1>4, <1>5, <1>6 DEF Inv

LEMMA InvFlow == Inv /\ (HandleStop \/ Leave \/ StartScan \/ SuspendAgain) => Inv'
<1> SUFFICES ASSUME Inv, HandleStop \/ Leave \/ StartScan \/ SuspendAgain PROVE Inv'
  OBVIOUS
<1> USE DEF HandleStop, Leave, StartScan, SuspendAgain, viewVars, flagVars, pendingVars, senderVars
<1>1. Types'
  <2>1. /\ spc' \in SignalPC
        /\ scan' \in 0 .. p
        /\ UNCHANGED <<new_availableCores, availableCores, pendingBlock, pendingUnblock,
                       command, overtaken>>
    BY DEF Inv, Types, SignalPC
  <2>2. {receivedSignal', receivedStopSignal', pendingStop'} \subseteq BOOLEAN
    BY Zenon DEF Inv, Types
  <2> QED BY <2>1, <2>2 DEF Inv, Types
<1>2. ViewInv'
  BY DEF Inv, Types, ViewInv, Cores
<1>3. Owed'
  BY DEF Inv, Owed, Outcome
<1> QED BY <1>1, <1>2, <1>3 DEF Inv

LEMMA InvScan == Inv /\ InBounds /\ (ScanUnblock \/ ScanBlock \/ ScanSame) => Inv'
<1> SUFFICES ASSUME Inv, InBounds, ScanUnblock \/ ScanBlock \/ ScanSame PROVE Inv'
  OBVIOUS
<1>1. /\ spc = "scan" /\ scan \in Cores
      /\ scan' = scan + 1
      /\ spc' = IF scan + 1 < p THEN "scan" ELSE "suspended"
      /\ UNCHANGED <<new_availableCores, flagVars, pendingVars, senderVars>>
  BY DEF Inv, ViewInv, ScanUnblock, ScanBlock, ScanSame, NextCore
<1>2. availableCores' = [availableCores EXCEPT ![scan] = new_availableCores[scan]]
  BY <1>1 DEF Inv, Types, ScanUnblock, ScanBlock, ScanSame
<1>3. Types'
  <2>1. new_availableCores \in [Cores -> BOOLEAN]
    BY DEF Inv, Types, InBounds
  <2>2. availableCores' \in [Cores -> BOOLEAN]
    BY <1>1, <1>2, <2>1 DEF Inv, Types
  <2>3. scan' \in 0 .. p /\ spc' \in SignalPC
    BY <1>1 DEF SignalPC, Cores
  <2> QED BY <1>1, <2>2, <2>3 DEF Inv, Types, flagVars, pendingVars, senderVars
<1>4. \A k \in Cores : k < scan + 1 => availableCores'[k] = new_availableCores'[k]
  BY <1>1, <1>2 DEF Inv, Types, ViewInv, Cores
<1>5. ViewInv'
  <2>1. CASE scan + 1 < p
    <3>1. spc' = "scan" /\ scan' \in Cores
      BY <1>1, <2>1 DEF Cores
    <3> QED BY <1>1, <1>4, <3>1 DEF ViewInv
  <2>2. CASE ~(scan + 1 < p)
    <3>1. spc' = "suspended" /\ \A k \in Cores : k < scan + 1
      BY <1>1, <2>2 DEF Cores
    <3>2. availableCores' \in [Cores -> BOOLEAN] /\ new_availableCores' \in [Cores -> BOOLEAN]
      BY <1>1, <1>3 DEF Inv, Types, InBounds
    <3>3. availableCores' = new_availableCores'
      BY <1>4, <3>1, <3>2
    <3> QED BY <3>1, <3>3 DEF ViewInv
  <2> QED BY <2>1, <2>2
<1>7. Owed'
  BY <1>1 DEF Inv, Owed, Outcome, pendingVars, senderVars
<1> QED BY <1>3, <1>5, <1>7 DEF Inv

LEMMA InvThreadStep == Inv /\ InBounds /\ ThreadStep => Inv'
BY InvHandleBlock, InvHandleUnblock, InvFlow, InvScan DEF ThreadStep

LEMMA InvStutter == Inv /\ UNCHANGED vars => Inv'
BY DEF Inv, Types, ViewInv, Owed, Outcome, vars

LEMMA InvCorrect == Spec => []Inv
<1>1. Inv /\ [Next]_vars => Inv'
  BY InvSendBlock, InvSendUnblock, InvSendStop, InvThreadStep, InvStutter DEF Next, Sender
<1> QED BY InvInit, <1>1, PTL DEF Spec

-----------------------------------------------------------------------------
(* Theorems. *)

\* Every variable keeps its type: no core number, of whatever origin, leads the
\* handler or the loop past the end of the arrays.  A negative one leads the
\* handler in front of its array, where the model ends.
THEOREM TypeCorrect == Spec => []TypeOK
<1>1. Init => sent \in 0 .. MaxSignals
  BY DEF Init
<1>2. sent \in 0 .. MaxSignals /\ [Next]_vars => (sent \in 0 .. MaxSignals)'
  <2>1. ThreadStep \/ SendStop \/ UNCHANGED vars => UNCHANGED sent
    BY DEF ThreadStep, HandleBlock, HandleUnblock, HandleStop, Leave, StartScan, SuspendAgain,
           ScanUnblock, ScanBlock, ScanSame, NextCore, SendStop, senderVars, vars
  <2>2. Sender => sent < MaxSignals /\ sent' = sent + 1
    BY DEF Sender, MaySend
  <2> QED BY <2>1, <2>2 DEF Next
<1>3. Inv /\ sent \in 0 .. MaxSignals => TypeOK
  BY DEF Inv, Types, TypeOK
<1> QED BY InvCorrect, <1>1, <1>2, <1>3, PTL DEF Spec

\* Back in sigsuspend, the loop of signalthreadfunction has carried over all
\* that the handler was told.
THEOREM ViewIsSettled == Spec => []ViewSettled
<1>1. Inv => ViewSettled
  BY DEF Inv, ViewInv, ViewSettled
<1> QED BY InvCorrect, <1>1, PTL

LEMMA SettledCommands == Inv => CommandsHold
<1> SUFFICES ASSUME Inv, Quiet, NEW i \in Cores
             PROVE  availableCores[i] <=> command[i] \/ i \in overtaken
  BY DEF CommandsHold
<1>1. Range(pendingBlock) = {} /\ Range(pendingUnblock) = {}
  BY DEF Quiet, Range
<1>2. availableCores = new_availableCores
  BY DEF Inv, ViewInv, Quiet
<1> QED BY <1>1, <1>2 DEF Inv, Owed, Outcome

\* With nothing pending, each core is as it was last commanded to be, or its
\* last command was a block that overtook an unblock.
THEOREM CommandsAreKept == Spec => []CommandsHold
BY SettledCommands, InvCorrect, PTL

-----------------------------------------------------------------------------
(* The driver.                                                              *)

LEMMA DriverSteps == NextSession => DL!Next \/ UNCHANGED DL!vars
<1>1. CASE Construct \/ SignalThreadRuns \/ SendBlockCore
  BY <1>1 DEF Construct, SignalThreadRuns, SendBlockCore, driverVars, DL!vars
<1>2. CASE mpc # "killed" /\ (StartDriver \/ LoadTellsSort \/ UnloadTellsSort)
  BY <1>2 DEF StartDriver, LoadTellsSort, UnloadTellsSort, DL!Next, DL!ControlStep
<1>3. CASE mpc # "killed" /\ OtherDriverStep
  BY <1>3 DEF OtherDriverStep, DL!Next, DL!ControlStep, DL!MainStep, DL!ThreadStep, DL!Cores,
              Cores
<1> QED BY <1>1, <1>2, <1>3 DEF NextSession

\* A session's driver is a behaviour of DynLoadCores: the sorting process acts
\* on it by its start signal and its end only.
THEOREM DriverIsDynLoadCores == SpecSession => DL!Spec
<1>1. InitSession => DL!Init
  BY DEF InitSession
<1>2. [NextSession]_sessionVars => [DL!Next]_(DL!vars)
  BY DriverSteps DEF sessionVars, driverVars, DL!vars
<1> QED BY <1>1, <1>2, PTL DEF SpecSession, DL!Spec

\* DL and DLP name the same driver.
LEMMA SameDriver ==
  /\ DLP!Init <=> DL!Init
  /\ DLP!Next <=> DL!Next
  /\ DLP!vars = DL!vars
<1>1. DLP!Init <=> DL!Init
  BY DEF DL!Init, DLP!Init, DL!Cores, DLP!Cores, DL!NoPid, DLP!NoPid
<1>2. DLP!Next <=> DL!Next
  BY DEF DL!Next, DLP!Next, DL!Cores, DLP!Cores, DL!ThreadStep, DLP!ThreadStep,
      DL!SpuriousWake, DLP!SpuriousWake, DL!ControlStep, DLP!ControlStep,
      DL!MainStep, DLP!MainStep, DL!SortSignals, DLP!SortSignals, DL!SortExits,
      DLP!SortExits, DL!Ready, DLP!Ready, DL!TestActive, DLP!TestActive, DL!Work,
      DLP!Work, DL!TestQuit, DLP!TestQuit, DL!Park, DLP!Park, DL!Awake, DLP!Awake,
      DL!Notify, DLP!Notify, DL!InstallHandler, DLP!InstallHandler, DL!Suspend,
      DLP!Suspend, DL!GetPid, DLP!GetPid, DL!Calling, DLP!Calling, DL!NextCall,
      DLP!NextCall, DL!Tell, DLP!Tell, DL!LoadTells, DLP!LoadTells,
      DL!LoadActivates, DLP!LoadActivates, DL!UnloadDeactivates,
      DLP!UnloadDeactivates, DL!UnloadTells, DLP!UnloadTells, DL!NextPhase,
      DLP!NextPhase, DL!Nap, DLP!Nap, DL!NapQuit, DLP!NapQuit, DL!SetThreadQuit,
      DLP!SetThreadQuit, DL!NextQuit, DLP!NextQuit, DL!EndLoad, DLP!EndLoad,
      DL!WakeToQuit, DLP!WakeToQuit, DL!AwaitThreads, DLP!AwaitThreads, DL!Fork,
      DLP!Fork, DL!SetPid, DLP!SetPid, DL!WaitPid, DLP!WaitPid, DL!Join, DLP!Join,
      DL!Calls, DLP!Calls, DL!Start, DLP!Start, DL!Body, DLP!Body, DL!load,
      DLP!load, DL!unload, DLP!unload, DL!NoPid, DLP!NoPid, DL!Child, DLP!Child,
      DL!threadVars, DLP!threadVars, DL!controlVars, DLP!controlVars, DL!vars,
      DLP!vars
<1>3. DLP!vars = DL!vars
  BY DEF DL!vars, DLP!vars
<1> QED BY <1>1, <1>2, <1>3

LEMMA DriverInit == InitSession => DLP!Inv
<1>1. DLP!DynLoadCoresAssumption
  BY DEF DLP!DynLoadCoresAssumption
<1> QED BY <1>1, DLP!InvInit, SameDriver DEF InitSession

LEMMA DriverStep == DLP!Inv /\ [NextSession]_sessionVars => DLP!Inv'
<1>1. DLP!DynLoadCoresAssumption
  BY DEF DLP!DynLoadCoresAssumption
<1>2. [NextSession]_sessionVars => [DLP!Next]_(DLP!vars)
  BY DriverSteps, SameDriver DEF sessionVars, driverVars, DL!vars, DLP!vars
<1> QED BY <1>1, <1>2, DLP!InvStep

\* Where the driver's invariant says the control thread and the sorting process
\* are.
LEMMA DriverFacts ==
  ASSUME DLP!Inv
  PROVE  /\ told \in SUBSET Cores
         /\ sortpc \in {"unborn", "running", "sorting", "exited"}
         /\ mpc = "fork" => cpc \in {"created", "armed", "suspended"}
         /\ cpc \in {"first", "second"} => DL!Calls[op].core \in Cores
<1>1. DLP!DynLoadCoresAssumption
  BY DEF DLP!DynLoadCoresAssumption
<1>2. /\ told \in SUBSET Cores
      /\ sortpc \in {"unborn", "running", "sorting", "exited"}
      /\ mpc = "fork" => cpc \in {"created", "armed", "suspended"}
  BY DEF DLP!Inv, DLP!TypeOK, DLP!Started, DLP!Dormant, DLP!Cores, Cores
<1>3. DL!Calls = DLP!Calls
  BY DEF DL!Calls, DLP!Calls, DL!Start, DLP!Start, DL!Body, DLP!Body, DL!load, DLP!load,
         DL!unload, DLP!unload
<1>4. cpc \in {"first", "second"} => DLP!Calls[op].core \in Cores
  BY <1>1, DLP!TheCall DEF DLP!Cores, Cores
<1> QED BY <1>2, <1>3, <1>4

-----------------------------------------------------------------------------
(* The invariant of the session.                                            *)

\* The control thread is past sigsuspend only once the sorting process has sent
\* the start signal, which it does with its scheduler in place.
Order ==
  /\ cpc \notin {"created", "armed", "suspended"} => sortpc \in {"sorting", "exited"}
  /\ algorithm = "malms" /\ sortpc = "sorting" => constructed
  /\ DriverSparesSort

\* As long as nobody but the driver sends, what it last commanded is what it
\* keeps of its own doing.
InStep ==
  fatal = "nobody" /\ sortpc # "exited" /\ sent = 0 =>
    \A i \in Cores : command[i] <=> i \notin told

Kinds ==
  /\ algorithm \in {"malms", "other"}
  /\ constructed \in BOOLEAN
  /\ fatal \in {"nobody", "driver", "user"}
  /\ sent \in 0 .. MaxSignals

\* Only a user names a negative core.
Bounded ==
  sent = 0 => InBounds /\ -1 \notin Range(pendingBlock) \cup Range(pendingUnblock)

SessionInv == DLP!Inv /\ Inv /\ Kinds /\ Order /\ InStep /\ Bounded

LEMMA SessionInit == InitSession => SessionInv
<1> SUFFICES ASSUME InitSession PROVE SessionInv
  OBVIOUS
<1>1. DLP!Inv /\ Inv
  BY DriverInit, InvInit DEF InitSession
<1>2. Kinds
  <2>1. sent \in 0 .. MaxSignals
    BY DEF InitSession, Init
  <2> QED BY <2>1 DEF InitSession, Kinds
<1>3. Order
  BY DEF InitSession, DL!Init, Order, DriverSparesSort
<1>4. InStep
  BY DEF InitSession, Init, DL!Init, InStep
<1>5. Bounded
  BY DEF InitSession, Init, Bounded, InBounds, Range
<1> QED BY <1>1, <1>2, <1>3, <1>4, <1>5 DEF SessionInv

LEMMA ThreadStepSendsNothing == ThreadStep => UNCHANGED <<command, sent>>
BY DEF ThreadStep, HandleBlock, HandleUnblock, HandleStop, Leave, StartScan, SuspendAgain,
       ScanUnblock, ScanBlock, ScanSame, NextCore, senderVars

LEMMA BoundedSend ==
  ASSUME Inv, Bounded, NEW i \in Cores, SendBlock(i) \/ SendUnblock(i), UNCHANGED sent
  PROVE  Bounded'
<1>1. i \in Numbers /\ i # -1
  BY DEF Cores, Numbers
<1>2. pendingBlock \in Seq(Numbers) /\ pendingUnblock \in Seq(Numbers)
  BY DEF Inv, Types
<1>3. /\ Range(Append(pendingBlock, i)) = Range(pendingBlock) \cup {i}
      /\ Range(Append(pendingUnblock, i)) = Range(pendingUnblock) \cup {i}
  BY <1>1, <1>2, RangeOfAppend
<1>4. Range(pendingBlock') \cup Range(pendingUnblock')
        \subseteq Range(pendingBlock) \cup Range(pendingUnblock) \cup {i}
  BY <1>3 DEF SendBlock, SendUnblock
<1>5. UNCHANGED new_availableCores
  BY DEF SendBlock, SendUnblock, viewVars
<1> QED BY <1>1, <1>4, <1>5 DEF Bounded, InBounds

LEMMA BoundedThreadStep == ASSUME Inv, Bounded, ThreadStep PROVE Bounded'
<1>1. pendingBlock \in Seq(Numbers) /\ pendingUnblock \in Seq(Numbers) /\ Types
  BY DEF Inv, Types
<1>2. CASE HandleBlock
  <2>1. /\ Head(pendingBlock) \in Numbers
        /\ Range(pendingBlock) = Range(pendingBlock') \cup {Head(pendingBlock)}
    BY <1>1, <1>2, RangeOfTail DEF HandleBlock
  <2>2. UNCHANGED <<pendingUnblock, sent>> /\ Told(Head(pendingBlock), FALSE)
    BY <1>2 DEF HandleBlock, senderVars
  <2>3. InBounds /\ Head(pendingBlock) # -1 => InBounds'
    BY <1>1, <2>1, <2>2, ToldOne
  <2> QED BY <2>1, <2>2, <2>3 DEF Bounded
<1>3. CASE HandleUnblock
  <2>1. /\ Head(pendingUnblock) \in Numbers
        /\ Range(pendingUnblock) = Range(pendingUnblock') \cup {Head(pendingUnblock)}
    BY <1>1, <1>3, RangeOfTail DEF HandleUnblock
  <2>2. UNCHANGED <<pendingBlock, sent>> /\ Told(Head(pendingUnblock), TRUE)
    BY <1>3 DEF HandleUnblock, senderVars
  <2>3. InBounds /\ Head(pendingUnblock) # -1 => InBounds'
    BY <1>1, <2>1, <2>2, ToldOne
  <2> QED BY <2>1, <2>2, <2>3 DEF Bounded
<1>4. CASE ~HandleBlock /\ ~HandleUnblock
  <2>1. UNCHANGED <<new_availableCores, pendingBlock, pendingUnblock, sent>>
    BY <1>4 DEF ThreadStep, HandleStop, Leave, StartScan, SuspendAgain, ScanUnblock, ScanBlock,
                ScanSame, NextCore, viewVars, pendingVars, senderVars
  <2> QED BY <2>1 DEF Bounded, InBounds
<1> QED BY <1>2, <1>3, <1>4

LEMMA BoundedStays == Bounded /\ UNCHANGED vars => Bounded'
BY DEF Bounded, InBounds, vars

LEMMA SessionConstruct == ASSUME SessionInv, Construct PROVE SessionInv'
<1>1. DLP!Inv'
  BY DriverStep DEF SessionInv, NextSession
<1>2. /\ algorithm = "malms" /\ constructed'
      /\ UNCHANGED <<vars, algorithm, fatal, command, sent, cpc, sortpc, told>>
  BY DEF Construct, vars, driverVars
<1>3. Inv'
  BY <1>2, InvStutter DEF SessionInv
<1>4. Kinds'
  BY <1>2, Zenon DEF SessionInv, Kinds, Construct
<1>5. Order'
  BY <1>2 DEF SessionInv, Order, DriverSparesSort
<1>6. InStep'
  BY <1>2 DEF SessionInv, InStep
<1>7. Bounded'
  BY <1>2, BoundedStays DEF SessionInv
<1> QED BY <1>1, <1>3, <1>4, <1>5, <1>6, <1>7 DEF SessionInv

LEMMA SessionSignalThread == ASSUME SessionInv, SignalThreadRuns PROVE SessionInv'
<1>1. DLP!Inv'
  BY DriverStep DEF SessionInv, NextSession
<1>2. /\ ThreadStep /\ InBounds /\ UNCHANGED <<command, sent>>
      /\ UNCHANGED <<algorithm, constructed, fatal, cpc, sortpc, told>>
  BY ThreadStepSendsNothing DEF SignalThreadRuns, Alive, processVars, driverVars
<1>3. Inv'
  BY <1>2, InvThreadStep DEF SessionInv
<1>4. Kinds' /\ Order' /\ InStep'
  BY <1>2 DEF SessionInv, Kinds, Order, DriverSparesSort, InStep
<1>5. Bounded'
  BY <1>2, BoundedThreadStep DEF SessionInv
<1> QED BY <1>1, <1>3, <1>4, <1>5 DEF SessionInv

LEMMA SessionUser == ASSUME SessionInv, SendBlockCore PROVE SessionInv'
<1>1. DLP!Inv'
  BY DriverStep DEF SessionInv, NextSession
<1>2. PICK i \in Numbers \ {0} : Receives("user", MaySend /\ (SendBlock(i) \/ SendUnblock(i)))
  BY DEF SendBlockCore
<1>3. Alive /\ UNCHANGED <<algorithm, constructed, cpc, sortpc, told>>
  BY <1>2 DEF SendBlockCore, Receives, driverVars
<1>4. CASE constructed
  <2>1. MaySend /\ (SendBlock(i) \/ SendUnblock(i)) /\ fatal' = fatal
    BY <1>2, <1>3, <1>4 DEF Receives
  <2>2. i \in Numbers
    OBVIOUS
  <2>3. Inv'
    BY <2>1, <2>2, InvSendBlock, InvSendUnblock DEF SessionInv
  <2>4. sent < MaxSignals /\ sent' = sent + 1
    BY <2>1 DEF MaySend
  <2>5. sent \in 0 .. MaxSignals /\ sent' \in 0 .. MaxSignals /\ sent' # 0
    BY <2>4 DEF SessionInv, Kinds
  <2>6. Kinds'
    BY <1>3, <2>1, <2>5, Zenon DEF SessionInv, Kinds
  <2>7. Order' /\ InStep' /\ Bounded'
    BY <1>3, <2>1, <2>5 DEF SessionInv, Order, DriverSparesSort, InStep, Bounded
  <2> QED BY <1>1, <2>3, <2>6, <2>7 DEF SessionInv
<1>5. CASE ~constructed
  <2>1. fatal' = "user" /\ UNCHANGED vars
    BY <1>2, <1>3, <1>5 DEF Receives
  <2>2. Inv' /\ UNCHANGED sent
    BY <2>1, InvStutter DEF SessionInv, vars
  <2>3. Kinds' /\ Order' /\ InStep'
    BY <1>3, <2>1, <2>2 DEF SessionInv, Kinds, Order, DriverSparesSort, InStep
  <2>4. Bounded'
    BY <2>1, BoundedStays DEF SessionInv
  <2> QED BY <1>1, <2>2, <2>3, <2>4 DEF SessionInv
<1> QED BY <1>4, <1>5

LEMMA SessionStart == ASSUME SessionInv, StartDriver, mpc # "killed" PROVE SessionInv'
<1>1. DLP!Inv'
  BY DriverStep DEF SessionInv, NextSession
<1>2. /\ sortpc = "running" /\ sortpc' = "sorting"
      /\ algorithm = "malms" => constructed
      /\ UNCHANGED <<algorithm, constructed, fatal, command, sent, told>> /\ UNCHANGED vars
  BY DEF StartDriver, DL!SortSignals, Prepared, processVars, vars
<1>3. Inv'
  BY <1>2, InvStutter DEF SessionInv
<1>4. Kinds' /\ Order' /\ InStep'
  BY <1>2 DEF SessionInv, Kinds, Order, DriverSparesSort, InStep
<1>5. Bounded'
  BY <1>2, BoundedStays DEF SessionInv
<1> QED BY <1>1, <1>3, <1>4, <1>5 DEF SessionInv

LEMMA SessionOther == ASSUME SessionInv, OtherDriverStep, mpc # "killed" PROVE SessionInv'
<1>1. DLP!Inv'
  BY DriverStep DEF SessionInv, NextSession
<1>2. UNCHANGED <<algorithm, constructed, fatal, command, sent>> /\ UNCHANGED vars
  BY DEF OtherDriverStep, processVars, vars
<1>3. /\ UNCHANGED told
      /\ \/ UNCHANGED sortpc
         \/ mpc = "fork" /\ sortpc = "unborn" /\ sortpc' = "running" /\ UNCHANGED cpc
         \/ sortpc' = "exited" /\ UNCHANGED cpc
      /\ cpc \in {"created", "armed", "suspended"} =>
           cpc' \in {"created", "armed", "suspended"}
  <2> USE DEF DL!threadVars, DL!controlVars
  <2>1. CASE \E i \in Cores : DL!Ready(i)
    BY <2>1 DEF DL!Ready
  <2>2. CASE DL!InstallHandler \/ DL!Suspend \/ DL!GetPid
    BY <2>2 DEF DL!InstallHandler, DL!Suspend, DL!GetPid
  <2>3. CASE DL!LoadActivates \/ DL!UnloadDeactivates
    BY <2>3 DEF DL!LoadActivates, DL!UnloadDeactivates, DL!Calling
  <2>4. CASE DL!Nap \/ DL!NapQuit
    BY <2>4 DEF DL!Nap, DL!NapQuit
  <2>5. CASE DL!SetThreadQuit \/ DL!EndLoad \/ DL!WakeToQuit
    BY <2>5 DEF DL!SetThreadQuit, DL!EndLoad, DL!WakeToQuit
  <2>6. CASE DL!Fork
    BY <2>6 DEF DL!Fork, SessionInv, DLP!Inv, DLP!Started
  <2>7. CASE DL!AwaitThreads \/ DL!SetPid \/ DL!WaitPid \/ DL!SortExits
    BY <2>7 DEF DL!AwaitThreads, DL!SetPid, DL!WaitPid, DL!SortExits
  <2> QED BY <2>1, <2>2, <2>3, <2>4, <2>5, <2>6, <2>7 DEF OtherDriverStep
<1>4. Inv'
  BY <1>2, InvStutter DEF SessionInv
<1>5. Kinds'
  BY <1>2 DEF SessionInv, Kinds
<1>6. Order'
  BY <1>2, <1>3, DriverFacts DEF SessionInv, Order, DriverSparesSort
<1>7. InStep'
  BY <1>2, <1>3 DEF SessionInv, InStep
<1>8. Bounded'
  BY <1>2, BoundedStays DEF SessionInv
<1> QED BY <1>1, <1>4, <1>5, <1>6, <1>7, <1>8 DEF SessionInv

\* loadcore and unloadcore: what happens to the sorting process.
LEMMA SessionTells ==
  ASSUME SessionInv, LoadTellsSort \/ UnloadTellsSort, mpc # "killed"
  PROVE  SessionInv'
<1> DEFINE c == DL!Calls[op].core
<1>1. DLP!Inv' /\ DLP!Inv
  BY DriverStep DEF SessionInv, NextSession
<1>2. /\ cpc \in {"first", "second"} /\ cpc' \notin {"created", "armed", "suspended"}
      /\ UNCHANGED <<sortpc, algorithm, constructed>>
  <2>1. CASE LoadTellsSort
    BY <2>1 DEF LoadTellsSort, DL!LoadTells, DL!Calling, Receives, processVars
  <2>2. CASE UnloadTellsSort
    BY <2>2
    DEF UnloadTellsSort, DL!UnloadTells, DL!Calling, DL!NextCall, Receives, processVars
  <2> QED BY <2>1, <2>2
<1>3. c \in Cores /\ c \in Numbers /\ sortpc \in {"sorting", "exited"}
  BY <1>1, <1>2, DriverFacts DEF SessionInv, Order, Cores, Numbers
<1> HIDE DEF c
<1>4. CASE ~(send_info /\ pid = DL!Child)
  <2>1. UNCHANGED vars /\ UNCHANGED <<fatal, command, sent, told>>
    BY <1>4 DEF LoadTellsSort, UnloadTellsSort, DL!LoadTells, DL!UnloadTells, DL!Tell,
                processVars, vars
  <2>2. Inv'
    BY <2>1, InvStutter DEF SessionInv
  <2>3. Kinds' /\ Order' /\ InStep'
    BY <1>2, <1>3, <2>1 DEF SessionInv, Kinds, Order, DriverSparesSort, InStep
  <2>4. Bounded'
    BY <2>1, BoundedStays DEF SessionInv
  <2> QED BY <1>1, <2>2, <2>3, <2>4 DEF SessionInv
<1>5. CASE (send_info /\ pid = DL!Child) /\ ~Alive
  <2>1. UNCHANGED vars /\ UNCHANGED <<fatal, command, sent>>
    BY <1>5 DEF LoadTellsSort, UnloadTellsSort, Receives, vars
  <2>2. Inv'
    BY <2>1, InvStutter DEF SessionInv
  <2>3. Kinds' /\ Order' /\ InStep'
    BY <1>2, <1>3, <1>5, <2>1
    DEF SessionInv, Kinds, Order, DriverSparesSort, InStep, Bounded, Alive
  <2>4. Bounded'
    BY <2>1, BoundedStays DEF SessionInv
  <2> QED BY <1>1, <2>2, <2>3, <2>4 DEF SessionInv
<1>6. CASE (send_info /\ pid = DL!Child) /\ Alive /\ ~constructed
  <2>1. UNCHANGED vars /\ UNCHANGED <<command, sent>> /\ fatal' = "driver"
    BY <1>6 DEF LoadTellsSort, UnloadTellsSort, Receives, vars
  <2>2. Inv'
    BY <2>1, InvStutter DEF SessionInv
  <2>3. algorithm # "malms"
    BY <1>3, <1>6 DEF SessionInv, Order, Alive
  <2>4. Kinds' /\ Order' /\ InStep'
    BY <1>2, <1>3, <2>1, <2>3 DEF SessionInv, Kinds, Order, DriverSparesSort, InStep
  <2>5. Bounded'
    BY <2>1, BoundedStays DEF SessionInv
  <2> QED BY <1>1, <2>2, <2>4, <2>5 DEF SessionInv
<1>7. CASE (send_info /\ pid = DL!Child) /\ Alive /\ constructed
  <2>1. /\ UNCHANGED <<fatal, sent>>
        /\ \/ SendBlock(c) /\ told' = told \cup {c}
           \/ SendUnblock(c) /\ told' = told \ {c}
    <3>1. CASE LoadTellsSort
      BY <1>7, <3>1 DEF LoadTellsSort, Receives, DL!LoadTells, DL!Tell, c
    <3>2. CASE UnloadTellsSort
      BY <1>7, <3>2 DEF UnloadTellsSort, Receives, DL!UnloadTells, DL!Tell, c
    <3> QED BY <3>1, <3>2
  <2>2. Inv'
    BY <1>3, <2>1, InvSendBlock, InvSendUnblock DEF SessionInv
  <2>3. Kinds' /\ Order'
    BY <1>2, <1>3, <2>1 DEF SessionInv, Kinds, Order, DriverSparesSort
  <2>4. InStep'
    BY <1>2, <2>1 DEF SessionInv, InStep, SendBlock, SendUnblock
  <2>5. Bounded'
    BY <1>3, <2>1, BoundedSend DEF SessionInv
  <2> QED BY <1>1, <2>2, <2>3, <2>4, <2>5 DEF SessionInv
<1> QED BY <1>4, <1>5, <1>6, <1>7

LEMMA SessionStutter == ASSUME SessionInv, UNCHANGED sessionVars PROVE SessionInv'
<1>1. DLP!Inv'
  BY DriverStep DEF SessionInv
<1>2. Inv'
  BY InvStutter DEF SessionInv, sessionVars
<1>3. Kinds' /\ Order' /\ InStep'
  BY DEF sessionVars, vars, processVars, driverVars, SessionInv, Kinds, Order, DriverSparesSort,
         InStep
<1>4. Bounded'
  BY BoundedStays DEF SessionInv, sessionVars
<1> QED BY <1>1, <1>2, <1>3, <1>4 DEF SessionInv

LEMMA SessionCorrect == SpecSession => []SessionInv
<1>1. SessionInv /\ [NextSession]_sessionVars => SessionInv'
  BY SessionConstruct, SessionSignalThread, SessionUser, SessionStart, SessionTells, SessionOther,
     SessionStutter DEF NextSession
<1> QED BY SessionInit, <1>1, PTL DEF SpecSession

-----------------------------------------------------------------------------
(* Theorems.                                                                *)

\* Every variable of driver, signal thread and session keeps its type, and as long
\* as nobody but the driver sends the handler stays within its array: the driver
\* names only cores there are.  A user's negative number is the one way out.
THEOREM SessionTypesAreKept == SpecSession => []SessionTypeOK
<1>1. SessionInv => SessionTypeOK
  <2> SUFFICES ASSUME SessionInv PROVE SessionTypeOK
    OBVIOUS
  <2>1. TypeOK
    BY DEF SessionInv, Inv, Types, TypeOK, Kinds
  <2>2. DL!TypeOK
    BY DEF SessionInv, DLP!Inv, DLP!TypeOK, DL!TypeOK, DL!Cores, DLP!Cores, DL!Body, DLP!Body,
           DL!load, DLP!load, DL!unload, DLP!unload, DL!NoPid, DLP!NoPid, DL!Child, DLP!Child
  <2> QED BY <2>1, <2>2 DEF SessionInv, Bounded, Kinds, SessionTypeOK
<1> QED BY <1>1, SessionCorrect, PTL

\* What the scheduler sees is settled between signals in a session too, whatever
\* driver and user send.
THEOREM SessionViewIsSettled == SpecSession => []ViewSettled
<1>1. SessionInv => ViewSettled
  BY DEF SessionInv, Inv, ViewInv, ViewSettled
<1> QED BY <1>1, SessionCorrect, PTL

\* Commands of driver and user are kept, with the one exception of a block that
\* overtakes an unblock.
THEOREM SessionCommandsAreKept == SpecSession => []CommandsHold
<1>1. SessionInv => CommandsHold
  BY SettledCommands DEF SessionInv
<1> QED BY <1>1, SessionCorrect, PTL

\* loadcore's first signal finds the scheduler of a sort with MALMS in place.
THEOREM SortIsSpared == SpecSession => []DriverSparesSort
<1>1. SessionInv => DriverSparesSort
  BY DEF SessionInv, Order
<1> QED BY <1>1, SessionCorrect, PTL

\* While the control thread sleeps, the pool leaves the cores alone that the
\* load threads work on.
THEOREM PoolLeavesLoadedCores == SpecSession => []LoadedCoresAreLeft
<1>1. SessionInv => LoadedCoresAreLeft
  <2> SUFFICES ASSUME SessionInv, cpc = "nap", DL!Informed, Alive, Quiet, sent = 0,
                      NEW i \in Cores
               PROVE  availableCores[i] <=> i \notin DL!Loaded \/ i \in overtaken
    BY DEF LoadedCoresAreLeft
  <2>1. availableCores[i] <=> command[i] \/ i \in overtaken
    BY SettledCommands DEF SessionInv, CommandsHold
  <2>2. command[i] <=> i \notin told
    BY DEF SessionInv, InStep, Alive
  <2>3. told = DL!Loaded
    BY DEF SessionInv, DLP!Inv, DLP!LoadInv, DLP!Informed, DL!Informed, DLP!Loaded, DL!Loaded,
           DL!Cores, DLP!Cores, DL!Child, DLP!Child
  <2> QED BY <2>1, <2>2, <2>3
<1> QED BY <1>1, SessionCorrect, PTL

=============================================================================
