-------------------------- MODULE DynLoadCoresProofs --------------------------
(***************************************************************************)
(* Proofs about DynLoadCores for every number of cores that has room for    *)
(* the pattern, and for all three patterns.                                 *)
(***************************************************************************)
EXTENDS DynLoadCores, FiniteSetTheorems, TLAPS

USE DynLoadCoresAssumption

-----------------------------------------------------------------------------
(* The patterns.                                                            *)

Phases == 0 .. 4

CallsOf(ph) == IF ph = 0 THEN Start ELSE Body[ph]

\* What is loaded when a phase begins, and what is to be loaded when it ends.
Before(ph) == IF ph = 0 THEN {} ELSE Diagram[ph]
After(ph) == Diagram[(ph % 4) + 1]

\* The cores loaded after the first n calls of a phase.
Loads(c, n, i) == \E k \in 1 .. n : c[k].call = "loadcore" /\ c[k].core = i
Touches(c, n, i) == \E k \in 1 .. n : c[k].core = i
Done(ph, n) ==
  {i \in Cores : \/ Loads(CallsOf(ph), n, i)
                 \/ i \in Before(ph) /\ ~Touches(CallsOf(ph), n, i)}

\* A list of n calls about distinct cores that there are, of which some set of
\* cores is loaded and another one unloaded.
LegalPhase(c, n, S, T) ==
  /\ n \in 0 .. 4 /\ n <= p
  /\ Len(c) = n
  /\ \A k \in 1 .. n : c[k].call \in {"loadcore", "unloadcore"} /\ c[k].core \in Cores
  /\ \A k, l \in 1 .. n : c[k].core = c[l].core => k = l
  /\ S \subseteq Cores /\ T \subseteq Cores
  /\ \A i \in Cores : i \in T <=> Loads(c, n, i) \/ (i \in S /\ ~Touches(c, n, i))

LEMMA PatternOne ==
  ASSUME load_pattern = 1, NEW ph \in Phases
  PROVE  LegalPhase(CallsOf(ph), Len(CallsOf(ph)), Before(ph), After(ph))
<1>1. {0, 1, 2} \subseteq Cores /\ p >= 3 /\ p \in Nat
  BY DEF Cores
<1> USE DEF CallsOf, Before, After, LegalPhase, Loads, Touches, load, unload, Start, Body, Diagram
<1>2. CASE ph = 0
  BY <1>1, <1>2
<1>3. CASE ph = 1
  BY <1>1, <1>3
<1>4. CASE ph = 2
  BY <1>1, <1>4
<1>5. CASE ph = 3
  BY <1>1, <1>5
<1>6. CASE ph = 4
  BY <1>1, <1>6
<1>7. ph = 0 \/ ph = 1 \/ ph = 2 \/ ph = 3 \/ ph = 4
  BY DEF Phases
<1> HIDE DEF CallsOf, Before, After, LegalPhase, Loads, Touches, load, unload, Start, Body, Diagram
<1> QED BY <1>2, <1>3, <1>4, <1>5, <1>6, <1>7

LEMMA PatternTwo ==
  ASSUME load_pattern = 2, NEW ph \in Phases
  PROVE  LegalPhase(CallsOf(ph), Len(CallsOf(ph)), Before(ph), After(ph))
<1>1. (0 .. 7) \subseteq Cores /\ p >= 8 /\ p \in Nat
  BY DEF Cores
<1> USE DEF CallsOf, Before, After, LegalPhase, Loads, Touches, load, unload, Start, Body, Diagram
<1>2. CASE ph = 0
  BY <1>1, <1>2, SMTT(60)
<1>3. CASE ph = 1
  BY <1>1, <1>3, SMTT(60)
<1>4. CASE ph = 2
  BY <1>1, <1>4, SMTT(60)
<1>5. CASE ph = 3
  BY <1>1, <1>5, SMTT(60)
<1>6. CASE ph = 4
  BY <1>1, <1>6, SMTT(60)
<1>7. ph = 0 \/ ph = 1 \/ ph = 2 \/ ph = 3 \/ ph = 4
  BY DEF Phases
<1> HIDE DEF CallsOf, Before, After, LegalPhase, Loads, Touches, load, unload, Start, Body, Diagram
<1> QED BY <1>2, <1>3, <1>4, <1>5, <1>6, <1>7

LEMMA PatternThree ==
  ASSUME load_pattern = 3, NEW ph \in Phases
  PROVE  LegalPhase(CallsOf(ph), Len(CallsOf(ph)), Before(ph), After(ph))
<1>1. (0 .. 7) \subseteq Cores /\ p >= 8 /\ p \in Nat
  BY DEF Cores
<1> USE DEF CallsOf, Before, After, LegalPhase, Loads, Touches, load, unload, Start, Body, Diagram
<1>2. CASE ph = 0
  BY <1>1, <1>2, SMTT(60)
<1>3. CASE ph = 1
  BY <1>1, <1>3, SMTT(60)
<1>4. CASE ph = 2
  BY <1>1, <1>4, SMTT(60)
<1>5. CASE ph = 3
  BY <1>1, <1>5, SMTT(60)
<1>6. CASE ph = 4
  BY <1>1, <1>6, SMTT(60)
<1>7. ph = 0 \/ ph = 1 \/ ph = 2 \/ ph = 3 \/ ph = 4
  BY DEF Phases
<1> HIDE DEF CallsOf, Before, After, LegalPhase, Loads, Touches, load, unload, Start, Body, Diagram
<1> QED BY <1>2, <1>3, <1>4, <1>5, <1>6, <1>7

LEMMA PatternLegal ==
  ASSUME NEW ph \in Phases
  PROVE  LegalPhase(CallsOf(ph), Len(CallsOf(ph)), Before(ph), After(ph))
<1>1. load_pattern = 1 \/ load_pattern = 2 \/ load_pattern = 3
  OBVIOUS
<1> QED BY <1>1, PatternOne, PatternTwo, PatternThree

LEMMA BodyFacts ==
  /\ Len(Body) = 4
  /\ Calls = CallsOf(phase)
  /\ NextPhase = (phase % 4) + 1
<1>1. load_pattern = 1 \/ load_pattern = 2 \/ load_pattern = 3
  OBVIOUS
<1>2. Len(Body) = 4
  BY <1>1 DEF Body
<1> QED BY <1>2 DEF Calls, CallsOf, NextPhase

\* What one call changes.
LEMMA DoneStep ==
  ASSUME NEW ph \in Phases, NEW n \in 1 .. Len(CallsOf(ph))
  PROVE  LET call == CallsOf(ph)[n] IN
         /\ call.core \in Cores
         /\ call.call \in {"loadcore", "unloadcore"}
         /\ call.call = "loadcore" => Done(ph, n) = Done(ph, n - 1) \cup {call.core}
         /\ call.call = "unloadcore" => Done(ph, n) = Done(ph, n - 1) \ {call.core}
<1> DEFINE c == CallsOf(ph)
           m == Len(CallsOf(ph))
<1>1. LegalPhase(c, m, Before(ph), After(ph))
  BY PatternLegal
<1> HIDE DEF c, m
<1>2. /\ n \in 1 .. m /\ m \in 0 .. 4
      /\ \A k \in 1 .. m : c[k].call \in {"loadcore", "unloadcore"} /\ c[k].core \in Cores
      /\ \A k, l \in 1 .. m : c[k].core = c[l].core => k = l
  BY <1>1 DEF LegalPhase, m
<1>3. 1 .. n = (1 .. n - 1) \cup {n} /\ (1 .. n - 1) \subseteq (1 .. m) /\ n \notin 1 .. n - 1
  BY <1>2
<1>4. \A i : Loads(c, n, i) <=> Loads(c, n - 1, i) \/ (c[n].call = "loadcore" /\ c[n].core = i)
  BY <1>3 DEF Loads
<1>5. \A i : Touches(c, n, i) <=> Touches(c, n - 1, i) \/ c[n].core = i
  BY <1>3 DEF Touches
<1>6. ~Touches(c, n - 1, c[n].core) /\ ~Loads(c, n - 1, c[n].core)
  BY <1>2, <1>3 DEF Touches, Loads
<1>7. c[n].call \in {"loadcore", "unloadcore"} /\ c[n].core \in Cores
  BY <1>2
<1>8. c[n].call = "loadcore" => Done(ph, n) = Done(ph, n - 1) \cup {c[n].core}
  BY <1>4, <1>5, <1>7 DEF Done, c
<1>9. c[n].call = "unloadcore" => Done(ph, n) = Done(ph, n - 1) \ {c[n].core}
  BY <1>4, <1>5, <1>6, <1>7 DEF Done, c
<1> QED BY <1>7, <1>8, <1>9 DEF c

\* A phase begins with what is loaded before it and ends with its row of the
\* diagram.
LEMMA DoneEnds ==
  ASSUME NEW ph \in Phases
  PROVE  /\ Done(ph, 0) = Before(ph)
         /\ Done(ph, Len(CallsOf(ph))) = After(ph)
         /\ Len(CallsOf(ph)) \in 0 .. 4 /\ Len(CallsOf(ph)) <= p
<1> DEFINE c == CallsOf(ph)
           m == Len(CallsOf(ph))
<1>1. LegalPhase(c, m, Before(ph), After(ph))
  BY PatternLegal
<1>2. \A i : ~Loads(c, 0, i) /\ ~Touches(c, 0, i)
  BY DEF Loads, Touches
<1>3. Done(ph, 0) = Before(ph)
  BY <1>1, <1>2 DEF LegalPhase, Done
<1>4. Done(ph, m) = After(ph)
  BY <1>1 DEF LegalPhase, Done
<1> QED BY <1>1, <1>3, <1>4 DEF LegalPhase

-----------------------------------------------------------------------------
(* The invariant.                                                           *)

Dormant == {"created", "armed", "suspended"}

\* The control thread loads nothing before the sorting process runs, which main
\* starts when every load thread has counted itself in its first wait.
Started ==
  /\ spc = "unborn" <=> mpc \in {"await", "fork"}
  /\ cpc \notin Dormant => spc # "unborn"
  /\ mpc # "await" => \A i \in Cores : tpc[i] # "created"
  /\ numthreads_sleeping = Cardinality({i \in Cores : tpc[i] # "created"})

\* What is loaded, and what the sorting process has been told, at each position
\* of the control thread.
LoadInv ==
  /\ cpc \in Dormant \cup {"getpid"} => phase = 0 /\ op = 1 /\ Loaded = {} /\ told = {}
  /\ cpc \in {"first", "second"} => op \in 1 .. Len(CallsOf(phase))
  /\ cpc = "first" =>
       /\ Loaded = Done(phase, op - 1)
       /\ Informed => told = Loaded
  /\ cpc = "second" /\ CallsOf(phase)[op].call = "loadcore" =>
       /\ Loaded = Done(phase, op - 1)
       /\ Informed => told = Done(phase, op)
  /\ cpc = "second" /\ CallsOf(phase)[op].call = "unloadcore" =>
       /\ Loaded = Done(phase, op)
       /\ Informed => told = Done(phase, op - 1)
  /\ cpc = "nap" =>
       /\ Loaded = After(phase)
       /\ Informed => told = Loaded
  /\ cpc \in {"quit", "wake"} => op \in Cores
  /\ cpc \in {"quit", "wake", "ended"} => (Informed => Loaded \subseteq told)

Inv == TypeOK /\ Started /\ LoadedIsAwake /\ LoadInv

LEMMA CoresFinite ==
  /\ p \in Nat /\ p >= 3
  /\ IsFiniteSet(Cores) /\ Cardinality(Cores) = p
<1>1. p \in Nat /\ p >= 3
  OBVIOUS
<1> QED BY <1>1, FS_Interval DEF Cores

LEMMA StartCalls == Len(CallsOf(0)) \in Nat \ {0} /\ Before(0) = {}
<1>1. load_pattern = 1 \/ load_pattern = 2 \/ load_pattern = 3
  OBVIOUS
<1> QED BY <1>1 DEF CallsOf, Start, Before

LEMMA CallsAreLists == \A ph \in Phases : Len(CallsOf(ph)) = 0 => CallsOf(ph) = <<>>
<1>1. load_pattern = 1 \/ load_pattern = 2 \/ load_pattern = 3
  OBVIOUS
<1> QED BY <1>1 DEF CallsOf, Start, Body, Phases

LEMMA InvInit == Init => Inv
<1> SUFFICES ASSUME Init PROVE Inv
  OBVIOUS
<1>1. TypeOK
  <2>1. 0 \in 0 .. p /\ 1 \in 0 .. p /\ 0 \in 0 .. Len(Body)
    BY CoresFinite, BodyFacts
  <2> QED BY <2>1 DEF Init, TypeOK
<1>2. Started
  <2>1. {i \in Cores : tpc[i] # "created"} = {}
    BY DEF Init
  <2> QED BY <2>1, FS_EmptySet DEF Init, Started, Dormant
<1>3. LoadedIsAwake
  BY DEF Init, LoadedIsAwake
<1>4. LoadInv
  BY DEF Init, LoadInv, Dormant, Loaded
<1> QED BY <1>1, <1>2, <1>3, <1>4 DEF Inv

\* A step of load thread i that is not its first: only its position changes.
LEMMA ThreadMoves ==
  ASSUME Inv, NEW i \in Cores, NEW there, tpc' = [tpc EXCEPT ![i] = there],
         tpc[i] # "created",
         there \in {"loop", "work", "testquit", "lock", "asleep", "retestquit", "exited"},
         there = "asleep" => ~thread_active[i],
         UNCHANGED <<thread_active, thread_quit, numthreads_sleeping, quit, pidofsort,
                     controlVars, mpc, spc, told>>
  PROVE  Inv'
<1>1. TypeOK'
  BY DEF Inv, TypeOK, controlVars
<1>2. {k \in Cores : tpc'[k] # "created"} = {k \in Cores : tpc[k] # "created"}
  BY DEF Inv, TypeOK
<1>3. Started'
  BY <1>2 DEF Inv, TypeOK, Started, controlVars
<1>4. LoadedIsAwake'
  BY DEF Inv, TypeOK, LoadedIsAwake
<1>5. LoadInv'
  BY DEF Inv, LoadInv, Loaded, Informed, controlVars
<1> QED BY <1>1, <1>3, <1>4, <1>5 DEF Inv

LEMMA InvReady == ASSUME Inv, NEW i \in Cores, Ready(i) PROVE Inv'
<1> DEFINE S == {k \in Cores : tpc[k] # "created"}
<1>1. /\ DOMAIN tpc = Cores /\ tpc[i] = "created" /\ tpc' = [tpc EXCEPT ![i] = "ready"]
      /\ numthreads_sleeping' = numthreads_sleeping + 1
      /\ UNCHANGED <<thread_active, thread_quit, quit, pidofsort, cpc, phase, op, pid, mpc, spc,
                     told>>
  BY DEF Inv, TypeOK, Ready, controlVars
<1>2. {k \in Cores : tpc'[k] # "created"} = S \cup {i} /\ i \notin S /\ S \subseteq Cores
  BY <1>1
<1> HIDE DEF S
<1>3. /\ Cardinality(S \cup {i}) = Cardinality(S) + 1
      /\ Cardinality(S \cup {i}) <= p /\ Cardinality(S) \in Nat
  <2>1. IsFiniteSet(S) /\ S \cup {i} \subseteq Cores
    BY <1>2, CoresFinite, FS_Subset
  <2> QED BY <1>2, <2>1, CoresFinite, FS_Subset, FS_AddElement, FS_CardinalityType
<1>4. Started'
  BY <1>1, <1>2, <1>3 DEF Inv, Started, S
<1>5. TypeOK'
  <2>1. numthreads_sleeping' \in 0 .. p
    BY <1>1, <1>3, CoresFinite DEF Inv, Started, S
  <2> QED BY <1>1, <2>1 DEF Inv, TypeOK
<1>6. LoadedIsAwake'
  BY <1>1 DEF Inv, TypeOK, LoadedIsAwake
<1>7. LoadInv'
  BY <1>1 DEF Inv, LoadInv, Loaded, Informed
<1> QED BY <1>4, <1>5, <1>6, <1>7 DEF Inv

LEMMA InvThread ==
  ASSUME Inv, NEW i \in Cores, ThreadStep(i) \/ SpuriousWake(i)
  PROVE  Inv'
<1>1. CASE Ready(i)
  BY <1>1, InvReady
<1>2. CASE TestActive(i)
  BY <1>2, ThreadMoves DEF TestActive, threadVars
<1>3. CASE Work(i)
  BY <1>3, ThreadMoves DEF Work
<1>4. CASE TestQuit(i)
  <2>1. PICK there \in {"exited", "lock", "loop"} : tpc' = [tpc EXCEPT ![i] = there]
    BY <1>4 DEF TestQuit
  <2> QED BY <1>4, <2>1, ThreadMoves DEF TestQuit
<1>5. CASE Park(i)
  BY <1>5, ThreadMoves DEF Park
<1>6. CASE SpuriousWake(i)
  <2>1. PICK there \in {"retestquit", "loop"} : tpc' = [tpc EXCEPT ![i] = there]
    BY <1>6 DEF SpuriousWake, Notify, Awake
  <2> QED BY <1>6, <2>1, ThreadMoves DEF SpuriousWake
<1> QED BY <1>1, <1>2, <1>3, <1>4, <1>5, <1>6 DEF ThreadStep

LEMMA InvMain ==
  ASSUME Inv, mpc # "killed", MainStep \/ SortSignals \/ SortExits
  PROVE  Inv'
<1> USE DEF MainStep, AwaitThreads, Fork, SetPid, WaitPid, Join, SortSignals, SortExits,
            threadVars, controlVars
<1>1. TypeOK'
  <2>1. /\ mpc' \in {"await", "fork", "setpid", "waitpid", "join", "returned", "killed"}
        /\ spc' \in {"unborn", "running", "sorting", "exited"}
    BY DEF Inv, TypeOK
  <2>2. cpc' \in {cpc, "getpid"} /\ quit' \in {quit, TRUE} /\ pidofsort' \in {pidofsort, Child}
    OBVIOUS
  <2>3. UNCHANGED <<thread_active, thread_quit, numthreads_sleeping, tpc, phase, op, pid, told>>
    OBVIOUS
  <2> QED BY <2>1, <2>2, <2>3 DEF Inv, TypeOK
<1>2. LoadedIsAwake'
  BY DEF Inv, LoadedIsAwake
<1>3. LoadInv'
  BY DEF Inv, LoadInv, Loaded, Informed, Dormant
<1>4. Started'
  <2>1. UNCHANGED <<tpc, numthreads_sleeping>>
    OBVIOUS
  <2>2. AwaitThreads => \A i \in Cores : tpc[i] # "created"
    <3> SUFFICES ASSUME AwaitThreads PROVE \A i \in Cores : tpc[i] # "created"
      OBVIOUS
    <3> DEFINE S == {i \in Cores : tpc[i] # "created"}
    <3>1. S \subseteq Cores /\ Cardinality(S) = Cardinality(Cores)
      <4>1. S \subseteq Cores /\ Cardinality(S) <= Cardinality(Cores)
        BY CoresFinite, FS_Subset
      <4>2. Cardinality(S) >= p /\ Cardinality(S) \in Nat
        BY DEF Inv, Started, TypeOK
      <4> QED BY <4>1, <4>2, CoresFinite
    <3>2. S = Cores
      BY <3>1, CoresFinite, FS_Subset
    <3> QED BY <3>2
  <2>3. (mpc # "await" => \A i \in Cores : tpc[i] # "created")'
    BY <2>1, <2>2 DEF Inv, Started
  <2>4. /\ (spc = "unborn" <=> mpc \in {"await", "fork"})'
        /\ (cpc \notin Dormant => spc # "unborn")'
    BY DEF Inv, Started, Dormant
  <2> QED BY <2>1, <2>3, <2>4 DEF Inv, Started
<1> QED BY <1>1, <1>2, <1>3, <1>4 DEF Inv

\* A control step that leaves the load threads where they are keeps Started.
LEMMA StartedKept ==
  ASSUME Inv, UNCHANGED <<tpc, numthreads_sleeping, mpc, spc>>,
         cpc \in Dormant => cpc' \in Dormant
  PROVE  Started'
BY DEF Inv, Started

LEMMA InvBeforeLoading == ASSUME Inv, InstallHandler \/ Suspend \/ GetPid PROVE Inv'
<1> USE DEF InstallHandler, Suspend, GetPid, threadVars
<1>1. TypeOK'
  BY DEF Inv, TypeOK
<1>2. Started'
  BY StartedKept DEF Dormant
<1>3. LoadedIsAwake'
  BY DEF Inv, LoadedIsAwake
<1>4. LoadInv'
  <2>1. phase \in Phases
    BY BodyFacts DEF Inv, TypeOK, Phases
  <2>2. 0 \in Phases /\ 1 \in 1 .. Len(CallsOf(0)) /\ Done(0, 0) = {}
    BY StartCalls, DoneEnds DEF Phases
  <2>3. CASE InstallHandler \/ Suspend
    BY <2>3 DEF Inv, LoadInv, Dormant, Loaded, Informed
  <2>4. CASE GetPid
    <3>1. phase = 0 /\ op = 1 /\ Loaded = {} /\ told = {} /\ cpc' = "first"
      BY <2>4 DEF Inv, LoadInv
    <3>2. phase' = 0 /\ op' = 1 /\ Loaded' = {} /\ told' = {}
      BY <2>4, <3>1 DEF Loaded
    <3> QED BY <2>2, <3>1, <3>2 DEF LoadInv, Dormant
  <2> QED BY <2>3, <2>4
<1> QED BY <1>1, <1>2, <1>3, <1>4 DEF Inv

\* The call the control thread has come to.
LEMMA TheCall ==
  ASSUME Inv, cpc \in {"first", "second"}
  PROVE  /\ phase \in Phases /\ op \in 1 .. Len(CallsOf(phase))
         /\ Calls[op] = CallsOf(phase)[op] /\ Len(Calls) = Len(CallsOf(phase))
         /\ Calls[op].core \in Cores
         /\ Calls[op].call \in {"loadcore", "unloadcore"}
         /\ Calls[op].call = "loadcore" =>
              Done(phase, op) = Done(phase, op - 1) \cup {Calls[op].core}
         /\ Calls[op].call = "unloadcore" =>
              Done(phase, op) = Done(phase, op - 1) \ {Calls[op].core}
<1>1. phase \in Phases /\ op \in 1 .. Len(CallsOf(phase))
  BY BodyFacts DEF Inv, TypeOK, LoadInv, Phases
<1>2. Calls = CallsOf(phase)
  BY BodyFacts
<1> QED BY <1>1, <1>2, DoneStep

LEMMA InvLoadTells == ASSUME Inv, LoadTells PROVE Inv'
<1>1. /\ cpc = "first" /\ cpc' = "second" /\ Calls[op].call = "loadcore"
      /\ told' = IF Informed THEN told \cup {Calls[op].core} ELSE told
      /\ UNCHANGED <<thread_active, thread_quit, tpc, numthreads_sleeping, quit, pidofsort,
                     phase, op, pid, mpc, spc>>
  BY DEF LoadTells, Calling, Tell, Informed, threadVars
<1>2. TypeOK'
  BY <1>1, TheCall DEF Inv, TypeOK
<1>3. Started'
  BY <1>1, StartedKept DEF Dormant
<1>4. LoadedIsAwake'
  BY <1>1 DEF Inv, LoadedIsAwake
<1>5. LoadInv'
  <2>1. Loaded' = Loaded /\ Loaded = Done(phase, op - 1) /\ (Informed' <=> Informed)
    BY <1>1 DEF Loaded, Informed, Inv, LoadInv
  <2>2. Informed => told' = Done(phase, op)
    BY <1>1, <2>1, TheCall DEF Inv, LoadInv
  <2>3. op \in 1 .. Len(CallsOf(phase)) /\ CallsOf(phase)[op].call = "loadcore"
    BY <1>1, TheCall
  <2> QED BY <1>1, <2>1, <2>2, <2>3 DEF LoadInv, Dormant
<1> QED BY <1>2, <1>3, <1>4, <1>5 DEF Inv

LEMMA InvUnloadDeactivates == ASSUME Inv, UnloadDeactivates PROVE Inv'
<1>1. /\ cpc = "first" /\ cpc' = "second" /\ Calls[op].call = "unloadcore"
      /\ thread_active' = [thread_active EXCEPT ![Calls[op].core] = FALSE]
      /\ UNCHANGED <<thread_quit, tpc, numthreads_sleeping, quit, pidofsort, phase, op, pid, mpc,
                     spc, told>>
  BY DEF UnloadDeactivates, Calling
<1>2. TypeOK'
  BY <1>1 DEF Inv, TypeOK
<1>3. Started'
  BY <1>1, StartedKept DEF Dormant
<1>4. LoadedIsAwake'
  BY <1>1 DEF Inv, LoadedIsAwake, TypeOK
<1>5. LoadInv'
  <2>1. Loaded = Done(phase, op - 1) /\ (Informed' <=> Informed)
    BY <1>1 DEF Informed, Inv, LoadInv
  <2>2. Loaded' = Loaded \ {Calls[op].core}
    BY <1>1 DEF Loaded, Inv, TypeOK
  <2>3. Informed => told' = Done(phase, op - 1)
    BY <1>1, <2>1 DEF Inv, LoadInv
  <2>4. /\ op \in 1 .. Len(CallsOf(phase)) /\ CallsOf(phase)[op].call = "unloadcore"
        /\ Loaded' = Done(phase, op)
    BY <1>1, <2>1, <2>2, TheCall
  <2> QED BY <1>1, <2>1, <2>3, <2>4 DEF LoadInv, Dormant
<1> QED BY <1>2, <1>3, <1>4, <1>5 DEF Inv

\* After a call: the next one of the phase, or sleep.
LEMMA CallDone ==
  ASSUME Inv, cpc = "second", NextCall,
         Loaded' = Done(phase, op), Informed => told' = Done(phase, op)
  PROVE  LoadInv' /\ op' \in 0 .. p /\ cpc' \in {"first", "nap"}
<1>1. /\ phase \in Phases /\ op \in 1 .. Len(CallsOf(phase)) /\ Len(Calls) = Len(CallsOf(phase))
      /\ Len(CallsOf(phase)) \in 0 .. 4 /\ Len(CallsOf(phase)) <= p
      /\ Done(phase, Len(CallsOf(phase))) = After(phase)
      /\ p \in Nat
  BY TheCall, DoneEnds, CoresFinite
<1>2. phase' = phase /\ (Informed' <=> Informed)
  BY DEF NextCall, Informed
<1>3. CASE op < Len(CallsOf(phase))
  <2>1. op' = op + 1 /\ cpc' = "first"
    BY <1>1, <1>3 DEF NextCall
  <2>2. op' \in 1 .. Len(CallsOf(phase)) /\ op' - 1 = op /\ op' \in 0 .. p
    BY <1>1, <1>3, <2>1
  <2> QED BY <1>1, <1>2, <2>1, <2>2 DEF LoadInv, Dormant
<1>4. CASE ~(op < Len(CallsOf(phase)))
  <2>1. op' = 1 /\ cpc' = "nap" /\ op = Len(CallsOf(phase)) /\ 1 \in 0 .. p
    BY <1>1, <1>4 DEF NextCall
  <2> QED BY <1>1, <1>2, <2>1 DEF LoadInv, Dormant
<1> QED BY <1>3, <1>4

LEMMA InvLoadActivates == ASSUME Inv, LoadActivates PROVE Inv'
<1> DEFINE i == Calls[op].core
<1>1. /\ cpc = "second" /\ Calls[op].call = "loadcore" /\ NextCall
      /\ thread_active' = [thread_active EXCEPT ![i] = TRUE]
      /\ tpc' = [tpc EXCEPT ![i] = Awake(i)]
      /\ UNCHANGED <<thread_quit, numthreads_sleeping, quit, pidofsort, mpc, spc, told>>
  BY DEF LoadActivates, Calling, Notify
<1>2. i \in Cores /\ op \in 1 .. Len(CallsOf(phase)) /\ CallsOf(phase)[op].call = "loadcore"
  BY <1>1, TheCall
<1>3. \A k \in Cores : tpc[k] # "created"
  BY <1>1 DEF Inv, Started, Dormant
<1>4. Done(phase, op) = Done(phase, op - 1) \cup {i}
  BY <1>1, TheCall
<1> HIDE DEF i
<1>5. Loaded' = Loaded \cup {i}
  BY <1>1, <1>2 DEF Loaded, Inv, TypeOK
<1>6. Loaded' = Done(phase, op) /\ (Informed => told' = Done(phase, op))
  BY <1>1, <1>2, <1>4, <1>5 DEF Inv, LoadInv
<1>7. LoadInv' /\ op' \in 0 .. p /\ cpc' \in {"first", "nap"} /\ UNCHANGED <<phase, pid>>
  BY <1>1, <1>6, CallDone DEF NextCall
<1>8. Awake(i) \in {"loop", "work", "testquit", "lock", "retestquit", "exited"}
  BY <1>2, <1>3 DEF Awake, Inv, TypeOK
<1>9. TypeOK'
  BY <1>1, <1>7, <1>8, ZenonT(60) DEF Inv, TypeOK
<1>10. LoadedIsAwake'
  BY <1>1, <1>2, <1>8 DEF Inv, TypeOK, LoadedIsAwake
<1>11. Started'
  <2>1. \A k \in Cores : tpc'[k] # "created"
    BY <1>1, <1>2, <1>3, <1>8 DEF Inv, TypeOK
  <2>2. {k \in Cores : tpc'[k] # "created"} = {k \in Cores : tpc[k] # "created"}
    BY <1>3, <2>1
  <2>3. spc # "unborn"
    BY <1>1 DEF Inv, Started, Dormant
  <2> QED BY <1>1, <2>1, <2>2, <2>3 DEF Inv, Started
<1> QED BY <1>7, <1>9, <1>10, <1>11 DEF Inv

LEMMA InvUnloadTells == ASSUME Inv, UnloadTells PROVE Inv'
<1>1. /\ cpc = "second" /\ Calls[op].call = "unloadcore" /\ NextCall
      /\ told' = IF Informed THEN told \ {Calls[op].core} ELSE told
      /\ UNCHANGED <<thread_active, thread_quit, tpc, numthreads_sleeping, quit, pidofsort,
                     mpc, spc>>
  BY DEF UnloadTells, Calling, Tell, Informed, threadVars
<1>2. /\ op \in 1 .. Len(CallsOf(phase)) /\ CallsOf(phase)[op].call = "unloadcore"
      /\ Done(phase, op) = Done(phase, op - 1) \ {Calls[op].core}
  BY <1>1, TheCall
<1>3. Loaded' = Done(phase, op) /\ (Informed => told' = Done(phase, op))
  BY <1>1, <1>2 DEF Inv, LoadInv, Loaded
<1>4. LoadInv' /\ op' \in 0 .. p /\ cpc' \in {"first", "nap"} /\ UNCHANGED <<phase, pid>>
  BY <1>1, <1>3, CallDone DEF NextCall
<1>5. TypeOK'
  BY <1>1, <1>4 DEF Inv, TypeOK
<1>6. LoadedIsAwake'
  BY <1>1 DEF Inv, LoadedIsAwake
<1>7. Started'
  BY <1>1, StartedKept DEF Dormant
<1> QED BY <1>4, <1>5, <1>6, <1>7 DEF Inv

LEMMA InvNap == ASSUME Inv, Nap PROVE Inv'
<1> DEFINE ph == (phase % 4) + 1
<1>1. /\ phase \in Phases /\ ph \in Phases /\ ph # 0 /\ NextPhase = ph
      /\ Before(ph) = After(phase) /\ Body[NextPhase] = CallsOf(ph)
  <2>1. phase \in Phases /\ NextPhase = ph
    BY BodyFacts DEF Inv, TypeOK, Phases
  <2>2. ph \in Phases /\ ph # 0
    BY <2>1 DEF Phases
  <2> QED BY <2>1, <2>2 DEF Before, After, CallsOf
<1>2. /\ cpc = "nap" /\ phase' = ph /\ op' = 1
      /\ cpc' = IF CallsOf(ph) = <<>> THEN "nap" ELSE "first"
      /\ UNCHANGED <<thread_active, thread_quit, tpc, numthreads_sleeping, quit, pidofsort, pid,
                     mpc, spc, told>>
  BY <1>1 DEF Nap, threadVars
<1> HIDE DEF ph
<1>3. /\ Done(ph, 0) = After(phase)
      /\ Done(ph, Len(CallsOf(ph))) = After(ph)
      /\ Len(CallsOf(ph)) \in Nat
  BY <1>1, DoneEnds
<1>4. TypeOK'
  BY <1>1, <1>2, CoresFinite, BodyFacts DEF Inv, TypeOK, Phases
<1>5. Started' /\ LoadedIsAwake'
  BY <1>2, StartedKept DEF Dormant, Inv, LoadedIsAwake
<1>6. /\ Loaded' = After(phase) /\ (Informed' => told' = Loaded')
  BY <1>2 DEF Loaded, Informed, Inv, LoadInv
<1>7. LoadInv'
  <2>1. CASE CallsOf(ph) = <<>>
    <3>1. Len(CallsOf(ph)) = 0 /\ cpc' = "nap"
      BY <1>2, <2>1
    <3> QED BY <1>2, <1>3, <1>6, <3>1 DEF LoadInv, Dormant
  <2>2. CASE CallsOf(ph) # <<>>
    <3>1. Len(CallsOf(ph)) # 0
      BY <1>1, <2>2, CallsAreLists
    <3>2. 1 \in 1 .. Len(CallsOf(ph)) /\ cpc' = "first"
      BY <1>2, <1>3, <2>2, <3>1
    <3> QED BY <1>2, <1>3, <1>6, <3>2 DEF LoadInv, Dormant
  <2> QED BY <2>1, <2>2
<1> QED BY <1>4, <1>5, <1>7 DEF Inv

LEMMA InvQuit == ASSUME Inv, NapQuit \/ SetThreadQuit \/ EndLoad \/ WakeToQuit PROVE Inv'
<1>1. CASE NapQuit \/ SetThreadQuit
  <2> USE <1>1 DEF NapQuit, SetThreadQuit, threadVars
  <2>1. TypeOK'
    <3>1. cpc' \in {"quit", "wake"} /\ op' \in {op, 0} /\ 0 \in 0 .. p
      BY CoresFinite
    <3>2. thread_quit' \in [Cores -> BOOLEAN]
      BY DEF Inv, TypeOK
    <3>3. UNCHANGED <<thread_active, tpc, numthreads_sleeping, quit, pidofsort, phase, pid, mpc, spc,
                     told>>
      OBVIOUS
    <3> QED BY <3>1, <3>2, <3>3 DEF Inv, TypeOK
  <2>2. Started' /\ LoadedIsAwake'
    BY StartedKept DEF Dormant, Inv, LoadedIsAwake
  <2>3. LoadInv'
    BY CoresFinite DEF Inv, LoadInv, Loaded, Informed, Dormant, Cores
  <2> QED BY <2>1, <2>2, <2>3 DEF Inv
<1>2. CASE EndLoad
  <2> USE <1>2 DEF EndLoad, NextQuit
  <2>0. op \in Cores /\ op + 1 \in 0 .. p /\ (op + 1 < p => op + 1 \in Cores)
    BY CoresFinite DEF Inv, LoadInv, Cores
  <2>1. TypeOK'
    BY <2>0 DEF Inv, TypeOK
  <2>2. Started' /\ LoadedIsAwake'
    BY StartedKept DEF Dormant, Inv, LoadedIsAwake, TypeOK
  <2>3. Loaded' \subseteq Loaded /\ (Informed' <=> Informed)
    BY DEF Loaded, Informed, Inv, TypeOK
  <2>4. LoadInv'
    BY <2>0, <2>3 DEF Inv, LoadInv, Dormant
  <2> QED BY <2>1, <2>2, <2>4 DEF Inv
<1>3. CASE WakeToQuit
  <2> USE <1>3 DEF WakeToQuit, NextQuit, Notify
  <2>0. op \in Cores /\ op + 1 \in 0 .. p /\ (op + 1 < p => op + 1 \in Cores)
    BY CoresFinite DEF Inv, LoadInv, Cores
  <2>1. Awake(op) \in {tpc[op], "loop", "retestquit"} /\ (Awake(op) = "created" <=> tpc[op] = "created")
    BY DEF Awake
  <2>2. TypeOK'
    BY <2>0, <2>1 DEF Inv, TypeOK
  <2>3. LoadedIsAwake'
    BY <2>0, <2>1 DEF Inv, LoadedIsAwake, TypeOK
  <2>4. {k \in Cores : tpc'[k] # "created"} = {k \in Cores : tpc[k] # "created"}
    BY <2>0, <2>1 DEF Inv, TypeOK
  <2>5. Started'
    <3>1. \A k \in Cores : tpc[k] # "created" => tpc'[k] # "created"
      BY <2>4
    <3> QED BY <2>4, <3>1 DEF Inv, Started, Dormant
  <2>6. LoadInv'
    BY <2>0 DEF Inv, LoadInv, Loaded, Informed, Dormant
  <2> QED BY <2>2, <2>3, <2>5, <2>6 DEF Inv
<1> QED BY <1>1, <1>2, <1>3

LEMMA InvStutter == Inv /\ UNCHANGED vars => Inv'
BY DEF Inv, TypeOK, Started, LoadedIsAwake, LoadInv, Loaded, Informed, vars

LEMMA InvStep == Inv /\ [Next]_vars => Inv'
BY InvThread, InvMain, InvBeforeLoading, InvLoadTells, InvUnloadDeactivates, InvLoadActivates,
   InvUnloadTells, InvNap, InvQuit, InvStutter DEF Next, ControlStep, MainStep

LEMMA InvCorrect == Spec => []Inv
BY InvInit, InvStep, PTL DEF Spec

-----------------------------------------------------------------------------
(* Theorems.                                                                *)

\* Every variable keeps its type: op never leaves the list of calls or the
\* cores, and no load thread counts itself twice.
THEOREM TypeCorrect == Spec => []TypeOK
<1>1. Inv => TypeOK
  BY DEF Inv
<1> QED BY <1>1, InvCorrect, PTL

\* No load thread is left in a wait while its core is to be loaded.
THEOREM LoadedCoresAreAwake == Spec => []LoadedIsAwake
<1>1. Inv => LoadedIsAwake
  BY DEF Inv
<1> QED BY <1>1, InvCorrect, PTL

\* loadcore and unloadcore tell the sorting process in the order that keeps
\* every loaded core among those it has been told are blocked, in each pattern.
THEOREM LoadsAreAnnounced == Spec => []LoadIsAnnounced
<1>1. Inv => LoadIsAnnounced
  <2> SUFFICES ASSUME Inv, Informed PROVE Loaded \subseteq told
    BY DEF LoadIsAnnounced
  <2>1. CASE cpc \in {"first", "second"}
    <3>1. CASE cpc = "first"
      BY <3>1 DEF Inv, LoadInv
    <3>2. CASE cpc = "second" /\ Calls[op].call = "loadcore"
      BY <3>2, TheCall DEF Inv, LoadInv
    <3>3. CASE cpc = "second" /\ Calls[op].call = "unloadcore"
      BY <3>3, TheCall DEF Inv, LoadInv
    <3> QED BY <2>1, <3>1, <3>2, <3>3, TheCall
  <2>2. CASE cpc \notin {"first", "second"}
    BY <2>2 DEF Inv, LoadInv, TypeOK, Dormant
  <2> QED BY <2>1, <2>2
<1> QED BY <1>1, InvCorrect, PTL

\* The loop of controlthreadfunc follows the diagram in its comment, row by row,
\* in each of the three patterns.
THEOREM PatternsAreShown == Spec => []NapShowsPattern
<1>1. Inv => NapShowsPattern
  <2>1. Len(Diagram) = 4
    <3>1. load_pattern = 1 \/ load_pattern = 2 \/ load_pattern = 3
      OBVIOUS
    <3> QED BY <3>1 DEF Diagram
  <2> QED BY <2>1 DEF Inv, LoadInv, NapShowsPattern, After
<1> QED BY <1>1, InvCorrect, PTL

=============================================================================
