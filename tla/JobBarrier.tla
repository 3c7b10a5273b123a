----------------------------- MODULE JobBarrier -----------------------------
(***************************************************************************)
(* What a job queue promises the thread that generates its packets, without *)
(* mutexes, condition variables or counters: packets are submitted, each is *)
(* started once and completed once, and a client that waits for a job gets  *)
(* through only when nothing of that job is waiting to be started or still  *)
(* running.  WorkQueue.tla is shown to implement this specification.        *)
(***************************************************************************)

CONSTANTS
  Queues,   \* the jobs
  Items,    \* the packets
  Clients,  \* the threads that submit packets and wait for them
  NoQueue   \* not a job

VARIABLES
  todo,     \* todo[j]: packets of j that nobody has started
  doing,    \* doing[j]: packets of j that some worker is executing
  done,     \* packets whose effect is complete
  barrier   \* barrier[c]: the job whose completion client c waits for, or NoQueue

vars == <<todo, doing, done, barrier>>

Init ==
  /\ todo = [j \in Queues |-> {}]
  /\ doing = [j \in Queues |-> {}]
  /\ done = {}
  /\ barrier = [c \in Clients |-> NoQueue]

\* A packet enters one job, once.
Submit(j, i) ==
  /\ i \notin done
  /\ \A k \in Queues : i \notin todo[k] \cup doing[k]
  /\ todo' = [todo EXCEPT ![j] = @ \cup {i}]
  /\ UNCHANGED <<doing, done, barrier>>

Start(j, i) ==
  /\ i \in todo[j]
  /\ todo' = [todo EXCEPT ![j] = @ \ {i}]
  /\ doing' = [doing EXCEPT ![j] = @ \cup {i}]
  /\ UNCHANGED <<done, barrier>>

Complete(j, i) ==
  /\ i \in doing[j]
  /\ doing' = [doing EXCEPT ![j] = @ \ {i}]
  /\ done' = done \cup {i}
  /\ UNCHANGED <<todo, barrier>>

Wait(c, j) ==
  /\ barrier[c] = NoQueue
  /\ barrier' = [barrier EXCEPT ![c] = j]
  /\ UNCHANGED <<todo, doing, done>>

\* The promise: the barrier opens only over a job with nothing outstanding.
Return(c, j) ==
  /\ barrier[c] = j
  /\ todo[j] = {}
  /\ doing[j] = {}
  /\ barrier' = [barrier EXCEPT ![c] = NoQueue]
  /\ UNCHANGED <<todo, doing, done>>

Next ==
  \E j \in Queues :
    \/ \E i \in Items : Submit(j, i) \/ Start(j, i) \/ Complete(j, i)
    \/ \E c \in Clients : Wait(c, j) \/ Return(c, j)

Spec == Init /\ [][Next]_vars

=============================================================================
