---------------------------- MODULE MCWorkQueue ----------------------------
(* Instances of WorkQueue for TLC. *)
EXTENDS WorkQueue, TLC

\* Workers and packets are interchangeable; so are clients and queues.
Symmetry ==
  Permutations(Workers) \cup Permutations(Items)
    \cup Permutations(Clients) \cup Permutations(Queues)

=============================================================================
