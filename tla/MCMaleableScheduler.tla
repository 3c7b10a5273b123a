------------------------- MODULE MCMaleableScheduler -------------------------
(* Instances of MaleableScheduler for TLC. *)
EXTENDS MaleableScheduler

\* Packets are interchangeable, and so are jobs.
Symmetry == Permutations(Items) \cup Permutations(Jobs)

=============================================================================
