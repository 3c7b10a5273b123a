------------------------ MODULE MCSchedulerSingleton ------------------------
(* Instances of SchedulerSingleton for TLC. *)
EXTENDS SchedulerSingleton

=============================================================================
