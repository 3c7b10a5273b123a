--------------------------- MODULE MCMalleableSort ---------------------------
(* Instances of MalleableSort for TLC. *)
EXTENDS MalleableSort

=============================================================================
