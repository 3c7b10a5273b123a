--------------------------- MODULE MCDynLoadCores ---------------------------
(* Instances of DynLoadCores for TLC. *)
EXTENDS DynLoadCores

=============================================================================
