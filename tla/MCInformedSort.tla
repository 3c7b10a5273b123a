--------------------------- MODULE MCInformedSort ---------------------------
(* Instances of InformedSort for TLC. *)
EXTENDS InformedSort

=============================================================================
