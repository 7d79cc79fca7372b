--------------------------- MODULE MCEntityIndex ---------------------------
(* Instances of EntityIndex for TLC. *)
EXTENDS EntityIndex
=============================================================================
