---- MODULE MCTableStorage ----
(* Instances of TableStorage for TLC. *)
EXTENDS TableStorage

NoTypes == {}
TreeTypes == {{"A", "B"}}
IndexSymmetry == Permutations(Indices)
====
