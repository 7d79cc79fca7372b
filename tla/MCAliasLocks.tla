---------------------------- MODULE MCAliasLocks ----------------------------
(* Instances of AliasLocks for TLC. *)
EXTENDS AliasLocks, TLC

\* borrow slots are interchangeable, and so are the workers
Symmetry == Permutations(Borrows) \cup Permutations(Workers)
=============================================================================
