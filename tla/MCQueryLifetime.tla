-------------------------- MODULE MCQueryLifetime --------------------------
\* QueryLifetime with the symmetries of its small instances.
EXTENDS QueryLifetime, TLC

Symmetry == Permutations(Refs) \cup Permutations(Queries)
=============================================================================
