---------------------------- MODULE MCPipeline ----------------------------
(* Instances of Pipeline for TLC. *)
EXTENDS Pipeline

T(x, from, access, neg) == [id |-> x, src |-> from, inout |-> access, not |-> neg]
Sys(ts, threaded, immediate) == [terms |-> ts, mt |-> threaded, imm |-> immediate]

AnyId == {"a", "b", "c"}
PairId == {"b", "c"}

\* Terms on what a system matches, on other entities and without a source,
\* with pair wildcards and EcsWildcard, and the flags.
AllDescs == {
  Sys(<<T({"a"}, "self", "default", FALSE)>>, TRUE, FALSE),
  Sys(<<T({"a"}, "none", "out", FALSE), T({"a"}, "self", "in", FALSE),
        T({"b"}, "self", "out", TRUE)>>, TRUE, FALSE),
  Sys(<<T({"a"}, "up", "default", FALSE), T(PairId, "fixed", "inout", FALSE)>>, FALSE, FALSE),
  Sys(<<T(PairId, "self", "none", FALSE), T({"a"}, "self", "filter", FALSE)>>, FALSE, TRUE),
  Sys(<<T(AnyId, "none", "out", FALSE), T({"a"}, "none", "default", FALSE)>>, FALSE, FALSE)}
=============================================================================
