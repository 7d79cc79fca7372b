------------------------------ MODULE Barrier ------------------------------
(***************************************************************************)
(* What the worker threads of flecs promise: the operations of a pipeline  *)
(* are supersteps.  A team of stages computes in parallel, each recording  *)
(* commands on its own stage; the commands of all stages are merged after  *)
(* the whole team has finished and before the next superstep opens.        *)
(***************************************************************************)
CONSTANTS Stages, Main

VARIABLES
  team,   \* the stages that compute; {} between two supersteps
  done,   \* those of the team that have finished
  outbox  \* the stages with commands that are not merged yet

vars == <<team, done, outbox>>

TypeOK == team \subseteq Stages /\ done \subseteq team /\ outbox \subseteq Stages

Init == team = {} /\ done = {} /\ outbox = {}

Open(T) ==
  /\ team = {} /\ outbox = {} /\ Main \in T
  /\ team' = T
  /\ UNCHANGED <<done, outbox>>

Record(i) ==
  /\ i \in team \ done
  /\ outbox' = outbox \cup {i}
  /\ UNCHANGED <<team, done>>

Finish(i) ==
  /\ i \in team \ done
  /\ done' = done \cup {i}
  /\ UNCHANGED <<team, outbox>>

Close ==
  /\ team # {} /\ done = team
  /\ team' = {} /\ done' = {}
  /\ UNCHANGED outbox

Merge(i) ==
  /\ team = {} /\ i \in outbox
  /\ outbox' = outbox \ {i}
  /\ UNCHANGED <<team, done>>

Next ==
  \/ \E T \in SUBSET Stages : Open(T)
  \/ \E i \in Stages : Record(i) \/ Finish(i) \/ Merge(i)
  \/ Close

Fairness ==
  /\ \A i \in Stages : WF_vars(Finish(i)) /\ WF_vars(Merge(i))
  /\ WF_vars(Close)

SafeSpec == Init /\ [][Next]_vars
Spec == SafeSpec /\ Fairness
=============================================================================
