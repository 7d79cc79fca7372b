------------------------------ MODULE EntityIds ------------------------------
(***************************************************************************)
(* What entity ids promise: a handle is an id with a generation, at most   *)
(* one handle of an id is alive, and the handle of a deleted entity stays  *)
(* dead until every generation of its id has been used.                    *)
(***************************************************************************)
CONSTANTS Ids, Gens

Handles == [id : Ids, gen : Gens]
Of(i) == {h \in Handles : h.id = i}

VARIABLES
  alive,  \* the handles of the entities that exist
  dead    \* the handles of deleted entities that were not claimed again

vars == <<alive, dead>>

Init == alive = {} /\ dead = {}

\* New handles.
Create(hs) ==
  /\ \A h \in hs : /\ Of(h.id) \cap (alive \cup hs) = {h} /\ h \notin alive
                   /\ h \in dead => Of(h.id) \subseteq dead
  /\ alive' = alive \cup hs
  /\ dead' = dead \ hs

Delete(h) ==
  /\ h \in alive
  /\ alive' = alive \ {h}
  /\ dead' = dead \cup {h}

\* The application decides on the generation of an id: it is alive, or not
\* alive and will have this generation when it is created.
Claim(h) ==
  /\ alive' \in {(alive \ Of(h.id)) \cup {h}, alive}
  /\ dead' = dead \ Of(h.id)

Next ==
  \/ \E hs \in SUBSET Handles : Create(hs)
  \/ \E h \in Handles : Delete(h) \/ Claim(h)

Spec == Init /\ [][Next]_vars
=============================================================================
