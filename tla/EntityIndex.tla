---------------------------- MODULE EntityIndex ----------------------------
(***************************************************************************)
(* The entity index of flecs.c: the dense vector with the alive entities   *)
(* first and the recyclable ones after them, the record of each id, and    *)
(* the id ranges.                                                          *)
(*                                                                         *)
(* A position in dense is the index of the C vector, whose element 0 is    *)
(* not used: alive is alive_count - 1.  Record pages are one function.     *)
(***************************************************************************)
EXTENDS Integers, Sequences, FiniteSets

CONSTANTS
  MaxId,     \* bound on the ids
  GenCount,  \* 65536: the generation is a 16-bit number
  MaxBulk,   \* bound on the entities that ecs_bulk_new creates at once
  MaxRanges, \* bound on the ranges
  Asserts,   \* a build with assertions: an operation that fails one aborts
  Polite     \* the application makes only ids of the active range alive and
             \* creates no more entities in bulk than it has ids for

ASSUME ConstantsAssumption ==
  /\ MaxId \in Nat /\ GenCount \in Nat \ {0} /\ MaxBulk \in Nat /\ MaxRanges \in Nat
  /\ Asserts \in BOOLEAN /\ Polite \in BOOLEAN

Ids == 1..MaxId
Gens == 0..GenCount - 1
Handles == [id : Ids, gen : Gens]

VARIABLES
  dense,   \* the vector of handles
  alive,   \* how many of them, from the first, are alive
  rec,     \* record of each id: its position in dense, or 0
  maxId,   \* index->max_id
  ranges,  \* from the min of each range to its max (0 for none), cur and recycled
  active,  \* the min of the active range, or 0
  dead,    \* the deleted handles that the application has not claimed again
  fresh    \* the ids that the last creation returned

vars == <<dense, alive, rec, maxId, ranges, active, dead, fresh>>

TypeOK ==
  /\ dense \in Seq(Handles) /\ alive \in 0..Len(dense)
  /\ rec \in [Ids -> 0..Len(dense)] /\ maxId \in 0..MaxId
  /\ DOMAIN ranges \subseteq Ids /\ active \in {0} \cup DOMAIN ranges
  /\ \A m \in DOMAIN ranges :
       ranges[m] \in [max : 0..MaxId, cur : 0..MaxId, recycled : Seq(Handles)]
  /\ dead \subseteq Handles /\ fresh \subseteq Ids

Init ==
  /\ dense = <<>> /\ alive = 0 /\ rec = [i \in Ids |-> 0] /\ maxId = 0
  /\ ranges = [m \in {} |-> 0] /\ active = 0 /\ dead = {} /\ fresh = {}

-----------------------------------------------------------------------------
H(i, g) == [id |-> i, gen |-> g]
Of(i) == {H(i, g) : g \in Gens}

\* Mutant: the generation stays.
GenerationInc_Same(h) == h

\* ECS_GENERATION_INC
GenerationInc(h) == H(h.id, (h.gen + 1) % GenCount)

NotAlive == Len(dense) - alive
Exists(i) == rec[i] # 0
IsAlive(h) == Exists(h.id) /\ rec[h.id] <= alive /\ dense[rec[h.id]] = h
AliveIds == {i \in Ids : Exists(i) /\ rec[i] <= alive}

InRange(i, m) == m <= i /\ (ranges[m].max = 0 \/ i <= ranges[m].max)
InActive(i) == IF active = 0 THEN TRUE ELSE InRange(i, active)

\* dense and rec after the entities at positions j and k change places and
\* become g and h.
Swapped(j, k, g, h) ==
  /\ dense' = [dense EXCEPT ![j] = g, ![k] = h]
  /\ rec' = [rec EXCEPT ![g.id] = j, ![h.id] = k]

-----------------------------------------------------------------------------
(* Creating entities. *)

Recycle ==
  /\ alive < Len(dense)
  /\ alive' = alive + 1 /\ fresh' = {dense[alive + 1].id}
  /\ dead' = dead \ {dense[alive + 1]}
  /\ UNCHANGED <<dense, rec, maxId>>

\* The assertions: the id has not been issued before, and is in the range.
NewId ==
  /\ alive = Len(dense)
  /\ maxId < MaxId
  /\ LET id == maxId + 1 IN
     /\ Asserts => ~Exists(id) /\ InActive(id)
     /\ maxId' = id
     /\ dense' = Append(dense, H(id, 0)) /\ alive' = alive + 1
     /\ rec' = [rec EXCEPT ![id] = alive + 1]
     /\ dead' = dead \ {H(id, 0)}
     /\ fresh' = {id}

\* flecs_entity_index_new_id
New == (Recycle \/ NewId) /\ UNCHANGED <<ranges, active>>

\* flecs_entity_index_new_ids: what is not recycled is added to max_id,
\* wherever the active range ends.
NewIds(count) ==
  /\ count > 0
  /\ LET added == IF count > NotAlive THEN count - NotAlive ELSE 0
         all == dense \o [k \in 1..added |-> H(maxId + k, 0)]
         created == {all[k] : k \in alive + 1..alive + count} IN
     /\ maxId + added <= MaxId
     /\ Asserts => \A k \in 1..added : ~Exists(maxId + k)
     /\ Polite => \A k \in 1..added : InActive(maxId + k)
     /\ dense' = all /\ alive' = alive + count /\ maxId' = maxId + added
     /\ rec' = [i \in Ids |-> IF i \in maxId + 1..maxId + added
                              THEN Len(dense) + i - maxId ELSE rec[i]]
     /\ dead' = dead \ created
     /\ fresh' = {h.id : h \in created}
  /\ UNCHANGED <<ranges, active>>

-----------------------------------------------------------------------------
(* Making a given id alive. *)

\* flecs_entity_index_ensure: the entity, at the end of dense if it is new, is
\* swapped with the first that is not alive.
EnsureNew(h) ==
  /\ ~Exists(h.id)
  /\ LET last == Len(dense) + 1  first == Append(dense, h)[alive + 1] IN
     /\ dense' = [Append(dense, h) EXCEPT ![last] = first, ![alive + 1] = h]
     /\ rec' = [rec EXCEPT ![first.id] = last, ![h.id] = alive + 1]
  /\ alive' = alive + 1

EnsureDead(h) ==
  /\ Exists(h.id) /\ rec[h.id] > alive
  /\ LET first == IF rec[h.id] = alive + 1 THEN h ELSE dense[alive + 1] IN
     Swapped(rec[h.id], alive + 1, first, h)
  /\ alive' = alive + 1

\* ecs_make_alive with an id of which no generation is alive.
MakeAlive(h) ==
  /\ h.id \notin AliveIds
  /\ Polite => InActive(h.id)
  /\ EnsureNew(h) \/ EnsureDead(h)
  /\ maxId' = IF ~Exists(h.id) /\ h.id > maxId THEN h.id ELSE maxId
  /\ dead' = dead \ Of(h.id) /\ fresh' = {}
  /\ UNCHANGED <<ranges, active>>

\* ecs_set_version, whether the entity is alive or not.
SetVersion(h) ==
  /\ Exists(h.id)
  /\ dense' = [dense EXCEPT ![rec[h.id]] = h]
  /\ dead' = dead \ Of(h.id) /\ fresh' = {}
  /\ UNCHANGED <<alive, rec, maxId, ranges, active>>

-----------------------------------------------------------------------------
(* Deleting entities. *)

\* Mutant: the record of the entity that takes the deleted one's place is not
\* updated.
Removed_StaleRecord(h) ==
  [dense |-> [dense EXCEPT ![rec[h.id]] = dense[alive], ![alive] = GenerationInc(h)],
   rec |-> [rec EXCEPT ![h.id] = alive]]

\* flecs_entity_index_remove_intern: the entity is swapped with the last alive.
Removed(h) ==
  [dense |-> [dense EXCEPT ![rec[h.id]] = dense[alive], ![alive] = GenerationInc(h)],
   rec |-> [rec EXCEPT ![dense[alive].id] = rec[h.id], ![h.id] = alive]]

\* Mutant: the id stays in dense.
Dropped_Stays(x, h) == x

\* flecs_entity_index_remove_not_alive after that: the last of dense takes the
\* place of the removed id.
Dropped(x, h) ==
  LET last == Len(x.dense) IN
  [dense |-> SubSeq([x.dense EXCEPT ![alive] = x.dense[last]], 1, last - 1),
   rec |-> [x.rec EXCEPT ![x.dense[last].id] = alive, ![h.id] = 0]]

\* Mutant: the id is left to the active range.
Delete_AnyRange(h) ==
  /\ IsAlive(h)
  /\ alive' = alive - 1
  /\ LET x == Removed(h) IN dense' = x.dense /\ rec' = x.rec
  /\ dead' = dead \cup {h} /\ fresh' = {}
  /\ UNCHANGED <<maxId, ranges, active>>

\* flecs_entity_index_remove.  An id outside of the active range is moved from
\* dense to the recycled ids of its range; without a range it is forgotten.
Delete(h) ==
  /\ IsAlive(h)
  /\ alive' = alive - 1
  /\ LET x == IF InActive(h.id) THEN Removed(h) ELSE Dropped(Removed(h), h) IN
     dense' = x.dense /\ rec' = x.rec
  /\ ranges' = [m \in DOMAIN ranges |->
       IF InActive(h.id) \/ ~InRange(h.id, m) THEN ranges[m]
       ELSE [ranges[m] EXCEPT !.recycled = Append(@, GenerationInc(h))]]
  /\ dead' = dead \cup {h} /\ fresh' = {}
  /\ UNCHANGED <<maxId, active>>

-----------------------------------------------------------------------------
(* Ranges. *)

RangeRecord(max, cur) == [max |-> max, cur |-> cur, recycled |-> <<>>]

Overlap(min, max, m) ==
  (ranges[m].max = 0 \/ min <= ranges[m].max) /\ (max = 0 \/ max >= m)

\* The first range comes with a range for the ids below it, which is active.
\* If an id above those was issued, a null pointer is written to.
FirstRange(min, max) ==
  /\ ranges = [m \in {} |-> 0]
  /\ IF min = 1
     THEN /\ max = 0 \/ max >= maxId
          /\ ranges' = [m \in {1} |-> RangeRecord(max, maxId)]
     ELSE /\ min - 1 >= maxId
          /\ ranges' = [m \in {1, min} |->
                          IF m = 1 THEN RangeRecord(min - 1, maxId) ELSE RangeRecord(max, min - 1)]
  /\ active' = 1

AnotherRange(min, max) ==
  /\ DOMAIN ranges # {}
  /\ \A m \in DOMAIN ranges : ~Overlap(min, max, m)
  /\ ranges' = [m \in DOMAIN ranges \cup {min} |->
                  IF m = min THEN RangeRecord(max, min - 1) ELSE ranges[m]]
  /\ UNCHANGED active

\* ecs_entity_range_new, which needs that nothing can be recycled.
RangeNew(min, max) ==
  /\ Cardinality(DOMAIN ranges) < MaxRanges
  /\ max = 0 \/ max >= min
  /\ NotAlive = 0
  /\ FirstRange(min, max) \/ AnotherRange(min, max)
  /\ fresh' = {}
  /\ UNCHANGED <<dense, alive, rec, maxId, dead>>

Saved ==
  IF active = 0 THEN ranges
  ELSE [ranges EXCEPT ![active].recycled = SubSeq(dense, alive + 1, Len(dense)),
                      ![active].cur = maxId]

\* Mutant: the range that is left does not keep its highest id.
SetRange_CurLost(m) ==
  /\ m \in DOMAIN ranges
  /\ LET loaded == Saved[m].recycled IN
     /\ dense' = SubSeq(dense, 1, alive) \o loaded
     /\ rec' = [i \in Ids |->
          IF \E k \in DOMAIN loaded : loaded[k].id = i
          THEN alive + CHOOSE k \in DOMAIN loaded : loaded[k].id = i
          ELSE IF rec[i] > alive THEN 0 ELSE rec[i]]
     /\ ranges' = [Saved EXCEPT ![m].recycled = <<>>]
     /\ maxId' = ranges[m].cur
  /\ active' = m
  /\ fresh' = {}
  /\ UNCHANGED <<alive, dead>>

\* flecs_entity_index_set_range: the recyclable ids of dense are those of the
\* active range.  The assertion: what is loaded has no table.
SetRange(m) ==
  /\ m \in DOMAIN ranges
  /\ LET loaded == Saved[m].recycled IN
     /\ Asserts => \A k \in DOMAIN loaded : loaded[k].id \notin AliveIds
     /\ dense' = SubSeq(dense, 1, alive) \o loaded
     /\ rec' = [i \in Ids |->
          IF \E k \in DOMAIN loaded : loaded[k].id = i
          THEN alive + CHOOSE k \in DOMAIN loaded : loaded[k].id = i
          ELSE IF rec[i] > alive THEN 0 ELSE rec[i]]
     /\ ranges' = [Saved EXCEPT ![m].recycled = <<>>]
     /\ maxId' = Saved[m].cur
  /\ active' = m
  /\ fresh' = {}
  /\ UNCHANGED <<alive, dead>>

-----------------------------------------------------------------------------
Next ==
  \/ New
  \/ \E count \in 1..MaxBulk : NewIds(count)
  \/ \E h \in Handles : MakeAlive(h) \/ SetVersion(h) \/ Delete(h)
  \/ \E min \in Ids, max \in {0} \cup Ids : RangeNew(min, max)
  \/ \E m \in Ids : SetRange(m)

Spec == Init /\ [][Next]_vars

-----------------------------------------------------------------------------
\* dense and the records are inverse to each other, so that every id is in
\* dense at most once and a handle finds its own entity: the assertions on
\* r_swap->dense in ensure and remove_intern.
Consistent ==
  /\ \A k \in DOMAIN dense : rec[dense[k].id] = k
  /\ \A i \in Ids : Exists(i) => rec[i] \in DOMAIN dense /\ dense[rec[i]].id = i

\* An id that can be recycled is in dense or in the list of its own range, in
\* one of them and once; the assertion of set_range that it has no table.
RecycledOnce ==
  \A m \in DOMAIN ranges :
    LET list == ranges[m].recycled IN
    \A k \in DOMAIN list :
      /\ InRange(list[k].id, m) /\ ~Exists(list[k].id)
      /\ \A j \in DOMAIN list : list[j].id = list[k].id => j = k

\* The next id of no range has been issued: the assertion of new_id and new_ids.
NoIdClash ==
  /\ maxId < MaxId /\ InActive(maxId + 1) => ~Exists(maxId + 1)
  /\ \A m \in DOMAIN ranges \ {active} :
       ranges[m].cur < MaxId /\ InRange(ranges[m].cur + 1, m) => ~Exists(ranges[m].cur + 1)

\* Documentation of ecs_entity_range_set: new ids fall within the active range,
\* recycled ones included.
NewInRange == \A i \in fresh : InActive(i)

E == INSTANCE EntityIds WITH alive <- {dense[k] : k \in 1..alive}, dead <- dead

\* A handle is never issued twice, unless all generations of its id were used.
ImplementsEntityIds == E!Spec
=============================================================================
