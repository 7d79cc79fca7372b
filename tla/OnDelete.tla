------------------------------ MODULE OnDelete ------------------------------
(***************************************************************************)
(* What happens to the references to an entity when it is deleted          *)
(* (flecs.c, ecs_delete and flecs_on_delete).  An entity may be used in    *)
(* the ids of others, as a tag or as either side of a pair.  Its deletion  *)
(* marks the component records of those ids, follows the cleanup policies  *)
(* from table to table, empties the marked tables in the reverse of the    *)
(* order of marking, releases the records, runs the commands that          *)
(* observers queued meanwhile and only then takes the entity itself out.   *)
(* Entities are slots with a generation.  A table is the set of ids its    *)
(* entities have, so the tables in use are the values of type.  Ids keep   *)
(* no generation, as pairs do; for tags this is exact as long as commands  *)
(* of observers meet no recycled tag, which the assumptions ensure.        *)
(***************************************************************************)
EXTENDS Naturals, Sequences, FiniteSets, FiniteSetsExt, SequencesExt

CONSTANTS
    Slot,             \* slots of the entity index
    MaxGen,           \* bound: generations of a slot
    Id,               \* tags <<c, None>> and pairs <<r, t>> the application adds
    None, Star,       \* no target; the wildcard
    Patterns,         \* ids and wildcards passed to delete_with and remove_all
    OnDeletePolicy,       \* per slot, of (OnDelete, *): "none", "Remove" or "Delete"
    OnDeleteTargetPolicy, \* the same of (OnDeleteTarget, *)
    Budget,           \* bound: reactions of observers to one operation
    ObserversRefer,   \* may observers add references to the entity being deleted?
    ObserversRecycle  \* may entities they create take the slot of one being deleted?

Policy == {"none", "Remove", "Delete"}
Wildcards == (Slot \X {Star}) \cup ({Star} \X Slot)

ASSUME OnDeleteAssumption ==
    /\ MaxGen \in Nat
    /\ Budget \in 0 .. 2
    /\ Id \subseteq Slot \X (Slot \cup {None})
    /\ Patterns \subseteq Id \cup Wildcards
    /\ OnDeletePolicy \in [Slot -> Policy]
    /\ OnDeleteTargetPolicy \in [Slot -> Policy]
    /\ Budget > 0 => Id \subseteq Slot \X Slot

VARIABLES
    gen,      \* generation of the entity that has, or will next have, the slot
    alive,    \* slots of alive entities
    rows,     \* slots whose record points to a row of a table
    type,     \* slot -> ids of the entity
    flagged,  \* [id, target]: slots with row flag EcsEntityIsId, EcsEntityIsTarget
    records,  \* component records: ids and wildcards
    marks,    \* records with EcsIdMarkedForDelete
    doomed,   \* tables with EcsTableMarkedForDelete
    marked,   \* store.marked_ids
    part,     \* [first, last]: the part of marked_ids clear_entities is at
    stack,    \* frames of ecs_delete, delete_with and remove_all
    queue,    \* commands of observers
    phase,    \* where the top frame is
    budget,   \* reactions left
    before    \* the operation and the store it began with (history)

vars == <<gen, alive, rows, type, flagged, records, marks, doomed, marked, part,
          stack, queue, phase, budget, before>>
store == <<gen, alive, rows, type, flagged, records>>

Handle(s) == [slot |-> s, gen |-> gen[s]]
IsAlive(h) == h.slot \in alive /\ gen[h.slot] = h.gen

----------------------------------------------------------------------------
(* Ids, tables and policies                                                *)

IsPair(id) == id[2] # None
IsWildcard(id) == id[1] = Star \/ id[2] = Star
Match(id, p) == /\ id[1] = p[1] \/ p[1] = Star
                /\ id[2] = p[2] \/ (p[2] = Star /\ IsPair(id))
Elements(id) == {id[1], id[2]} \cap Slot

Tables == {type[s] : s \in rows}
TablesWith(p) == {T \in Tables : \E id \in T : Match(id, p)}
EntitiesOf(T) == {s \in rows : type[s] = T}

\* The traits of a relationship: those of the entity the model starts with.
OnDeleteOf(s) == IF gen[s] = 0 THEN OnDeletePolicy[s] ELSE "none"
OnDeleteTargetOf(s) == IF gen[s] = 0 THEN OnDeleteTargetPolicy[s] ELSE "none"

\* flecs_component_new: a pair brings the records of its wildcards; the flags
\* of its elements are set only when a record is created.
RecordsFor(id) == {id} \cup
    IF IsPair(id) THEN {<<id[1], Star>>, <<Star, id[2]>>} ELSE {}
NewRecords(id) == RecordsFor(id) \ records

AddId(s, id) ==
    /\ type' = [type EXCEPT ![s] = @ \cup {id}]
    /\ records' = records \cup NewRecords(id)
    /\ flagged' = [id |-> flagged.id \cup ({r[1] : r \in NewRecords(id)} \cap Slot),
                   target |-> flagged.target \cup ({r[2] : r \in NewRecords(id)} \cap Slot)]

----------------------------------------------------------------------------
(* Marking: a state m of the marks is threaded through the recursion       *)

\* Mutant: the pairs of a relationship are forgotten.
CallsFor_NoPairs(s) ==
    (IF s \in flagged.target THEN << [id |-> <<Star, s>>, action |-> "none"] >> ELSE <<>>)
    \o (IF s \in flagged.id THEN << [id |-> <<s, None>>, action |-> OnDeleteOf(s)] >>
                            ELSE <<>>)

\* The calls an entity's flags ask for, as (id, action, delete_id).
CallsFor(s) ==
    (IF s \in flagged.target THEN << [id |-> <<Star, s>>, action |-> "none"] >> ELSE <<>>)
    \o (IF s \in flagged.id THEN << [id |-> <<s, None>>, action |-> OnDeleteOf(s)],
                                    [id |-> <<s, Star>>, action |-> OnDeleteOf(s)] >>
                            ELSE <<>>)

\* Mutant: one pair for the target without the Delete policy saves the table.
ActionFor_Remove(T, id, action) ==
    IF action = "none" /\ id[1] = Star
      THEN IF \A i \in T : Match(i, id) => OnDeleteTargetOf(i[1]) = "Delete"
             THEN "Delete" ELSE "none"
      ELSE action

\* flecs_get_delete_action
ActionFor(T, id, action) ==
    IF action = "none" /\ id[1] = Star
      THEN IF \E i \in T : Match(i, id) /\ OnDeleteTargetOf(i[1]) = "Delete"
             THEN "Delete" ELSE "none"
      ELSE action

RECURSIVE Mark(_, _, _, _), MarkTarget(_, _)

\* flecs_component_mark_for_delete
Mark(m, id, action, deleteId) ==
    IF id \notin records \/ id \in m.marks THEN m
    ELSE
      LET pushed == [m EXCEPT
              !.marked = Append(@, [id |-> id, action |-> action, deleteId |-> deleteId]),
              !.marks = @ \cup {id}]
          Visit(T, acc) ==
              IF T \in acc.doomed \/ ActionFor(T, id, action) # "Delete" THEN acc
              ELSE FoldSet(LAMBDA s, a : MarkTarget(a, s),
                           [acc EXCEPT !.doomed = @ \cup {T}], EntitiesOf(T))
          visited == FoldSet(Visit, pushed, TablesWith(id))
      IN  [visited EXCEPT !.marks = @ \cup
              IF IsWildcard(id) THEN {r \in records : ~IsWildcard(r) /\ Match(r, id)} ELSE {}]

\* flecs_target_mark_for_delete
MarkTarget(m, s) ==
    LET ids == (IF s \in flagged.id THEN << <<s, None>>, <<s, Star>> >> ELSE <<>>)
               \o (IF s \in flagged.target THEN << <<Star, s>> >> ELSE <<>>)
    IN  FoldLeft(LAMBDA acc, id :
                     Mark(acc, id, IF id[1] = Star THEN "none" ELSE OnDeleteOf(s), TRUE),
                 m, ids)

Marked(m) == marked' = m.marked /\ marks' = m.marks /\ doomed' = m.doomed
Marks == [marked |-> marked, marks |-> marks, doomed |-> doomed]

----------------------------------------------------------------------------
(* Operations of the application, outside any cleanup                      *)

Frame(e, calls) == [e |-> e, calls |-> calls]
Remember(op) == before' = [op |-> op, gen |-> gen, alive |-> alive, type |-> type]
Top == stack[Len(stack)]

Start(e, calls) ==
    /\ stack' = <<Frame(e, calls)>>
    /\ phase' = IF calls = <<>> THEN "finish" ELSE "call"
    /\ budget' = Budget
    /\ UNCHANGED <<store, marks, doomed, marked, part, queue>>

New(s) ==
    /\ phase = "idle"
    /\ s \notin alive /\ gen[s] <= MaxGen
    /\ alive' = alive \cup {s}
    /\ rows' = rows \cup {s}
    /\ UNCHANGED <<gen, type, flagged, records, marks, doomed, marked, part, stack,
                   queue, phase, budget, before>>

Add(s, id) ==
    /\ phase = "idle"
    /\ s \in rows /\ Elements(id) \subseteq alive /\ id \notin type[s]
    /\ AddId(s, id)
    /\ UNCHANGED <<gen, alive, rows, marks, doomed, marked, part, stack, queue, phase,
                   budget, before>>

\* ecs_delete
Delete(s) ==
    /\ phase = "idle"
    /\ s \in rows
    /\ Start(Handle(s), CallsFor(s))
    /\ Remember([kind |-> "delete", on |-> s])

\* ecs_delete_with and ecs_remove_all
DeleteWith(p, action) ==
    /\ phase = "idle"
    /\ Elements(p) \subseteq alive
    /\ Start(None, << [id |-> p, action |-> action] >>)
    /\ Remember([kind |-> action, on |-> p])

----------------------------------------------------------------------------
(* flecs_on_delete                                                         *)

\* flecs_on_delete_mark.  Without a record there is nothing to clean up, and
\* a record that is marked already adds nothing to marked_ids.
Call ==
    /\ phase = "call" /\ Top.calls # <<>>
    /\ LET c == Head(Top.calls)
           m == Mark(Marks, c.id, c.action, Top.e # None)
       IN  /\ Marked(m)
           /\ IF m.marked = <<>>
                THEN /\ stack' = [stack EXCEPT ![Len(stack)].calls = Tail(@)]
                     /\ UNCHANGED <<phase, part>>
                ELSE /\ phase' = "clear"
                     /\ part' = [first |-> 1, last |-> Len(m.marked)]
                     /\ UNCHANGED stack
    /\ UNCHANGED <<store, queue, budget, before>>

\* What observers of OnRemove do in reaction to a step: nothing, queue a
\* command, create an entity, or delete one in suspended mode.
Queue(cmd) == queue' = Append(queue, cmd) /\ budget' = budget - 1

Dying == IF stack[1].e = None THEN {} ELSE {stack[1].e.slot}

MayRefer(id) == Elements(id) \subseteq IF ObserversRefer THEN alive ELSE alive \ Dying

Enqueue ==
    /\ budget > 0
    /\ \/ \E s \in rows, id \in Id :
              MayRefer(id) /\ Queue([op |-> "add", e |-> Handle(s), id |-> id])
       \/ \E s \in rows : Queue([op |-> "delete", e |-> Handle(s)])
       \/ \E p \in Patterns :
              Elements(p) \subseteq alive /\ Queue([op |-> "deletewith", e |-> None, id |-> p])

\* Entities that may be created; an id is recycled as soon as it is free.
Deleting == {f.e.slot : f \in {stack[k] : k \in {j \in DOMAIN stack : stack[j].e # None}}}
Free ==
    {s \in Slot \ alive : /\ budget > 0 /\ gen[s] <= MaxGen
                          /\ ObserversRecycle \/ s \notin Deleting}

\* The store after the entities of S left it, a new one took slot c (None if
\* there is none), and the entities of table T not in S kept the ids of kept.
Rewrite(S, c, T, kept) ==
    /\ alive' = (alive \cup ({c} \cap Slot)) \ S
    /\ rows' = (rows \cup ({c} \cap Slot)) \ S
    /\ gen' = [s \in Slot |-> IF s \in S THEN gen[s] + 1 ELSE gen[s]]
    /\ type' = [s \in Slot |-> IF s \in S THEN {}
                               ELSE IF s \in EntitiesOf(T) THEN kept ELSE type[s]]
    /\ flagged' = [id |-> flagged.id \ S, target |-> flagged.target \ S]
    /\ UNCHANGED records

\* A step that takes S out or ids of T off.  Observers hear of the ids that
\* are removed; a table without ids has none.
Observed(S, T, kept) ==
    \/ Rewrite(S, None, T, kept) /\ UNCHANGED <<queue, budget>>
    \/ T # {} /\ Rewrite(S, None, T, kept) /\ Enqueue
    \/ /\ T # {}
       /\ \E c \in Free : Rewrite(S, c, T, kept) /\ budget' = budget - 1 /\ UNCHANGED queue

\* Mutant: an id is compared with the marked ids instead of matched, so a
\* wildcard removes nothing.
Kept_NoWildcards(T) == T \ {marked[k].id : k \in DOMAIN marked}

\* flecs_remove_from_table drops every marked id.
Kept(T) == {id \in T : \A k \in DOMAIN marked : ~Match(id, marked[k].id)}

\* flecs_on_delete_clear_entities: the marked records, last to first.
Occupied == {k \in part.first .. part.last : TablesWith(marked[k].id) # {}}

Clear(T) ==
    /\ phase = "clear" /\ Occupied # {}
    /\ LET k == Max(Occupied)
           gone == IF marked[k].action = "Remove" \/ T \notin doomed
                     THEN {} ELSE EntitiesOf(T)
       IN  /\ T \in TablesWith(marked[k].id)
           /\ \/ Observed(gone, T, Kept(T)) /\ UNCHANGED <<marks, doomed, marked>>
              \/ \* ecs_delete while deferring is suspended only appends marks
                 /\ budget > 0
                 /\ \E s \in rows \ EntitiesOf(T) :
                      /\ Rewrite(gone \cup {s}, None, T, Kept(T))
                      /\ Marked(FoldLeft(LAMBDA m, c : Mark(m, c.id, c.action, TRUE),
                                         Marks, CallsFor(s)))
                 /\ budget' = budget - 1
                 /\ UNCHANGED queue
    /\ UNCHANGED <<part, stack, phase, before>>

\* Ids that were marked since the pass began are next.
MoreMarked ==
    /\ phase = "clear" /\ Occupied = {} /\ Len(marked) > part.last
    /\ part' = [first |-> part.last + 1, last |-> Len(marked)]
    /\ UNCHANGED <<store, marks, doomed, marked, stack, queue, phase, budget, before>>

\* Mutant: the pairs on the list of a wildcard are not released with it.
ClearIds_NoList ==
    /\ phase = "clear" /\ Occupied = {} /\ Len(marked) = part.last
    /\ LET freed == {marked[k].id : k \in {j \in DOMAIN marked : marked[j].deleteId}}
       IN  /\ records' = records \ freed
           /\ marks' = {}
           /\ doomed' = {}
    /\ marked' = <<>>
    /\ stack' = [stack EXCEPT ![Len(stack)].calls = Tail(@)]
    /\ phase' = "call"
    /\ part' = [first |-> 1, last |-> 0]
    /\ UNCHANGED <<gen, alive, rows, type, flagged, queue, budget, before>>

\* flecs_on_delete_clear_ids: the records of deleted ids are released, a
\* wildcard's with all pairs on its list; the others are only unmarked.
ClearIds ==
    /\ phase = "clear" /\ Occupied = {} /\ Len(marked) = part.last
    /\ LET freed == {marked[k].id : k \in {j \in DOMAIN marked : marked[j].deleteId}}
           listed == {r \in records : ~IsWildcard(r) /\ \E w \in freed : IsWildcard(w) /\ Match(r, w)}
       IN  /\ records' = records \ (freed \cup listed)
           /\ marks' = (marks \ {marked[k].id : k \in DOMAIN marked}) \cap records'
           /\ doomed' = {T \in doomed : \A k \in DOMAIN marked :
                                           \A id \in T : ~Match(id, marked[k].id)}
    /\ marked' = <<>>
    /\ stack' = [stack EXCEPT ![Len(stack)].calls = Tail(@)]
    /\ phase' = "call"
    /\ part' = [first |-> 1, last |-> 0]
    /\ UNCHANGED <<gen, alive, rows, type, flagged, queue, budget, before>>

----------------------------------------------------------------------------
(* The end of ecs_delete, and the flush                                    *)

\* Operations of observers are merged before the entity itself goes, unless
\* the call was itself made by the flush.
EndCalls ==
    /\ phase = "call" /\ Top.calls = <<>>
    /\ IF Len(stack) = 1 \/ Top.e = None
         THEN phase' = "flush" /\ stack' = (IF Len(stack) = 1 THEN stack ELSE Front(stack))
         ELSE phase' = "finish" /\ UNCHANGED stack
    /\ UNCHANGED <<store, marks, doomed, marked, part, queue, budget, before>>

\* The row that the entity's record points to is removed, then the entity
\* leaves the index, if it is still alive.
Finish ==
    /\ phase = "finish"
    /\ LET s == Top.e.slot
       IN  \/ IsAlive(Top.e) /\ Observed({s}, type[s], type[s])
           \/ /\ ~IsAlive(Top.e)
              /\ rows' = rows \ {s}
              /\ UNCHANGED <<gen, alive, type, flagged, records, queue, budget>>
    /\ phase' = "flush"
    /\ stack' = IF Len(stack) = 1 THEN << Frame(None, <<>>) >> ELSE Front(stack)
    /\ UNCHANGED <<marks, doomed, marked, part, before>>

Push(e, calls) ==
    /\ stack' = Append(stack, Frame(e, calls))
    /\ phase' = IF calls = <<>> THEN "finish" ELSE "call"

Discard == UNCHANGED <<store, stack, phase>>

\* flecs_remove_invalid: a pair whose relationship is gone is dropped; one
\* whose target is gone is dropped or, if the policy of the relationship says
\* so, deletes the entity.
FlushAdd(c) ==
    LET lost == Elements(c.id) \ alive
    IN  IF ~IsAlive(c.e) \/ c.id[1] \in lost
          THEN Discard
        ELSE IF lost = {}
          THEN AddId(c.e.slot, c.id) /\ UNCHANGED <<gen, alive, rows, stack, phase>>
        ELSE IF <<c.id[1], Star>> \in records /\ OnDeleteTargetOf(c.id[1]) = "Delete"
          THEN Push(c.e, CallsFor(c.e.slot)) /\ UNCHANGED store
        ELSE Discard

\* One command of flecs_defer_end.
Flush ==
    /\ phase = "flush" /\ queue # <<>>
    /\ LET c == Head(queue)
       IN  \/ c.op = "add" /\ FlushAdd(c)
           \/ /\ c.op = "delete"
              /\ IF IsAlive(c.e) THEN Push(c.e, CallsFor(c.e.slot)) /\ UNCHANGED store
                                 ELSE Discard
           \/ /\ c.op = "deletewith"
              /\ Push(None, << [id |-> c.id, action |-> "Delete"] >>)
              /\ UNCHANGED store
    /\ queue' = Tail(queue)
    /\ UNCHANGED <<marks, doomed, marked, part, budget, before>>

Flushed ==
    /\ phase = "flush" /\ queue = <<>>
    /\ IF stack[1].e # None
         THEN phase' = "finish" /\ UNCHANGED <<stack, budget, before>>
         ELSE phase' = "idle" /\ stack' = <<>> /\ budget' = 0 /\ before' = None
    /\ UNCHANGED <<store, marks, doomed, marked, part, queue>>

----------------------------------------------------------------------------
Init ==
    /\ gen = [s \in Slot |-> 0]
    /\ alive = {} /\ rows = {}
    /\ type = [s \in Slot |-> {}]
    /\ flagged = [id |-> {}, target |-> {}]
    /\ records = {} /\ marks = {} /\ doomed = {} /\ marked = <<>>
    /\ part = [first |-> 1, last |-> 0]
    /\ stack = <<>> /\ queue = <<>>
    /\ phase = "idle" /\ budget = 0 /\ before = None

Cleanup ==
    \/ Call \/ (\E T \in Tables : Clear(T)) \/ MoreMarked \/ ClearIds
    \/ EndCalls \/ Finish \/ Flush \/ Flushed

Next ==
    \/ \E s \in Slot : New(s) \/ Delete(s)
    \/ \E s \in Slot, id \in Id : Add(s, id)
    \/ \E p \in Patterns, action \in {"Delete", "Remove"} : DeleteWith(p, action)
    \/ Cleanup

\* An operation runs to its end in one call of the application.
Spec == Init /\ [][Next]_vars /\ WF_vars(Cleanup)

----------------------------------------------------------------------------
(* Properties                                                              *)

\* No entity has an id whose tag, relationship or target is gone, once an
\* operation has returned: what the documentation of the cleanup traits
\* promises of every policy.
NoDangling ==
    phase = "idle" => \A s \in rows : \A id \in type[s] : Elements(id) \subseteq alive

\* Every alive entity has a row, and every row is an alive entity's: the end
\* of ecs_delete takes the deleted entity's row, also when the entity was
\* already cleaned up by a cycle, and never another's.
RowsAreOfTheLiving == rows = alive

\* An id in use has its records, and the elements of a record are alive and
\* carry the row flags that make ecs_delete and the marking look for it.
ReferencesAreFound ==
    /\ \A s \in rows : \A id \in type[s] : RecordsFor(id) \subseteq records
    /\ \A r \in records : /\ {r[1]} \cap Slot \subseteq flagged.id \cap alive
                          /\ {r[2]} \cap Slot \subseteq flagged.target \cap alive

\* No mark outlives the cleanup that set it: a record or table that stays
\* marked is skipped by every later cleanup.
NoStaleMarks == marks = {} /\ doomed = {} /\ marked = <<>>

\* When an operation has returned, the next one finds all it needs.
ReadyForNext ==
    phase = "idle" => RowsAreOfTheLiving /\ ReferencesAreFound /\ NoStaleMarks

\* The entities that an operation must delete, from the store it began with:
\* the least set that has those it names and, for each of its members, those
\* whose ids have the member under a Delete policy.
TraitOf(b, policy, s) == IF b.gen[s] = 0 THEN policy[s] ELSE "none"
Named(b) ==
    IF b.op.kind = "delete" THEN {b.op.on}
    ELSE {s \in b.alive : b.op.kind = "Delete" /\ \E id \in b.type[s] : Match(id, b.op.on)}

RECURSIVE Cascade(_, _)
Cascade(b, dead) ==
    LET more == {s \in b.alive \ dead : \E id \in b.type[s] :
                   \/ id[1] \in dead /\ TraitOf(b, OnDeletePolicy, id[1]) = "Delete"
                   \/ id[2] \in dead /\ TraitOf(b, OnDeleteTargetPolicy, id[1]) = "Delete"}
    IN  IF more = {} THEN dead ELSE Cascade(b, dead \cup more)

Left(b, dead, s) ==
    {id \in b.type[s] : /\ Elements(id) \cap dead = {}
                        /\ ~(b.op.kind = "Remove" /\ Match(id, b.op.on))}

\* An operation deletes every entity the policies ask for, through cycles and
\* diamonds, whatever observers add in between; if observers do nothing it
\* deletes no other, and takes from the rest the ids of the dead only.
CleanupFollowsPolicies ==
    [][before # None /\ before' = None =>
         LET dead == Cascade(before, Named(before))
         IN  /\ \A s \in dead : gen'[s] > before.gen[s]
             /\ budget = Budget =>
                  /\ alive' = before.alive \ dead
                  /\ \A s \in alive' : type'[s] = Left(before, dead, s)]_vars

\* delete_with and remove_all leave no entity with the id.
NoneLeftWith ==
    [][before # None /\ before' = None /\ before.op.kind # "delete" /\ budget = Budget =>
         \A s \in rows' : \A id \in type'[s] : ~Match(id, before.op.on)]_vars

\* An operation returns: cycles of references, observers that delete during
\* the cleanup and the flush of their commands all come to an end.
OperationsReturn == (phase # "idle") ~> (phase = "idle")
=============================================================================
