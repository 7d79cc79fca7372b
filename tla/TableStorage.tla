---------------------------- MODULE TableStorage ----------------------------
(***************************************************************************)
(* The tables of flecs.c and the cached references (ecs_ref_t, CachedRef)  *)
(* into them.                                                              *)
(*                                                                         *)
(* A table is named by its type, the set of its components; its id tells   *)
(* it from a table that had the same type earlier.  The columns of a table *)
(* are allocated together: mem names the allocation, 0 is none.  An        *)
(* address is an allocation, a column and a row, so a stale one is never   *)
(* mistaken for a new one.  The value in a column is named after the       *)
(* entity it was made for.  Rows count from 1.                             *)
(***************************************************************************)
EXTENDS Integers, Sequences, FiniteSets, SequencesExt, FiniteSetsExt

CONSTANTS
  Indices,       \* indices of entities
  Comps,         \* components with a column
  Refs,          \* the references the application keeps
  VersionSlots,  \* 256: length of world->table_version
  FastMod,       \* 2^32: table_version is an array of uint32_t
  VersionMod,    \* 2^16: table->version is a uint16_t
  Kept,          \* types whose table a tree spawner keeps (flecs_table_keep)
  ObserversRead, \* do observers that ecs_remove_all runs use references?
  MaxGen, MaxFast, MaxTables     \* bounds

ASSUME ConstantsAssumption ==
  /\ VersionSlots \in Nat \ {0} /\ FastMod \in Nat \ {0} /\ VersionMod \in Nat \ {0}
  /\ IsFiniteSet(Comps) /\ Kept \subseteq SUBSET Comps /\ {} \notin Kept /\ ObserversRead \in BOOLEAN
  /\ {MaxGen, MaxFast, MaxTables} \subseteq Nat

Types == SUBSET Comps
Root == {}
Entities == Indices \X (1..MaxGen)
RootId == <<0, 0>>
Null == [mem |-> 0, comp |-> {}, row |-> 0]
Raw == "uninitialized"

VARIABLES
  store,  \* rec, the record of each index; tab, from the type of each table to
          \* its id, version, ents (the entity of each row), cols (the values of
          \* each column), size and mem; fast, world->table_version; ids, the
          \* sparse set that issues table ids: next and the stack free
  refs,   \* the references, as sets of at most one
  op      \* the operation that is running observers, or Idle

vars == <<store, refs, op>>

Idle == [kind |-> "idle"]

EmptyTable(T, id) == [id |-> id, version |-> 1, ents |-> <<>>,
                      cols |-> [c \in T |-> <<>>], size |-> 0, mem |-> 0]

Init ==
  /\ store = [rec  |-> [i \in Indices |-> [gen |-> 1, alive |-> FALSE, table |-> Root, row |-> 0]],
              tab  |-> [T \in {Root} |-> EmptyTable(Root, RootId)],
              fast |-> [n \in 0..VersionSlots - 1 |-> 0],
              ids  |-> [next |-> 1, free |-> <<>>]]
  /\ refs = [r \in Refs |-> {}]
  /\ op = Idle

-----------------------------------------------------------------------------
(* References. *)

Slot(id) == id[1] % VersionSlots

Alive(e) == store.rec[e[1]].alive /\ store.rec[e[1]].gen = e[2]

\* flecs_get_component: where the component of an entity is stored now.
Resolve(e, c) ==
  LET r == store.rec[e[1]] IN
  IF Alive(e) /\ c \in r.table
  THEN [mem |-> store.tab[r.table].mem, comp |-> {c}, row |-> r.row]
  ELSE Null

\* What ecs_ref_init_id and ecs_ref_update remember.
Taken(e, c) ==
  LET t == store.tab[store.rec[e[1]].table]
  IN  [ent |-> e, comp |-> c, tid |-> t.id, fast |-> store.fast[Slot(t.id)],
       version |-> t.version, ptr |-> Resolve(e, c)]

Cleared(ref) == [ref EXCEPT !.tid = RootId, !.fast = 0, !.version = 0, !.ptr = Null]

\* ecs_ref_update: the counter the table shares with others first, then the
\* table's own.
Updated(ref) ==
  LET t == store.tab[store.rec[ref.ent[1]].table] IN
  IF ref.fast = store.fast[Slot(ref.tid)] THEN ref
  ELSE IF ~Alive(ref.ent) THEN Cleared(ref)
  ELSE IF ref.tid = t.id /\ ref.version = t.version
       THEN [ref EXCEPT !.fast = store.fast[Slot(t.id)]]
       ELSE Taken(ref.ent, ref.comp)

-----------------------------------------------------------------------------
(* Tables.  An operator takes a store and gives the one after it. *)

\* Mutant: only the counter of the table is incremented.
Dirty_OwnOnly(s, T) == [s EXCEPT !.tab[T].version = (@ + 1) % VersionMod]

\* flecs_increment_table_version
Dirty(s, T) ==
  [s EXCEPT !.tab[T].version = (@ + 1) % VersionMod,
            !.fast[Slot(s.tab[T].id)] = (@ + 1) % FastMod]

\* Allocations that no table and no reference uses.
UsedMem(s) == {s.tab[T].mem : T \in DOMAIN s.tab}
              \cup UNION {{ref.ptr.mem : ref \in refs[r]} : r \in Refs}
FreshMem(s) == Min((1..Cardinality(UsedMem(s)) + 1) \ UsedMem(s))
FreshMems(s, tables) ==
  CHOOSE m \in Injection(tables, (1..Cardinality(UsedMem(s)) + Cardinality(tables)) \ UsedMem(s)) :
    TRUE

\* The columns of T are reallocated, unless they already have that size.
Resized(s, T, size) ==
  IF size = s.tab[T].size THEN s
  ELSE [s EXCEPT !.tab[T].size = size,
                 !.tab[T].mem = IF size = 0 THEN 0 ELSE FreshMem(s)]

PowerOfTwo(p) == \A d, k \in 1..p : p = d * k => d = 1 \/ d % 2 = 0
NextPow(n) == Min({p \in 2..2 * n : p >= n /\ PowerOfTwo(p)})

\* The counters after each of tables was marked dirty k times.
Marked(s, tables, k) ==
  [n \in DOMAIN s.fast |->
     (s.fast[n] + k * Cardinality({T \in tables : Slot(s.tab[T].id) = n})) % FastMod]

NextGen(id) == <<id[1], id[2] + 1>>

\* flecs_table_fini for each of tables: the ids go back with their next
\* generation, in the order in which the tables go.
FiniAll(s, tables, order) ==
  [s EXCEPT !.tab = [T \in DOMAIN s.tab \ tables |-> s.tab[T]],
            !.fast = Marked(s, tables, 2),
            !.ids.free = [k \in DOMAIN order |-> NextGen(s.tab[order[k]].id)] \o @]

WithTable(tab, T, id) ==
  [U \in DOMAIN tab \cup {T} |-> IF U = T THEN EmptyTable(T, id) ELSE tab[U]]

\* flecs_table_ensure: the id that was freed last, or the next one.
Ensure(s, T) ==
  IF T \in DOMAIN s.tab THEN s
  ELSE IF s.ids.free # <<>>
       THEN [s EXCEPT !.tab = WithTable(s.tab, T, Head(s.ids.free)), !.ids.free = Tail(@)]
       ELSE [s EXCEPT !.tab = WithTable(s.tab, T, <<s.ids.next, 0>>), !.ids.next = @ + 1]

\* flecs_table_append, flecs_table_grow_data: rows for es at the end of T.
AppendRows(s, T, es, values, size) ==
  LET r == Resized(s, T, size)
  IN  Dirty([r EXCEPT !.tab[T].ents = @ \o es,
                      !.tab[T].cols = [c \in T |-> @[c] \o values]], T)

SizeFor(s, T) ==
  LET count == Len(s.tab[T].ents)
  IN  IF count = s.tab[T].size THEN NextPow(count + 1) ELSE s.tab[T].size

Record(e, T, row) == [gen |-> e[2], alive |-> TRUE, table |-> T, row |-> row]

\* The last element takes the place of the one at row.
SwapRemove(seq, row) == Front([seq EXCEPT ![row] = Last(seq)])

\* Mutant: the record of the entity that moved into the row is not updated.
DeleteRow_StaleRecord(s, T, row) ==
  Dirty([s EXCEPT !.tab[T].ents = SwapRemove(@, row),
                  !.tab[T].cols = [c \in T |-> SwapRemove(@[c], row)]], T)

\* flecs_table_delete
DeleteRow(s, T, row) ==
  LET moved == Last(s.tab[T].ents)
  IN  Dirty([s EXCEPT !.rec[moved[1]].row = IF row = Len(s.tab[T].ents) THEN @ ELSE row,
                      !.tab[T].ents = SwapRemove(@, row),
                      !.tab[T].cols = [c \in T |-> SwapRemove(@[c], row)]], T)

Forgotten(rec, es) ==
  [i \in Indices |-> IF \E k \in DOMAIN es : es[k][1] = i
                     THEN [gen |-> rec[i].gen + 1, alive |-> FALSE, table |-> Root, row |-> 0]
                     ELSE rec[i]]

\* ecs_table_clear_entities: the allocation stays.
ClearTable(s, T) ==
  Dirty([s EXCEPT !.rec = Forgotten(@, s.tab[T].ents),
                  !.tab[T].ents = <<>>,
                  !.tab[T].cols = [c \in T |-> <<>>]], T)

\* flecs_table_shrink for each of tables: the columns are reallocated to fit the
\* entities, unless they do.
ShrinkAll(s, tables) ==
  LET loose == {T \in tables : s.tab[T].size # Len(s.tab[T].ents)}
      mems  == FreshMems(s, loose)
  IN  [s EXCEPT
         !.tab = [T \in DOMAIN s.tab |->
                    IF T \notin loose THEN s.tab[T]
                    ELSE [s.tab[T] EXCEPT
                            !.version = (@ + 1) % VersionMod,
                            !.size = Len(s.tab[T].ents),
                            !.mem = IF s.tab[T].ents = <<>> THEN 0 ELSE mems[T]]],
         !.fast = Marked(s, loose, 1)]

\* flecs_table_merge: every row of src moves to the end of dst.  An empty dst
\* takes over the columns; otherwise they are copied and freed.  Only dst is
\* marked dirty.
Merge(s, dst, src) ==
  LET from == s.tab[src]
      to   == s.tab[dst]
      n    == Len(to.ents)
      size == NextPow(n + Len(from.ents))
      rec  == [i \in Indices |->
                 IF \E k \in DOMAIN from.ents : from.ents[k][1] = i
                 THEN [s.rec[i] EXCEPT !.table = dst, !.row = n + @] ELSE s.rec[i]]
      cols == [c \in dst |-> to.cols[c] \o from.cols[c]]
      grown == IF n = 0 THEN [s EXCEPT !.tab[dst].size = from.size, !.tab[dst].mem = from.mem]
               ELSE Resized(s, dst, IF n + Len(from.ents) > to.size THEN size ELSE to.size)
  IN  Dirty([grown EXCEPT !.rec = rec,
                          !.tab[dst].ents = to.ents \o from.ents,
                          !.tab[dst].cols = cols,
                          !.tab[src].ents = <<>>,
                          !.tab[src].cols = [c \in src |-> <<>>],
                          !.tab[src].size = 0, !.tab[src].mem = 0], dst)

-----------------------------------------------------------------------------
(* Operations of the world.  While one runs observers, commands are deferred *)
(* and only references are used.                                             *)

NextEntity(i) == <<i, store.rec[i].gen>>

WithinBounds(s) ==
  /\ \A n \in DOMAIN s.fast : s.fast[n] <= MaxFast
  /\ \A i \in Indices : s.rec[i].gen <= MaxGen
  /\ s.ids.next <= MaxTables

Becomes(s) == WithinBounds(s) /\ store' = s /\ UNCHANGED refs

\* flecs_new_entity
NewEntity(i, T) ==
  /\ op = Idle /\ ~store.rec[i].alive
  /\ LET e == NextEntity(i)
         s == Ensure(store, T)
         a == AppendRows(s, T, <<e>>, <<e>>, SizeFor(s, T))
     IN  Becomes([a EXCEPT !.rec[i] = Record(e, T, Len(a.tab[T].ents))])
  /\ UNCHANGED op

\* flecs_bulk_new, flecs_table_appendn: the columns get the size that the new
\* count needs, even when they were larger.
BulkNew(i, j, T) ==
  /\ op = Idle /\ i # j /\ ~store.rec[i].alive /\ ~store.rec[j].alive
  /\ LET es == <<NextEntity(i), NextEntity(j)>>
         s  == Ensure(store, T)
         n  == Len(s.tab[T].ents)
         a  == AppendRows(s, T, es, es, IF n + 2 = s.tab[T].size THEN n + 2 ELSE NextPow(n + 2))
     IN  Becomes([a EXCEPT !.rec[i] = Record(es[1], T, n + 1),
                           !.rec[j] = Record(es[2], T, n + 2)])
  /\ UNCHANGED op

\* ecs_delete of an entity that is no component, target or traversable.
Delete(i) ==
  /\ op = Idle /\ store.rec[i].alive
  /\ LET r == store.rec[i]
         d == DeleteRow(store, r.table, r.row)
     IN  Becomes([d EXCEPT !.rec = Forgotten(@, <<<<i, r.gen>>>>)])
  /\ UNCHANGED op

\* flecs_move_entity, up to the OnRemove observers.
MoveBegin(i, T) ==
  /\ op = Idle /\ store.rec[i].alive /\ store.rec[i].table # T
  /\ LET s == Ensure(store, T)
     IN  Becomes(AppendRows(s, T, <<<<i, s.rec[i].gen>>>>, <<Raw>>, SizeFor(s, T)))
  /\ op' = [kind |-> "move", index |-> i, dst |-> T]

\* flecs_move_entity: the columns both tables have are moved, the others of
\* the destination constructed, and the row of the source deleted.
MoveEnd ==
  /\ op.kind = "move"
  /\ LET i   == op.index
         dst == op.dst
         r   == store.rec[i]
         e   == <<i, r.gen>>
         n   == Len(store.tab[dst].ents)
         m   == [store EXCEPT
                   !.tab[dst].cols =
                      [c \in dst |-> [@[c] EXCEPT
                         ![n] = IF c \in r.table THEN store.tab[r.table].cols[c][r.row] ELSE e]],
                   !.rec[i] = Record(e, dst, n)]
     IN  Becomes(DeleteRow(m, r.table, r.row))
  /\ op' = Idle

Occupied(c) == {T \in DOMAIN store.tab : c \in T /\ store.tab[T].ents # <<>>}

\* ecs_remove_all and ecs_delete_with: flecs_on_delete.
CleanBegin(kind, c) ==
  /\ op = Idle /\ Occupied(c) # {}
  /\ op' = [kind |-> kind, comp |-> c, todo |-> Occupied(c)]
  /\ UNCHANGED <<store, refs>>

\* flecs_remove_from_table
RemoveFromTable(T) ==
  /\ op.kind = "remove" /\ T \in op.todo
  /\ LET dst == T \ {op.comp} IN Becomes(Merge(Ensure(store, dst), dst, T))
  /\ op' = [op EXCEPT !.todo = @ \ {T}]

\* ecs_table_clear_entities
ClearEntities(T) ==
  /\ op.kind = "delete" /\ T \in op.todo
  /\ Becomes(ClearTable(store, T))
  /\ op' = [op EXCEPT !.todo = @ \ {T}]

Deletable(T) == T # Root /\ T \notin Kept /\ store.tab[T].ents = <<>>

\* flecs_component_release_tables
CleanEnd ==
  /\ op.kind \in {"remove", "delete"} /\ op.todo = {}
  /\ LET tables == {T \in DOMAIN store.tab : op.comp \in T /\ Deletable(T)}
     IN  \E order \in SetToSeqs(tables) : Becomes(FiniAll(store, tables, order))
  /\ op' = Idle

\* ecs_shrink: the ids that were given back are forgotten.
Shrink ==
  /\ op = Idle
  /\ LET full   == {T \in DOMAIN store.tab : store.tab[T].ents # <<>>} \cup {Root}
         shrunk == ShrinkAll(store, full)
         left   == FiniAll(shrunk, {T \in DOMAIN store.tab : Deletable(T)}, <<>>)
     IN  Becomes([left EXCEPT !.ids.free = <<>>])
  /\ UNCHANGED op

\* ecs_delete_empty_tables, for one table: which happens depends on how often
\* it was found empty.
DeleteEmptyTable(T) ==
  /\ op = Idle /\ T \in DOMAIN store.tab /\ Deletable(T)
  /\ Becomes(FiniAll(store, {T}, <<T>>)) \/ Becomes(ShrinkAll(store, {T}))
  /\ UNCHANGED op

Exchange(seq, j, k) == [seq EXCEPT ![j] = seq[k], ![k] = seq[j]]

\* flecs_table_swap, for the sorting of a query.
SwapRows(T, j, k) ==
  /\ op = Idle /\ T \in DOMAIN store.tab
  /\ {j, k} \subseteq DOMAIN store.tab[T].ents /\ j < k
  /\ LET es == store.tab[T].ents
     IN  Becomes(Dirty([store EXCEPT
           !.rec[es[j][1]].row = k, !.rec[es[k][1]].row = j,
           !.tab[T].ents = Exchange(@, j, k),
           !.tab[T].cols = [c \in T |-> Exchange(@[c], j, k)]], T))
  /\ UNCHANGED op

\* ecs_ref_init_id
RefInit(r, i, c) ==
  /\ op = Idle /\ store.rec[i].alive
  /\ refs' = [refs EXCEPT ![r] = {Taken(<<i, store.rec[i].gen>>, c)}]
  /\ UNCHANGED <<store, op>>

MayRead == op.kind # "remove" \/ ObserversRead

\* ecs_ref_get_id
RefGet(r) ==
  /\ MayRead /\ refs[r] # {}
  /\ refs' = [refs EXCEPT ![r] = {Updated(ref) : ref \in @}]
  /\ UNCHANGED <<store, op>>

Next ==
  \/ \E i \in Indices, T \in Types : NewEntity(i, T) \/ MoveBegin(i, T)
  \/ \E i, j \in Indices, T \in Types : BulkNew(i, j, T)
  \/ \E i \in Indices : Delete(i)
  \/ MoveEnd
  \/ \E kind \in {"remove", "delete"}, c \in Comps : CleanBegin(kind, c)
  \/ \E T \in Types : RemoveFromTable(T) \/ ClearEntities(T) \/ DeleteEmptyTable(T)
  \/ CleanEnd
  \/ Shrink
  \/ \E T \in Types, j, k \in 1..Cardinality(Indices) : SwapRows(T, j, k)
  \/ \E r \in Refs, i \in Indices, c \in Comps : RefInit(r, i, c)
  \/ \E r \in Refs : RefGet(r)

Spec == Init /\ [][Next]_vars

-----------------------------------------------------------------------------
(* Properties *)

\* The row of an entity that is being moved is there before its values are.
InTransit(T, row) == op.kind = "move" /\ op.dst = T /\ row = Len(store.tab[T].ents)

\* The records and the rows of the tables are inverse of each other, every
\* column has a value for every row, and it is the one that was made for the
\* entity of that row: moves, swap-removes, merges and swaps keep the columns,
\* the entities and the records in step.
StorageConsistent ==
  /\ \A i \in Indices : store.rec[i].alive =>
       LET r == store.rec[i]
       IN  /\ r.table \in DOMAIN store.tab
           /\ r.row \in DOMAIN store.tab[r.table].ents
           /\ store.tab[r.table].ents[r.row] = <<i, r.gen>>
  /\ \A T \in DOMAIN store.tab :
       LET t == store.tab[T] IN
       /\ Len(t.ents) <= t.size
       /\ \A c \in T : Len(t.cols[c]) = Len(t.ents)
       /\ \A row \in DOMAIN t.ents : ~InTransit(T, row) =>
            /\ Alive(t.ents[row])
            /\ store.rec[t.ents[row][1]].table = T /\ store.rec[t.ents[row][1]].row = row
            /\ \A c \in T : t.cols[c][row] = t.ents[row]

\* Whenever a reference is used it gives the component where it is now, and
\* nothing once the component, the entity or the table is gone: every change
\* that moves a component changes a counter the reference remembers.
RefsCurrent ==
  MayRead => \A r \in Refs : \A ref \in refs[r] : Updated(ref).ptr = Resolve(ref.ent, ref.comp)
=============================================================================
