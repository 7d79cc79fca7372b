---------------------------- MODULE CommandQueue ----------------------------
(***************************************************************************)
(* Deferred operations of flecs (flecs.c, flecs_rust.c).                   *)
(*                                                                         *)
(* While a stage is deferred an operation on an entity is not executed but *)
(* recorded as a command.  Each stage has two command buffers: one is      *)
(* filled while the other is flushed.  The commands of one entity are      *)
(* linked to each other when they are recorded, so that the flush can move *)
(* the entity to its final table once ("batching") instead of once per     *)
(* command.  Observers that run during a flush record commands of their    *)
(* own, on stage Main.                                                     *)
(*                                                                         *)
(* Positions in a buffer count from 1 here and from 0 in the code, so the  *)
(* code's "no entry" (first = -1) is first = 0.                            *)
(***************************************************************************)
EXTENDS Integers, Sequences, FiniteSets, SequencesExt, FiniteSetsExt

CONSTANTS
  Slots,        \* entity indices; an entity is a slot and a generation
  Comps,        \* components
  Kind,         \* [Comps -> "trivial": no hooks and no destructor,
                \*           "plain":   a destructor, no on_replace hook,
                \*           "replace": a destructor and an on_replace hook]
  Values,       \* values that are set
  Default,      \* the value a constructor makes
  None,         \* "component absent", "no value"
  Unfixed,      \* a value the program's order does not fix
  StageOrder,   \* the stages of the world, in merge order; the first is Main
  Ops,          \* the operations the application uses
  HookOps,      \* the operations the observers use
  Suspends,     \* does the application suspend deferring?
  MaxGen, MaxCmds, MaxDefer, MaxHeld, HookBudget      \* bounds

Stages == ToSet(StageOrder)
Main == StageOrder[1]
Entities == Slots \X (1..MaxGen)

ASSUME ConstantsAssumption ==
  /\ IsFiniteSet(Slots) /\ IsFiniteSet(Comps)
  /\ Kind \in [Comps -> {"trivial", "plain", "replace"}]
  /\ None \notin Comps \cup Values \cup {Default} /\ Default \notin Values
  /\ Unfixed \notin Values \cup {Default, None}
  /\ Ops \subseteq {"add", "remove", "set", "clear", "delete"}
  /\ HookOps \subseteq {"add", "remove", "clear", "delete"}
  /\ StageOrder \in Seq(Stages) /\ StageOrder # <<>> /\ IsInjective(StageOrder)
  /\ Suspends \in BOOLEAN
  /\ {MaxGen, MaxCmds, MaxDefer, MaxHeld, HookBudget} \subseteq Nat /\ MaxDefer # 0

VARIABLES
  world,     \* the storage: ent, per slot; belief, what an observer that
             \* counts OnAdd and OnRemove thinks an entity has; held, how
             \* many droppable values were made and not dropped
  stage,     \* per stage: defer (the nesting depth, negated while deferring is
             \* suspended), cmd (the buffer being filled), queue, entry
  flush,     \* the flushes in progress, innermost last
  readonly,  \* inside ecs_readonly_begin .. ecs_readonly_end
  merging,   \* stages that ecs_readonly_end still has to merge
  hooks,     \* commands the observers may still issue
  want       \* what the buffer being flushed gives when executed in order

vars == <<world, stage, flush, readonly, merging, hooks, want>>

-----------------------------------------------------------------------------
(* The storage. *)

NoEntities == [s \in Slots |-> [alive |-> FALSE, gen |-> 0, val |-> [c \in Comps |-> None]]]

Alive(ent, e) == ent[e[1]].alive /\ ent[e[1]].gen = e[2]
Has(ent, e) == {c \in Comps : ent[e[1]].val[c] # None}
Droppable(cs) == Cardinality({c \in cs : Kind[c] # "trivial"})

\* Move e to the table with the components T: what the table adds is
\* constructed, what it lacks is dropped, the rest is moved along.
MoveTo(w, e, T) ==
  LET had == Has(w.ent, e) IN
  [w EXCEPT !.ent[e[1]].val = [c \in Comps |-> IF c \notin T THEN None
                                               ELSE IF c \in had THEN @[c]
                                               ELSE Default],
            !.held = @ + Droppable(T \ had) - Droppable(had \ T)]

\* Mutant: OnAdd is emitted for ids the table does not have.
Emit_NoFilter(w, e, removed, added) ==
  [w EXCEPT !.belief[e[1]] = (@ \ removed) \cup added]

\* Emit OnRemove for the ids in removed, then OnAdd for those of added that
\* the table of e still has.
Emit(w, e, removed, added) ==
  [w EXCEPT !.belief[e[1]] = (@ \ removed) \cup (added \cap Has(w.ent, e))]

\* One move with both events.
Commit(w, e, T) ==
  LET had == Has(w.ent, e)
  IN  Emit(MoveTo(w, e, T), e, had \ T, T \ had)

\* A value is written over component c of e; the old one is dropped or not.
Overwrite(w, e, c, v, dropped) ==
  [w EXCEPT !.ent[e[1]].val[c] = v,
            !.held = @ - (IF dropped THEN Droppable({c}) ELSE 0)]

Destroy(w, e) == [Commit(w, e, {}) EXCEPT !.ent[e[1]].alive = FALSE]

\* Mutant: a discarded command forgets its value.
DropValue_Forgets(w, c, v) == w

\* A value that is in no storage any more is dropped.
DropValue(w, c, v) == [w EXCEPT !.held = @ - (IF v = None THEN 0 ELSE Droppable({c}))]

\* The application makes a value to set c with.
MakeValue(w, c) == [w EXCEPT !.held = @ + Droppable({c})]

-----------------------------------------------------------------------------
(* Recording commands. *)

\* An operation of the application: [op, ent, comp, arg].
Operations(ops) ==
  {o \in [op : ops, ent : Entities, comp : Comps \cup {None},
          arg : Values \cup {None}] :
     /\ (o.comp = None) = (o.op \in {"clear", "delete"})
     /\ (o.arg = None) = (o.op # "set")}

\* Mutant: a set of an existing component only leaves a Modified command.
SetKind_ModifiedOnly(ent, o) ==
  IF o.comp \in Has(ent, o.ent) THEN "Modified"
  ELSE CASE Kind[o.comp] = "trivial" -> "Ensure"
         [] Kind[o.comp] = "plain"   -> "Emplace"
         [] Kind[o.comp] = "replace" -> "Set"

\* A set of a component the entity does not have keeps its value in the
\* command; one of a component it has writes to the storage straight away and
\* leaves a command that makes sure the component is there.
SetKind(ent, o) ==
  IF o.comp \in Has(ent, o.ent)
  THEN IF Kind[o.comp] = "trivial" THEN "Add" ELSE "AddModified"
  ELSE CASE Kind[o.comp] = "trivial" -> "Ensure"
         [] Kind[o.comp] = "plain"   -> "Emplace"
         [] Kind[o.comp] = "replace" -> "Set"

CmdKind(ent, o) ==
  CASE o.op = "add"    -> "Add"
    [] o.op = "remove" -> "Remove"
    [] o.op = "clear"  -> "Clear"
    [] o.op = "delete" -> "Delete"
    [] o.op = "set"    -> SetKind(ent, o)

HasValue == {"Ensure", "Emplace", "Set"}

\* The command for o.  "of" keeps the operation it stands for.
Command(kind, o) ==
  [kind |-> kind, of |-> o, next |-> 0, head |-> FALSE,
   val |-> IF kind \in HasValue THEN o.arg ELSE None]

\* Mutant: the first command of a chain is not marked.
Batched_NoSign(b, cmd) ==
  LET slot    == cmd.of.ent[1]
      en      == b.entry[slot]
      cur     == Len(b.queue) + 1
      chained == en.first # 0 /\ b.queue[en.last].of.ent = cmd.of.ent
  IN  [queue |-> Append(IF chained THEN [b.queue EXCEPT ![en.last].next = cur]
                        ELSE b.queue, [cmd EXCEPT !.head = ~ chained]),
       entry |-> [b.entry EXCEPT ![slot] =
                    [first |-> IF chained THEN en.first ELSE cur, last |-> cur]]]

\* Append cmd to the buffer b and link it to the last command of its entity.
\* The first command of an entity that has a second one gets a negative link.
Batched(b, cmd) ==
  LET slot    == cmd.of.ent[1]
      en      == b.entry[slot]
      cur     == Len(b.queue) + 1
      chained == en.first # 0 /\ b.queue[en.last].of.ent = cmd.of.ent
      link    == IF en.last = en.first THEN - cur ELSE cur
      linked  == IF chained THEN [b.queue EXCEPT ![en.last].next = link]
                 ELSE b.queue
  IN  [queue |-> Append(linked, [cmd EXCEPT !.head = ~ chained]),
       entry |-> [b.entry EXCEPT ![slot] =
                    [first |-> IF chained THEN en.first ELSE cur,
                     last  |-> cur]]]

\* An emplaced value gets a Modified command, which is not linked.
Notified(b, kind, o) ==
  IF kind = "Emplace"
  THEN [b EXCEPT !.queue = Append(@, Command("Modified", [o EXCEPT !.op = "none"]))]
  ELSE b

\* The stages after o is recorded on stage s, ent being the entities.
Recorded(st, ent, s, o) ==
  LET kind == CmdKind(ent, o)
  IN  [st EXCEPT ![s].buf[st[s].cmd] =
         Notified(Batched(@, Command(kind, o)), kind, o)]

\* The storage after o is recorded.
WrittenThrough(w, o) ==
  IF o.op # "set" THEN w
  ELSE IF o.comp \in Has(w.ent, o.ent)
  THEN Overwrite(MakeValue(w, o.comp), o.ent, o.comp, o.arg, TRUE)
  ELSE MakeValue(w, o.comp)

-----------------------------------------------------------------------------
(* What a buffer means: its operations one after the other. *)

\* A value that was removed and added again is not fixed: a batch may keep it.
InOrder(ent, o) ==
  LET s == o.ent[1]
      Val(v) == [ent EXCEPT ![s].val[o.comp] = v] IN
  IF ~ (ent[s].alive /\ ent[s].gen = o.ent[2]) THEN ent
  ELSE CASE o.op = "add"    -> IF o.comp \in Has(ent, o.ent) THEN ent ELSE Val(Unfixed)
         [] o.op = "set"    -> Val(o.arg)
         [] o.op = "remove" -> Val(None)
         [] o.op = "clear"  -> [ent EXCEPT ![s].val = [c \in Comps |-> None]]
         [] o.op = "delete" -> [ent EXCEPT ![s].val = [c \in Comps |-> None],
                                           ![s].alive = FALSE]
         [] OTHER           -> ent

Meaning(ent, q) ==
  LET upTo[k \in 0..Len(q)] == IF k = 0 THEN ent ELSE InOrder(upTo[k - 1], q[k].of)
  IN  upTo[Len(q)]

-----------------------------------------------------------------------------
(* Flushing. *)

Top == flush[Len(flush)]
Buf == stage[Top.stage].buf[Top.buf]
Cmd == Buf.queue[Top.pos]

At(pos, step, added) ==
  [flush EXCEPT ![Len(flush)] = [@ EXCEPT !.pos = pos, !.step = step, !.added = added]]

\* Stage s swaps its buffers and flushes the one that was filled if it holds
\* commands; swapping two empty buffers changes nothing that can be seen and is
\* left out.  fl are the flushes in progress around this one.
Swapped(st, fl, w, s) ==
  LET b == st[s].cmd
      q == st[s].buf[b].queue
  IN  IF q = <<>> THEN [stage |-> st, flush |-> fl, want |-> IF fl = <<>> THEN NoEntities ELSE want]
      ELSE [stage |-> [st EXCEPT ![s].cmd = 1 - b],
            flush |-> Append(fl, [stage |-> s, buf |-> b, pos |-> 1,
                                  step |-> "batch", added |-> {}]),
            want  |-> Meaning(w.ent, q)]

\* Mutant: a stage that is being flushed starts another flush.
Ended_Reentrant(st, fl, w, s) == Swapped(st, fl, w, s)

\* The nesting depth of stage s has become 0.
Ended(st, fl, w, s) ==
  IF \E i \in DOMAIN fl : fl[i].stage = s
  THEN [stage |-> st, flush |-> fl, want |-> want]
  ELSE Swapped(st, fl, w, s)

BecomesNext(r) == stage' = r.stage /\ flush' = r.flush /\ want' = r.want

\* The observers of e run if an event was emitted, and may record a command
\* on stage Main; then the operation that emitted the event is over.
Observers(st, fl, w, e, events) ==
  \/ /\ hooks' = hooks
     /\ BecomesNext(Ended(st, fl, w, Main))
  \/ /\ events # {} /\ hooks > 0
     /\ hooks' = hooks - 1
     /\ \E o \in Operations(HookOps) :
          /\ o.ent = e
          /\ BecomesNext(Ended(Recorded(st, w.ent, Main, o), fl, w, Main))

\* The linked commands from position i on, up to and including a Delete.
Chain(q, i) ==
  LET f[k \in 1..Len(q)] ==
        IF q[k].next = 0 \/ q[k].kind = "Delete" THEN <<k>>
        ELSE <<k>> \o f[IF q[k].next < 0 THEN - q[k].next ELSE q[k].next]
  IN  f[i]

\* Mutant: a batch leaves out the components that are set, too.
Adds_NoSet(q, k, c) == q[k].of.comp = c /\ q[k].kind \in {"Add", "AddModified"}

\* Command k of q adds or removes component c in a batch, which leaves an
\* emplaced one alone.
Adds(q, k, c) ==
  q[k].of.comp = c /\ q[k].kind \in {"Add", "AddModified", "Set", "Ensure"}
Removes(q, k, c) == q[k].kind = "Clear" \/ (q[k].kind = "Remove" /\ q[k].of.comp = c)

\* The table a chain of commands leads to from the components had, and the ids
\* it adds to and removes from the tables on the way.
Plan(q, ch, had) ==
  LET A(c) == {i \in DOMAIN ch : Adds(q, ch[i], c)}
      R(c) == {i \in DOMAIN ch : Removes(q, ch[i], c)}
  IN  [table   |-> {c \in Comps : IF R(c) = {} THEN c \in had \/ A(c) # {}
                                  ELSE \E i \in A(c) : \A j \in R(c) : j < i},
       added   |-> {c \in Comps : \E i \in A(c) : c \notin had \/ \E j \in R(c) : j < i},
       removed |-> {c \in Comps : \E j \in R(c) : c \in had \/ \E i \in A(c) : i < j}]

\* What the first pass over the chain leaves of a command.
FirstPass(kind) ==
  CASE kind = "AddModified"                -> "Modified"
    [] kind \in {"Add", "Remove", "Clear"} -> "Skip"
    [] OTHER                               -> kind

Batchable == Cmd.next < 0 /\ Alive(world.ent, Cmd.of.ent)

\* flecs_cmd_batch_for_entity, up to the end of the commit.
CommitBatch ==
  LET e  == Cmd.of.ent
      q  == Buf.queue
      ch == Chain(q, Top.pos)
      p  == Plan(q, ch, Has(world.ent, e))
      moves == p.table # Has(world.ent, e)
      q2 == [k \in DOMAIN q |-> IF k \in ToSet(ch)
                                THEN [q[k] EXCEPT !.kind = FirstPass(@)] ELSE q[k]]
      st == [stage EXCEPT ![Top.stage].buf[Top.buf].queue = q2]
      removed == IF moves THEN p.removed ELSE {}
      w  == Emit(MoveTo(world, e, p.table), e, removed, {})
  IN  /\ flush # <<>> /\ Top.step = "batch" /\ Top.pos <= Len(Buf.queue)
      /\ Batchable
      /\ world' = w
      /\ Observers(st, At(Top.pos, "moves", p.added), w, e, removed)
      /\ UNCHANGED <<readonly, merging>>

\* The second pass: the values that were set are moved over the components
\* that the commit constructed or kept.  The type has no move hook, so this is
\* a memcpy and the old value is not dropped.
SecondPass(w, e, q, ch) ==
  LET sets  == {k \in DOMAIN q : k \in ToSet(ch) /\ q[k].kind \in {"Set", "Ensure"}}
      moved == {k \in sets : q[k].of.comp \in Has(w.ent, e)}
      Into(c) == {k \in moved : q[k].of.comp = c}
      Used(kind) == IF kind = "Set" THEN "Modified" ELSE "Skip"
  IN  [w |-> [w EXCEPT !.ent[e[1]].val =
                [c \in Comps |-> IF Into(c) = {} THEN @[c] ELSE q[Max(Into(c))].val]],
       q |-> [k \in DOMAIN q |->
                IF k \in moved THEN [q[k] EXCEPT !.kind = Used(@), !.val = None]
                ELSE IF k \in sets THEN [q[k] EXCEPT !.kind = "Skip"]
                ELSE q[k]]]

\* The rest of flecs_cmd_batch_for_entity, which asserts that the entity still
\* has a table.  OnAdd is emitted last.
MoveValues ==
  LET e == Cmd.of.ent
      m == SecondPass(world, e, Buf.queue, Chain(Buf.queue, Top.pos))
      w == Emit(m.w, e, {}, Top.added)
      st == [stage EXCEPT ![Top.stage].buf[Top.buf].queue = m.q]
  IN  /\ flush # <<>> /\ Top.step = "moves"
      /\ Alive(world.ent, e)
      /\ world' = w
      /\ Observers(st, At(Top.pos, "exec", {}), w, e,
                   Top.added \cap Has(w.ent, e))
      /\ UNCHANGED <<readonly, merging>>

\* The command at the current position is looked at on its own.
Executing ==
  /\ flush # <<>> /\ Top.pos <= Len(Buf.queue)
  /\ Top.step = "exec" \/ (Top.step = "batch" /\ ~ Batchable)

\* The entry of an entity's first command is invalidated.
Invalidated ==
  IF Cmd.head
  THEN [stage EXCEPT ![Top.stage].buf[Top.buf].entry[Cmd.of.ent[1]].first = 0]
  ELSE stage

\* A batched command that was used up, or one of an entity that is dead.
DiscardCmd ==
  /\ Executing
  /\ Cmd.kind = "Skip" \/ ~ Alive(world.ent, Cmd.of.ent)
  /\ world' = DropValue(world, Cmd.of.comp, Cmd.val)
  /\ stage' = Invalidated
  /\ flush' = At(Top.pos + 1, "batch", {})
  /\ UNCHANGED <<readonly, merging, hooks, want>>

Effect(cmd) ==
  LET e == cmd.of.ent
      had == Has(world.ent, e) IN
  CASE cmd.kind \in {"Add", "AddModified"} -> Commit(world, e, had \cup {cmd.of.comp})
    [] cmd.kind = "Remove"                -> Commit(world, e, had \ {cmd.of.comp})
    [] cmd.kind = "Clear"                 -> Commit(world, e, {})
    [] cmd.kind = "Delete"                -> Destroy(world, e)
    [] cmd.kind = "Modified"              -> world

\* A command without a value.
ExecuteCmd ==
  LET e == Cmd.of.ent
      w == Effect(Cmd) IN
  /\ Executing
  /\ Cmd.kind \notin HasValue \cup {"Skip"} /\ Alive(world.ent, e)
  /\ world' = w
  /\ Observers(Invalidated, At(Top.pos + 1, "batch", {}), w, e,
               SymDiff(Has(world.ent, e), Has(w.ent, e)))
  /\ UNCHANGED <<readonly, merging>>

\* A command with a value adds the component if it is missing (flecs_ensure,
\* ecs_emplace_id), which lets the stage flush what the observers recorded.
EnsureCmd ==
  LET e == Cmd.of.ent
      c == Cmd.of.comp
      w == Commit(world, e, Has(world.ent, e) \cup {c}) IN
  /\ Executing
  /\ Cmd.kind \in HasValue /\ Alive(world.ent, e)
  /\ world' = w
  /\ Observers(Invalidated, At(Top.pos, "write", {}), w, e,
               {c} \ Has(world.ent, e))
  /\ UNCHANGED <<readonly, merging>>

\* Then the value is moved in.  If an observer removed the component a set is
\* given up and its value lost; an emplace adds the component once more, and
\* whether it drops what it finds there depends on an uninitialized is_new.
WriteCmd ==
  LET e == Cmd.of.ent
      c == Cmd.of.comp IN
  /\ flush # <<>> /\ Top.step = "write"
  /\ Alive(world.ent, e)
  /\ \/ c \in Has(world.ent, e) /\ world' = Overwrite(world, e, c, Cmd.val, TRUE)
     \/ c \notin Has(world.ent, e) /\ Cmd.kind # "Emplace" /\ UNCHANGED world
     \/ /\ c \notin Has(world.ent, e) /\ Cmd.kind = "Emplace"
        /\ \E dropped \in BOOLEAN :
             world' = Overwrite(Commit(world, e, Has(world.ent, e) \cup {c}),
                                e, c, Cmd.val, dropped)
  /\ flush' = At(Top.pos + 1, "batch", {})
  /\ UNCHANGED <<stage, readonly, merging, hooks, want>>

\* Mutant: what observers recorded is not flushed.
FinishBuffer_Once ==
  /\ flush # <<>> /\ Top.pos > Len(Buf.queue)
  /\ stage' = [stage EXCEPT ![Top.stage].buf[Top.buf].queue = <<>>]
  /\ flush' = Front(flush)
  /\ UNCHANGED <<world, readonly, merging, hooks, want>>

\* Mutant: the buffer is not emptied.
FinishBuffer_Kept ==
  /\ flush # <<>> /\ Top.pos > Len(Buf.queue)
  /\ BecomesNext(Swapped([stage EXCEPT ![Top.stage].cmd = Top.buf],
                         Front(flush), world, Top.stage))
  /\ UNCHANGED <<world, readonly, merging, hooks>>

\* The buffer is done and emptied, and the one filled meanwhile is next.
FinishBuffer ==
  /\ flush # <<>> /\ Top.pos > Len(Buf.queue)
  /\ BecomesNext(Swapped([stage EXCEPT ![Top.stage].buf[Top.buf].queue = <<>>],
                         Front(flush), world, Top.stage))
  /\ UNCHANGED <<world, readonly, merging, hooks>>

FlushStep ==
  CommitBatch \/ MoveValues \/ DiscardCmd \/ ExecuteCmd \/ EnsureCmd \/ WriteCmd
    \/ FinishBuffer

-----------------------------------------------------------------------------
(* The application. *)

\* Between flushes; a flush runs to its end inside the call that started it.
Idle == flush = <<>> /\ merging = <<>>

Filling(s) == stage[s].buf[stage[s].cmd]

New(s) ==
  LET w == world.ent[s] IN
  /\ Idle /\ ~ readonly
  /\ ~ w.alive /\ w.gen < MaxGen
  /\ world' = [world EXCEPT !.ent[s].alive = TRUE, !.ent[s].gen = @ + 1]
  /\ UNCHANGED <<stage, flush, readonly, merging, hooks, want>>

\* An operation on a deferred stage is recorded.
Defer(s, o) ==
  /\ Idle /\ stage[s].defer > 0
  /\ Alive(world.ent, o.ent)
  /\ Len(Filling(s).queue) < MaxCmds /\ world.held < MaxHeld
  /\ stage' = Recorded(stage, world.ent, s, o)
  /\ world' = WrittenThrough(world, o)
  /\ UNCHANGED <<flush, readonly, merging, hooks, want>>

\* What an operation does that is not deferred.
Direct(w, o) ==
  LET had == Has(w.ent, o.ent) IN
  CASE o.op = "add"    -> Commit(w, o.ent, had \cup {o.comp})
    [] o.op = "remove" -> Commit(w, o.ent, had \ {o.comp})
    [] o.op = "clear"  -> Commit(w, o.ent, {})
    [] o.op = "delete" -> Destroy(w, o.ent)
    [] o.op = "set"    -> Overwrite(MakeValue(Commit(w, o.ent, had \cup {o.comp}), o.comp),
                                    o.ent, o.comp, o.arg, TRUE)

\* An operation on the world while it is not deferred, or while deferring is
\* suspended.  Observers are silent here: what they record is flushed by the
\* call itself, as in a flush.
RunNow(o) ==
  /\ Idle /\ ~ readonly
  /\ stage[Main].defer <= 0
  /\ Alive(world.ent, o.ent) /\ world.held < MaxHeld
  /\ world' = Direct(world, o)
  /\ UNCHANGED <<stage, flush, readonly, merging, hooks, want>>

DeferBegin ==
  /\ Idle /\ ~ readonly
  /\ stage[Main].defer \in 0 .. MaxDefer - 1
  /\ stage' = [stage EXCEPT ![Main].defer = @ + 1]
  /\ UNCHANGED <<world, flush, readonly, merging, hooks, want>>

\* defer_end, and the part of ecs_readonly_end that merges one stage.
DeferEndOf(s) ==
  LET st == [stage EXCEPT ![s].defer = @ - 1] IN
  BecomesNext(IF st[s].defer = 0 THEN Ended(st, flush, world, s)
              ELSE [stage |-> st, flush |-> flush, want |-> want])

DeferEnd ==
  /\ Idle /\ ~ readonly
  /\ stage[Main].defer > 0
  /\ DeferEndOf(Main)
  /\ UNCHANGED <<world, readonly, merging, hooks>>

Suspend ==
  /\ Suspends /\ Idle /\ ~ readonly
  /\ stage[Main].defer > 0
  /\ stage' = [stage EXCEPT ![Main].defer = - @]
  /\ UNCHANGED <<world, flush, readonly, merging, hooks, want>>

Resume ==
  /\ Idle /\ ~ readonly
  /\ stage[Main].defer < 0
  /\ stage' = [stage EXCEPT ![Main].defer = - @]
  /\ UNCHANGED <<world, flush, readonly, merging, hooks, want>>

ReadonlyBegin ==
  /\ Idle /\ ~ readonly
  /\ \A s \in Stages : stage[s].defer = 0
  /\ readonly' = TRUE
  /\ stage' = [s \in Stages |-> [stage[s] EXCEPT !.defer = 1]]
  /\ UNCHANGED <<world, flush, merging, hooks, want>>

ReadonlyEnd ==
  /\ Idle /\ readonly
  /\ readonly' = FALSE
  /\ merging' = StageOrder
  /\ UNCHANGED <<world, stage, flush, hooks, want>>

\* The stages are merged one after the other.
MergeStage ==
  /\ flush = <<>> /\ merging # <<>>
  /\ DeferEndOf(Head(merging))
  /\ merging' = Tail(merging)
  /\ UNCHANGED <<world, readonly, hooks>>

-----------------------------------------------------------------------------
EmptyBuffer ==
  [queue |-> <<>>, entry |-> [s \in Slots |-> [first |-> 0, last |-> 0]]]

Init ==
  /\ world = [ent |-> NoEntities, belief |-> [s \in Slots |-> {}], held |-> 0]
  /\ stage = [s \in Stages |-> [defer |-> 0, cmd |-> 0,
                                buf |-> [b \in 0..1 |-> EmptyBuffer]]]
  /\ flush = <<>> /\ readonly = FALSE /\ merging = <<>>
  /\ hooks = HookBudget
  /\ want = NoEntities

Next ==
  \/ \E s \in Slots : New(s)
  \/ \E s \in Stages, o \in Operations(Ops) : Defer(s, o)
  \/ \E o \in Operations(Ops) : RunNow(o)
  \/ DeferBegin \/ DeferEnd \/ Suspend \/ Resume
  \/ ReadonlyBegin \/ ReadonlyEnd \/ MergeStage
  \/ CommitBatch \/ MoveValues \/ DiscardCmd \/ ExecuteCmd \/ EnsureCmd \/ WriteCmd
  \/ FinishBuffer

Spec == Init /\ [][Next]_vars

\* A flush and a merge are code that runs on, not choices of the application.
FairSpec == Spec /\ WF_vars(FlushStep) /\ WF_vars(MergeStage)

-----------------------------------------------------------------------------
(* Properties. *)

CommandType ==
  [kind : {"Add", "Remove", "Clear", "Delete", "Set", "Ensure", "Emplace",
           "AddModified", "Modified", "Skip"},
   of : Operations(Ops \cup HookOps \cup {"set"}) \cup
        [op : {"none"}, ent : Entities, comp : Comps, arg : Values],
   next : Int, head : BOOLEAN, val : Values \cup {None}]

\* The variables have the types of the code's fields.
TypeOK ==
  /\ world.ent \in [Slots -> [alive : BOOLEAN, gen : 0..MaxGen,
                              val : [Comps -> Values \cup {Default, None}]]]
  /\ world.belief \in [Slots -> SUBSET Comps] /\ world.held \in Int
  /\ DOMAIN stage = Stages
  /\ \A s \in Stages :
       /\ stage[s].defer \in -MaxDefer .. MaxDefer /\ stage[s].cmd \in 0..1
       /\ \A b \in 0..1 :
            LET buf == stage[s].buf[b] IN
            /\ \A i \in DOMAIN buf.queue : buf.queue[i] \in CommandType
            /\ buf.entry \in [Slots -> [first : Nat, last : Nat]]
  /\ \A i \in DOMAIN flush :
       flush[i] \in [stage : Stages, buf : 0..1, pos : Nat \ {0},
                     step : {"batch", "moves", "exec", "write"}, added : SUBSET Comps]
  /\ readonly \in BOOLEAN /\ merging \in Seq(Stages) /\ hooks \in 0..HookBudget

\* The commands of one entity in one buffer form a single chain in the order
\* they were issued, its first command and no other owns the entry, and the
\* sign of its link says that it heads a chain of several.
Linked(q) ==
  LET B == {i \in DOMAIN q : q[i].of.op # "none"} IN
  \A i \in DOMAIN q :
    LET before == {j \in B : j < i /\ q[j].of.ent = q[i].of.ent}
        after  == {j \in B : j > i /\ q[j].of.ent = q[i].of.ent} IN
    IF i \notin B THEN q[i].next = 0 /\ ~ q[i].head
    ELSE /\ q[i].head = (before = {})
         /\ IF after = {} THEN q[i].next = 0
            ELSE q[i].next = (IF before = {} THEN -1 ELSE 1) * Min(after)

\* Buffers are well formed and every chain is linked.
ChainsOK == TypeOK /\ \A s \in Stages, b \in 0..1 : Linked(stage[s].buf[b].queue)

\* Outside a flush and a merge the buffer that is not being filled is empty,
\* one that is not deferred has nothing left in either, and no entry points
\* into an empty buffer: the next command cannot be linked to a stale one.
NothingLeftBehind ==
  Idle => \A s \in Stages, b \in 0..1 :
            LET buf == stage[s].buf[b] IN
            /\ (stage[s].defer = 0 \/ b # stage[s].cmd) => buf.queue = <<>>
            /\ buf.queue = <<>> => \A sl \in Slots : buf.entry[sl].first = 0

\* A buffer that was flushed without observers stepping in.
JustFlushed == /\ flush # <<>> /\ Top.pos > Len(Buf.queue)
               /\ hooks = HookBudget

\* The batched flush leaves every entity alive or dead and with the
\* components that executing the commands in order would have left it.
StructureInOrder ==
  JustFlushed => \A s \in Slots :
                   /\ want[s].alive = world.ent[s].alive
                   /\ \A c \in Comps : want[s].val[c] = None
                                         <=> world.ent[s].val[c] = None

\* The value of a component is the last one that was set.
LastSetWins ==
  JustFlushed => \A s \in Slots, c \in Comps :
                   want[s].val[c] \in Values => world.ent[s].val[c] = want[s].val[c]

\* The droppable values that are still reachable: components, and values in
\* commands that are not executed yet.
Stored ==
  {sc \in Slots \X Comps : world.ent[sc[1]].val[sc[2]] # None /\ Kind[sc[2]] # "trivial"}

Waiting ==
  UNION {{<<s, b, i>> : i \in {k \in DOMAIN stage[s].buf[b].queue :
            LET cmd == stage[s].buf[b].queue[k] IN
            /\ cmd.val # None /\ Kind[cmd.of.comp] # "trivial"
            /\ \A f \in DOMAIN flush :
                 flush[f].stage = s /\ flush[f].buf = b => k >= flush[f].pos}} :
         s \in Stages, b \in 0..1}

Reachable == Cardinality(Stored) + Cardinality(Waiting)

\* Every value that was made is dropped exactly once: those made and not
\* dropped are the reachable ones.
ValuesDroppedOnce == world.held = Reachable

\* An observer that adds up OnAdd and OnRemove knows what an entity has.
ObserversAgree ==
  Idle => \A s \in Slots :
            world.belief[s] = {c \in Comps : world.ent[s].val[c] # None}

\* When the flush comes back to a command after a commit, the command is still
\* in the buffer and its entity still has a table (the assertions after the
\* second pass and in flecs_ensure).
BatchTargetAlive ==
  flush # <<>> /\ Top.step \in {"moves", "write"} =>
    Top.pos <= Len(Buf.queue) /\ Alive(world.ent, Cmd.of.ent)

\* A flush comes to its end once the observers stop adding to it.
FlushEnds == flush # <<>> ~> flush = <<>>
=============================================================================
