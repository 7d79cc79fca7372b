------------------------ MODULE CommandQueue_proofs ------------------------
(***************************************************************************)
(* Proofs about CommandQueue, for any entities, components, values, stages *)
(* and bounds: how commands are linked, what a flush leaves behind, what   *)
(* it may rely on between two commands, what observers know, and that no   *)
(* value is lost or dropped twice.                                         *)
(***************************************************************************)
EXTENDS CommandQueue, FiniteSetTheorems, SequenceTheorems, TLAPS

-----------------------------------------------------------------------------
(* Types.  A state of the queues is described by the storage w, the stages  *)
(* st and the flushes fl, so that a lemma can speak of the state between    *)
(* two parts of one action.                                                 *)

AllOps == Operations(Ops \cup HookOps \cup {"set"})
Vals == Values \cup {Default, None}
EntType == [alive : BOOLEAN, gen : 0..MaxGen, val : [Comps -> Vals]]
WorldType == [ent : [Slots -> EntType], belief : [Slots -> SUBSET Comps], held : Int]

\* What the kind of a command says about the rest of it.
Consistent(cmd) ==
  /\ cmd.kind \in {"Add", "AddModified", "Remove", "Set", "Ensure", "Emplace"}
       => cmd.of.comp \in Comps
  /\ cmd.kind \in HasValue => cmd.val \in Values
  /\ cmd.val # None => cmd.of.comp \in Comps /\ cmd.kind \in HasValue \cup {"Skip"}
  /\ cmd.kind = "Set" => Kind[cmd.of.comp] = "replace"
  /\ cmd.kind = "Ensure" => Kind[cmd.of.comp] = "trivial"
  /\ cmd.kind = "Delete" => cmd.of.op = "delete"
  /\ cmd.of.op = "none" => cmd.kind \in {"Modified", "Skip"} /\ cmd.val = None

Cmds == {cmd \in CommandType : Consistent(cmd)}
Entry == [first : Nat, last : Nat]
BufType == [queue : Seq(Cmds), entry : [Slots -> Entry]]
StageType == [defer : -MaxDefer .. MaxDefer, cmd : 0..1, buf : [0..1 -> BufType]]
FrameType == [stage : Stages, buf : 0..1, pos : Nat \ {0},
              step : {"batch", "moves", "exec", "write"}, added : SUBSET Comps]

Typed(w, st, fl) ==
  w \in WorldType /\ st \in [Stages -> StageType] /\ fl \in Seq(FrameType)

-----------------------------------------------------------------------------
(* The inductive invariant of the buffers.                                 *)

Flushed(fl, s, b) == \E i \in DOMAIN fl : fl[i].stage = s /\ fl[i].buf = b
InFlush(fl, s) == \E i \in DOMAIN fl : fl[i].stage = s
BufOf(st, f) == st[f.stage].buf[f.buf]

\* A flush empties the buffer that is not being filled.  Only one of Main can
\* start inside another one.
FramesOK(st, fl) ==
  /\ Len(fl) <= 2
  /\ Len(fl) = 2 => fl[1].stage # Main /\ fl[2].stage = Main
  /\ \A i \in DOMAIN fl :
       LET f == fl[i] IN
       /\ f.buf = 1 - st[f.stage].cmd
       /\ f.pos <= Len(BufOf(st, f).queue) + 1
       /\ f.step # "batch" => f.pos <= Len(BufOf(st, f).queue)

\* Where commands can be, not counting those that a stage of X is being given.
Filled(st, fl, s, b) ==
  \/ Flushed(fl, s, b)
  \/ b = st[s].cmd /\ (st[s].defer # 0 \/ (s = Main /\ InFlush(fl, Main)))

BuffersOK(st, fl, X) ==
  \A s \in Stages, b \in 0..1 :
    st[s].buf[b].queue # <<>> => Filled(st, fl, s, b) \/ (s \in X /\ b = st[s].cmd)

\* A command that has not been invalidated yet.
Ahead(f, k) == k >= f.pos /\ (f.step = "write" => k # f.pos)

\* The first command of an entity in slot sl is ahead of the flush of its buffer.
HeadAhead(q, fl, s, b, sl) ==
  \E k \in DOMAIN q :
    /\ q[k].head /\ q[k].of.ent[1] = sl
    /\ \A i \in DOMAIN fl : fl[i].stage = s /\ fl[i].buf = b => Ahead(fl[i], k)

\* An entry is not used longer than that.
EntriesOK(st, fl) ==
  \A s \in Stages, b \in 0..1, sl \in Slots :
    st[s].buf[b].entry[sl].first # 0 => HeadAhead(st[s].buf[b].queue, fl, s, b, sl)

\* The commands that belong to chains.
Links(q) == {i \in DOMAIN q : q[i].of.op # "none"}

\* Command j is the next of the entity of command i.
Follows(q, i, j) ==
  /\ j \in Links(q) /\ i < j /\ q[j].of.ent = q[i].of.ent
  /\ \A k \in Links(q) : i < k /\ k < j => q[k].of.ent # q[i].of.ent

First(q, i) == \A k \in Links(q) : k < i => q[k].of.ent # q[i].of.ent
Final(q, i) == \A k \in Links(q) : k > i => q[k].of.ent # q[i].of.ent

\* Linked, said of one command and the next.
Ordered(q) ==
  \A i \in DOMAIN q :
    IF i \notin Links(q) THEN q[i].next = 0 /\ ~ q[i].head
    ELSE /\ q[i].head <=> First(q, i)
         /\ \/ q[i].next = 0 /\ Final(q, i)
            \/ \E j \in Links(q) : Follows(q, i, j) /\ q[i].next = IF First(q, i) THEN -j ELSE j

\* In a buffer that is being filled, the entry of a slot has the first and the
\* last command of the entity that has it now.
Chained(ent, buf) ==
  LET q == buf.queue IN
  \A i \in Links(q) :
    LET e == q[i].of.ent
        en == buf.entry[e[1]] IN
    /\ en.first \in Links(q) /\ en.last \in Links(q)
    /\ en.first <= en.last /\ i <= en.last
    /\ q[en.first].head /\ q[en.first].of.ent = q[en.last].of.ent
    /\ q[en.last].of.ent[1] = e[1]
    /\ e[2] <= q[en.last].of.ent[2] /\ q[en.last].of.ent[2] <= ent[e[1]].gen

LinksOK(w, st, fl) ==
  \A s \in Stages, b \in 0..1 :
    /\ Ordered(st[s].buf[b].queue)
    /\ ~ Flushed(fl, s, b) => Chained(w.ent, st[s].buf[b])

\* Everything, except that the stages X may hold commands although they are
\* neither deferred nor being flushed.
SoundBut(w, st, fl, X) ==
  /\ Typed(w, st, fl) /\ FramesOK(st, fl) /\ BuffersOK(st, fl, X)
  /\ EntriesOK(st, fl) /\ LinksOK(w, st, fl)

Sound(w, st, fl) == SoundBut(w, st, fl, {})

\* How deep the stages are deferred while readonly mode is on, and while the
\* stages are merged after it.
DeferOK ==
  /\ readonly \in BOOLEAN /\ merging \in Seq(Stages) /\ IsInjective(merging)
  /\ \A i \in DOMAIN merging : i # 1 => merging[i] # Main
  /\ readonly => Idle /\ \A s \in Stages : stage[s].defer = 1
  /\ ~ readonly => \A s \in Stages \ {Main} :
                     stage[s].defer = IF s \in ToSet(merging) THEN 1 ELSE 0
  /\ ~ Idle => stage[Main].defer = IF Main \in ToSet(merging) THEN 1 ELSE 0
  /\ flush # <<>> => Main \notin ToSet(merging)

QueueInv ==
  /\ Sound(world, stage, flush) /\ DeferOK /\ hooks \in 0..HookBudget

-----------------------------------------------------------------------------
(* The inductive invariants of the storage.                                *)

\* The entity of the command that a flush is at.
SlotAt(st, f) == BufOf(st, f).queue[f.pos].of.ent[1]

\* An observer does not know of a component only until the batch that added it
\* emits its events, and never believes in one that is not there.
KnownBut(w, st, fl) ==
  \A sl \in Slots :
    LET has == {c \in Comps : w.ent[sl].val[c] # None} IN
    /\ w.belief[sl] \subseteq has
    /\ \A c \in has \ w.belief[sl] :
         \E i \in DOMAIN fl : /\ fl[i].step = "moves" /\ SlotAt(st, fl[i]) = sl
                              /\ c \in fl[i].added

BeliefInv == KnownBut(world, stage, flush)

\* No flush inside another one deletes entities.
HooksSpare == Stages = {Main} \/ "delete" \notin HookOps

TargetInv ==
  /\ \A i \in DOMAIN flush : flush[i].step \in {"moves", "write"} =>
       Alive(world.ent, BufOf(stage, flush[i]).queue[flush[i].pos].of.ent)
  /\ flush # <<>> /\ flush[1].stage # Main =>
       \A b \in 0..1 : \A k \in DOMAIN stage[Main].buf[b].queue :
         stage[Main].buf[b].queue[k].kind # "Delete"

-----------------------------------------------------------------------------
(* The operators on the storage.                                           *)

LEMMA Consts ==
  /\ Main \in Stages /\ Default # None /\ None \notin Comps /\ None \notin Values
  /\ Kind \in [Comps -> {"trivial", "plain", "replace"}]
  /\ MaxGen \in Nat /\ MaxDefer \in Nat /\ MaxDefer >= 1 /\ HookBudget \in Nat
  /\ IsFiniteSet(Slots) /\ IsFiniteSet(Comps)
  /\ StageOrder \in Seq(Stages) /\ IsInjective(StageOrder)
  /\ StageOrder # <<>>
<1>1. StageOrder \in Seq(Stages) /\ StageOrder # <<>>
  BY ConstantsAssumption
<1>2. 1 \in DOMAIN StageOrder
  BY <1>1, EmptySeq, LenProperties
<1> QED
  BY <1>2, ConstantsAssumption DEF Main, Stages, ToSet

LEMMA Empty == DOMAIN <<>> = {} /\ Len(<<>>) = 0 /\ \A S : <<>> \in Seq(S)
  BY EmptySeq

LEMMA EntityIs ==
  ASSUME NEW e \in Entities
  PROVE  e[1] \in Slots /\ e[2] \in 1..MaxGen /\ e[2] \in Nat /\ e = <<e[1], e[2]>>
<1>1. MaxGen \in Nat
  BY Consts
<1> QED
  BY <1>1 DEF Entities

LEMMA SameEntity ==
  ASSUME NEW a \in Entities, NEW e \in Entities, a[1] = e[1], a[2] = e[2]
  PROVE  a = e
  BY DEF Entities

LEMMA OperationIs ==
  ASSUME NEW S, NEW o \in Operations(S)
  PROVE  /\ o \in [op : S, ent : Entities, comp : Comps \cup {None}, arg : Values \cup {None}]
         /\ o.op \in S /\ o.ent \in Entities
         /\ o.comp \in Comps \cup {None} /\ o.arg \in Values \cup {None}
         /\ (o.comp = None) = (o.op \in {"clear", "delete"})
         /\ (o.arg = None) = (o.op # "set")
  BY DEF Operations

LEMMA OperationSub ==
  ASSUME NEW S, NEW T, S \subseteq T
  PROVE  Operations(S) \subseteq Operations(T)
  BY DEF Operations

LEMMA HasIs ==
  ASSUME NEW ent, NEW e
  PROVE  /\ Has(ent, e) \subseteq Comps
         /\ \A c \in Comps : c \in Has(ent, e) <=> ent[e[1]].val[c] # None
  BY DEF Has

LEMMA DroppableIs ==
  ASSUME NEW cs \in SUBSET Comps
  PROVE  Droppable(cs) \in Nat
<1> DEFINE D == {c \in cs : Kind[c] # "trivial"}
<1>1. D \in SUBSET Comps
  OBVIOUS
<1>2. IsFiniteSet(D)
  BY <1>1, Consts, FS_Subset
<1> QED
  BY <1>2, FS_CardinalityType DEF Droppable

\* What w says of slot sl.
LEMMA WorldIs ==
  ASSUME NEW w \in WorldType
  PROVE  /\ w \in [ent : {w.ent}, belief : {w.belief}, held : {w.held}]
         /\ w.ent \in [Slots -> EntType] /\ w.belief \in [Slots -> SUBSET Comps]
         /\ w.held \in Int
         /\ \A sl \in Slots :
              /\ w.ent[sl] \in EntType /\ w.ent[sl].alive \in BOOLEAN /\ w.ent[sl].gen \in 0..MaxGen
              /\ w.ent[sl].val \in [Comps -> Vals] /\ w.belief[sl] \subseteq Comps
              /\ w.ent[sl].gen \in Nat
              /\ \A c \in Comps : w.ent[sl].val[c] \in Vals
<1>1. MaxGen \in Nat
  BY Consts
<1> QED
  BY <1>1 DEF WorldType, EntType

\* The storage after the components of one entity are changed.
WithVal(w, e, val, n) == [w EXCEPT !.ent[e[1]].val = val, !.held = n]

LEMMA WithValIs ==
  ASSUME NEW w \in WorldType, NEW e \in Entities, NEW val \in [Comps -> Vals], NEW n \in Int
  PROVE  LET v == WithVal(w, e, val, n) IN
         /\ v \in WorldType /\ v.belief = w.belief /\ v.held = n
         /\ v.ent[e[1]].val = val
         /\ \A sl \in Slots :
              /\ v.ent[sl].alive = w.ent[sl].alive /\ v.ent[sl].gen = w.ent[sl].gen
              /\ sl # e[1] => v.ent[sl] = w.ent[sl]
<1> DEFINE v == [w EXCEPT !.ent[e[1]].val = val, !.held = n]
           new == [w.ent[e[1]] EXCEPT !.val = val]
<1>1. e[1] \in Slots
  BY EntityIs
<1>2. w.ent[e[1]] \in EntType
  BY <1>1, WorldIs
<1>3. new \in EntType /\ new.val = val /\ new.alive = w.ent[e[1]].alive /\ new.gen = w.ent[e[1]].gen
  BY <1>2 DEF EntType
<1>4. /\ v.ent = [w.ent EXCEPT ![e[1]] = new] /\ v.belief = w.belief /\ v.held = n
      /\ v \in [ent : {v.ent}, belief : {v.belief}, held : {v.held}]
  BY WorldIs
<1>5. w.ent \in [Slots -> EntType] /\ w.belief \in [Slots -> SUBSET Comps]
  BY WorldIs
<1> HIDE DEF new, v
<1>6. v.ent \in [Slots -> EntType] /\ \A sl \in Slots : v.ent[sl] = IF sl = e[1] THEN new ELSE w.ent[sl]
  BY <1>1, <1>3, <1>4, <1>5
<1>7. v \in WorldType
  BY <1>4, <1>5, <1>6 DEF WorldType
<1>8. WithVal(w, e, val, n) = v
  BY DEF WithVal, v
<1> QED
  BY <1>1, <1>3, <1>4, <1>6, <1>7, <1>8

\* v has the entities of w but for what is alive and has components.
Aged(w, v) == v \in WorldType /\ \A sl \in Slots : v.ent[sl].gen >= w.ent[sl].gen
SameLife(w, v) == /\ v \in WorldType
                  /\ \A sl \in Slots : /\ v.ent[sl].alive = w.ent[sl].alive
                                       /\ v.ent[sl].gen = w.ent[sl].gen

Others(w, v, e) ==
  \A sl \in Slots \ {e[1]} : v.ent[sl] = w.ent[sl] /\ v.belief[sl] = w.belief[sl]

LEMMA MoveToIs ==
  ASSUME NEW w \in WorldType, NEW e \in Entities, NEW T \in SUBSET Comps
  PROVE  LET v == MoveTo(w, e, T)
             had == Has(w.ent, e) IN
         /\ SameLife(w, v) /\ Others(w, v, e)
         /\ v.belief = w.belief
         /\ v.held = w.held + (Droppable(T \ had) - Droppable(had \ T))
         /\ Has(v.ent, e) = T
<1> DEFINE had == Has(w.ent, e)
           val == [c \in Comps |-> IF c \notin T THEN None
                                   ELSE IF c \in had THEN w.ent[e[1]].val[c] ELSE Default]
           n == w.held + (Droppable(T \ had) - Droppable(had \ T))
           v == WithVal(w, e, val, n)
<1>1. e[1] \in Slots /\ had \subseteq Comps
  BY EntityIs, HasIs
<1>2. w.held \in Int /\ \A c \in Comps : w.ent[e[1]].val[c] \in Vals
  BY <1>1, WorldIs
<1>3. val \in [Comps -> Vals]
  BY <1>2 DEF Vals
<1>4. T \ had \in SUBSET Comps /\ had \ T \in SUBSET Comps
  BY <1>1
<1>5. Droppable(T \ had) \in Nat /\ Droppable(had \ T) \in Nat
  BY <1>4, DroppableIs
<1>6. n \in Int
  BY <1>2, <1>5
<1>7. MoveTo(w, e, T) = v
  BY <1>1, <1>2, <1>5, WorldIs DEF MoveTo, WithVal
<1>8. /\ v \in WorldType /\ v.belief = w.belief /\ v.held = n /\ v.ent[e[1]].val = val
      /\ \A sl \in Slots : /\ v.ent[sl].alive = w.ent[sl].alive /\ v.ent[sl].gen = w.ent[sl].gen
                           /\ sl # e[1] => v.ent[sl] = w.ent[sl]
  <2> HIDE DEF val, n
  <2> QED
    BY <1>3, <1>6, WithValIs
<1>9. \A c \in Comps : val[c] # None <=> c \in T
  BY Consts, HasIs
<1> HIDE DEF val, n, v
<1>10. Has(v.ent, e) = T
  BY <1>8, <1>9 DEF Has
<1>11. SameLife(w, v) /\ Others(w, v, e)
  BY <1>8 DEF SameLife, Others
<1> QED
  BY <1>7, <1>8, <1>10, <1>11 DEF n

Emitted(w, v, e, R, A) ==
  /\ v \in WorldType /\ v.ent = w.ent /\ v.held = w.held
  /\ v.belief[e[1]] = (w.belief[e[1]] \ R) \cup (A \cap Has(w.ent, e))
  /\ \A sl \in Slots \ {e[1]} : v.belief[sl] = w.belief[sl]

LEMMA EmitIs ==
  ASSUME NEW w \in WorldType, NEW e \in Entities, NEW R \in SUBSET Comps, NEW A
  PROVE  Emitted(w, Emit(w, e, R, A), e, R, A)
<1> DEFINE B == (w.belief[e[1]] \ R) \cup (A \cap Has(w.ent, e))
<1>1. e[1] \in Slots /\ Has(w.ent, e) \subseteq Comps
  BY EntityIs, HasIs
<1>2. B \subseteq Comps
  BY <1>1, WorldIs
<1> DEFINE v == [w EXCEPT !.belief[e[1]] = B]
<1>3. Emit(w, e, R, A) = v
  BY WorldIs DEF Emit
<1> HIDE DEF B
<1>4. /\ v.ent = w.ent /\ v.belief = [w.belief EXCEPT ![e[1]] = B] /\ v.held = w.held
      /\ v \in [ent : {v.ent}, belief : {v.belief}, held : {v.held}]
  BY WorldIs
<1> HIDE DEF v
<1>5. v.belief \in [Slots -> SUBSET Comps] /\ \A sl \in Slots : v.belief[sl] = IF sl = e[1] THEN B ELSE w.belief[sl]
  BY <1>1, <1>2, <1>4, WorldIs
<1>6. v \in WorldType
  BY <1>4, <1>5, WorldIs DEF WorldType
<1> QED
  BY <1>1, <1>3, <1>4, <1>5, <1>6 DEF B, Emitted

Committed(w, v, e, T) ==
  LET had == Has(w.ent, e) IN
  /\ SameLife(w, v) /\ Others(w, v, e)
  /\ v.held = w.held + (Droppable(T \ had) - Droppable(had \ T))
  /\ Has(v.ent, e) = T
  /\ v.belief[e[1]] = (w.belief[e[1]] \ (had \ T)) \cup (T \ had)

LEMMA CommitIs ==
  ASSUME NEW w \in WorldType, NEW e \in Entities, NEW T \in SUBSET Comps
  PROVE  Committed(w, Commit(w, e, T), e, T)
<1> DEFINE had == Has(w.ent, e)
           m == MoveTo(w, e, T)
           R == had \ T
           A == T \ had
           v == Emit(m, e, R, A)
<1>1. had \subseteq Comps
  BY HasIs
<1>2. /\ SameLife(w, m) /\ Others(w, m, e) /\ m.belief = w.belief
      /\ m.held = w.held + (Droppable(T \ had) - Droppable(had \ T))
      /\ Has(m.ent, e) = T
  BY MoveToIs
<1>3. Commit(w, e, T) = v
  BY DEF Commit
<1>4. m \in WorldType /\ R \in SUBSET Comps
  BY <1>1, <1>2 DEF SameLife
<1> HIDE DEF had, m, R, A
<1>5. Emitted(m, v, e, R, A)
  BY <1>4, EmitIs
<1>6. /\ v \in WorldType /\ v.ent = m.ent /\ v.held = m.held
      /\ v.belief[e[1]] = (m.belief[e[1]] \ R) \cup (A \cap Has(m.ent, e))
      /\ \A sl \in Slots \ {e[1]} : v.belief[sl] = m.belief[sl]
  BY <1>5 DEF Emitted
<1> HIDE DEF v
<1>7. SameLife(w, v) /\ Others(w, v, e)
  BY <1>2, <1>6 DEF SameLife, Others
<1>8. v.belief[e[1]] = (w.belief[e[1]] \ R) \cup A
  BY <1>2, <1>6 DEF A
<1> QED
  BY <1>2, <1>3, <1>6, <1>7, <1>8 DEF had, R, A, Committed

Overwritten(w, v, e, c, dropped) ==
  /\ SameLife(w, v) /\ Others(w, v, e) /\ v.belief = w.belief
  /\ v.held = w.held - (IF dropped THEN Droppable({c}) ELSE 0)
  /\ Has(v.ent, e) = Has(w.ent, e) \cup {c}

LEMMA OverwriteIs ==
  ASSUME NEW w \in WorldType, NEW e \in Entities, NEW c \in Comps, NEW x \in Values,
         NEW dropped \in BOOLEAN
  PROVE  Overwritten(w, Overwrite(w, e, c, x, dropped), e, c, dropped)
<1> DEFINE val == [w.ent[e[1]].val EXCEPT ![c] = x]
           n == w.held - (IF dropped THEN Droppable({c}) ELSE 0)
           v == WithVal(w, e, val, n)
<1>1. e[1] \in Slots
  BY EntityIs
<1>2. w.held \in Int /\ w.ent[e[1]].val \in [Comps -> Vals]
  BY <1>1, WorldIs
<1>3. val \in [Comps -> Vals] /\ \A d \in Comps : val[d] = IF d = c THEN x ELSE w.ent[e[1]].val[d]
  BY <1>2 DEF Vals
<1>4. Droppable({c}) \in Nat
  BY DroppableIs
<1>5. n \in Int
  BY <1>2, <1>4
<1>6. Overwrite(w, e, c, x, dropped) = v
  BY <1>1, <1>2, <1>4, WorldIs DEF Overwrite, WithVal
<1> HIDE DEF val, n
<1>7. /\ v \in WorldType /\ v.belief = w.belief /\ v.held = n /\ v.ent[e[1]].val = val
      /\ \A sl \in Slots : /\ v.ent[sl].alive = w.ent[sl].alive /\ v.ent[sl].gen = w.ent[sl].gen
                           /\ sl # e[1] => v.ent[sl] = w.ent[sl]
  BY <1>3, <1>5, WithValIs
<1> HIDE DEF v
<1>8. Has(v.ent, e) = Has(w.ent, e) \cup {c}
  BY <1>3, <1>7, Consts DEF Has
<1>9. SameLife(w, v) /\ Others(w, v, e)
  BY <1>7 DEF SameLife, Others
<1> QED
  BY <1>6, <1>7, <1>8, <1>9 DEF n, Overwritten

LEMMA DestroyIs ==
  ASSUME NEW w \in WorldType, NEW e \in Entities
  PROVE  LET v == Destroy(w, e)
             had == Has(w.ent, e) IN
         /\ Aged(w, v) /\ Others(w, v, e)
         /\ \A sl \in Slots : v.ent[sl].gen = w.ent[sl].gen
         /\ v.held = w.held + (Droppable({}) - Droppable(had))
         /\ Has(v.ent, e) = {} /\ ~ v.ent[e[1]].alive
         /\ v.belief[e[1]] = w.belief[e[1]] \ had
<1> DEFINE had == Has(w.ent, e)
           none == {}
           m == Commit(w, e, none)
           v == [m EXCEPT !.ent[e[1]].alive = FALSE]
           new == [m.ent[e[1]] EXCEPT !.alive = FALSE]
<1>1. /\ SameLife(w, m) /\ Others(w, m, e) /\ Has(m.ent, e) = {}
      /\ m.held = w.held + (Droppable({}) - Droppable(had))
      /\ m.belief[e[1]] = w.belief[e[1]] \ had
  <2>1. none \in SUBSET Comps
    OBVIOUS
  <2> HIDE DEF none
  <2>2. Committed(w, m, e, none)
    BY <2>1, CommitIs
  <2>3. none \ had = {} /\ had \ none = had /\ none = {}
    BY DEF none
  <2>4. (w.belief[e[1]] \ (had \ none)) \cup (none \ had) = w.belief[e[1]] \ had
    BY <2>3
  <2> HIDE DEF m, had
  <2>5. /\ SameLife(w, m) /\ Others(w, m, e) /\ Has(m.ent, e) = none
        /\ m.held = w.held + (Droppable(none \ had) - Droppable(had \ none))
        /\ m.belief[e[1]] = (w.belief[e[1]] \ (had \ none)) \cup (none \ had)
    BY <2>2 DEF Committed, had
  <2> QED
    BY <2>3, <2>4, <2>5
<1>2. e[1] \in Slots
  BY EntityIs
<1> HIDE DEF m, had
<1>3. m \in WorldType
  BY <1>1 DEF SameLife
<1>4. m.ent[e[1]] \in EntType
  BY <1>2, <1>3, WorldIs
<1>5. new \in EntType /\ new.alive = FALSE /\ new.gen = m.ent[e[1]].gen /\ new.val = m.ent[e[1]].val
  BY <1>4 DEF EntType
<1>6. /\ v.ent = [m.ent EXCEPT ![e[1]] = new] /\ v.belief = m.belief /\ v.held = m.held
      /\ v \in [ent : {v.ent}, belief : {v.belief}, held : {v.held}]
  BY <1>3, WorldIs
<1> HIDE DEF v, new
<1>7. v.ent \in [Slots -> EntType] /\ \A sl \in Slots : v.ent[sl] = IF sl = e[1] THEN new ELSE m.ent[sl]
  BY <1>2, <1>3, <1>5, <1>6, WorldIs
<1>8. v \in WorldType
  BY <1>3, <1>6, <1>7, WorldIs DEF WorldType
<1>9. \A sl \in Slots : v.ent[sl].gen = w.ent[sl].gen
  BY <1>1, <1>5, <1>7 DEF SameLife
<1>10. Aged(w, v)
  <2>1. \A sl \in Slots : w.ent[sl].gen \in 0..MaxGen
    BY WorldIs
  <2> QED
    BY <1>8, <1>9, <2>1, Consts DEF Aged
<1>11. Others(w, v, e)
  BY <1>1, <1>6, <1>7 DEF Others
<1>12. Has(v.ent, e) = {}
  BY <1>1, <1>2, <1>5, <1>7 DEF Has
<1>13. Destroy(w, e) = v
  BY DEF Destroy, m, v
<1> QED
  BY <1>1, <1>2, <1>5, <1>6, <1>7, <1>9, <1>10, <1>11, <1>12, <1>13 DEF had

LEMMA HeldIs ==
  ASSUME NEW w \in WorldType, NEW n \in Int
  PROVE  LET v == [w EXCEPT !.held = n] IN
         v \in WorldType /\ v.ent = w.ent /\ v.belief = w.belief /\ v.held = n
<1> DEFINE v == [w EXCEPT !.held = n]
<1>1. /\ v.ent = w.ent /\ v.belief = w.belief /\ v.held = n
      /\ v \in [ent : {v.ent}, belief : {v.belief}, held : {v.held}]
  BY WorldIs
<1> HIDE DEF v
<1>2. v \in WorldType
  BY <1>1, WorldIs DEF WorldType
<1> QED
  BY <1>1, <1>2 DEF v

Dropped(w, v, c, x) ==
  /\ v \in WorldType /\ v.ent = w.ent /\ v.belief = w.belief
  /\ v.held = w.held - (IF x = None THEN 0 ELSE Droppable({c}))

LEMMA DropValueIs ==
  ASSUME NEW w \in WorldType, NEW c, NEW x, x # None => c \in Comps
  PROVE  Dropped(w, DropValue(w, c, x), c, x)
<1> DEFINE n == w.held - (IF x = None THEN 0 ELSE Droppable({c}))
<1>1. x # None => Droppable({c}) \in Nat
  BY DroppableIs
<1>2. n \in Int
  BY <1>1, WorldIs
<1>3. DropValue(w, c, x) = [w EXCEPT !.held = n]
  BY WorldIs DEF DropValue
<1> HIDE DEF n
<1>4. LET v == [w EXCEPT !.held = n] IN v \in WorldType /\ v.ent = w.ent /\ v.belief = w.belief /\ v.held = n
  BY <1>2, HeldIs
<1> QED
  BY <1>3, <1>4 DEF n, Dropped

LEMMA MakeValueIs ==
  ASSUME NEW w \in WorldType, NEW c \in Comps
  PROVE  LET v == MakeValue(w, c) IN
         /\ v \in WorldType /\ v.ent = w.ent /\ v.belief = w.belief
         /\ v.held = w.held + Droppable({c})
<1> DEFINE n == w.held + Droppable({c})
<1>1. Droppable({c}) \in Nat
  BY DroppableIs
<1>2. n \in Int
  BY <1>1, WorldIs
<1>3. MakeValue(w, c) = [w EXCEPT !.held = n]
  BY WorldIs DEF MakeValue
<1> HIDE DEF n
<1>4. LET v == [w EXCEPT !.held = n] IN v \in WorldType /\ v.ent = w.ent /\ v.belief = w.belief /\ v.held = n
  BY <1>2, HeldIs
<1> QED
  BY <1>3, <1>4 DEF n

\* What observers know of v is at least what they knew of w.
Holds(w, sl) == {c \in Comps : w.ent[sl].val[c] # None}

Told(w, v) ==
  \A sl \in Slots :
    w.belief[sl] \subseteq Holds(w, sl) =>
      /\ v.belief[sl] \subseteq Holds(v, sl)
      /\ Holds(v, sl) \ v.belief[sl] \subseteq Holds(w, sl) \ w.belief[sl]

LEMMA SameLifeAged ==
  ASSUME NEW w \in WorldType, NEW v, SameLife(w, v)
  PROVE  Aged(w, v)
<1>1. \A sl \in Slots : w.ent[sl].gen \in 0..MaxGen
  BY WorldIs
<1> QED
  BY <1>1, Consts DEF SameLife, Aged

LEMMA SameEnt ==
  ASSUME NEW w \in WorldType, NEW v \in WorldType, v.ent = w.ent, v.belief = w.belief
  PROVE  SameLife(w, v) /\ Told(w, v) /\ \A e : Others(w, v, e)
  BY DEF SameLife, Told, Holds, Others

LEMMA CommittedIs ==
  ASSUME NEW w \in WorldType, NEW v, NEW e \in Entities, NEW T \in SUBSET Comps,
         Committed(w, v, e, T)
  PROVE  SameLife(w, v) /\ Others(w, v, e) /\ Told(w, v)
<1>1. /\ SameLife(w, v) /\ Others(w, v, e) /\ Has(v.ent, e) = T
      /\ v.belief[e[1]] = (w.belief[e[1]] \ (Has(w.ent, e) \ T)) \cup (T \ Has(w.ent, e))
  BY DEF Committed
<1>2. Has(w.ent, e) = Holds(w, e[1]) /\ Has(v.ent, e) = Holds(v, e[1])
  BY DEF Has, Holds
<1>3. ASSUME NEW sl \in Slots, w.belief[sl] \subseteq Holds(w, sl)
      PROVE  /\ v.belief[sl] \subseteq Holds(v, sl)
             /\ Holds(v, sl) \ v.belief[sl] \subseteq Holds(w, sl) \ w.belief[sl]
  <2>1. CASE sl = e[1]
    BY <1>1, <1>2, <1>3, <2>1
  <2>2. CASE sl # e[1]
    <3>1. v.ent[sl] = w.ent[sl] /\ v.belief[sl] = w.belief[sl]
      BY <1>1, <2>2 DEF Others
    <3> QED
      BY <1>3, <3>1 DEF Holds
  <2> QED
    BY <2>1, <2>2
<1> QED
  BY <1>1, <1>3 DEF Told

LEMMA OverwriteTold ==
  ASSUME NEW w \in WorldType, NEW e \in Entities, NEW c \in Has(w.ent, e), NEW x \in Values,
         NEW dropped \in BOOLEAN
  PROVE  Told(w, Overwrite(w, e, c, x, dropped))
<1> DEFINE v == Overwrite(w, e, c, x, dropped)
<1>1. c \in Comps
  BY HasIs
<1>2. /\ Others(w, v, e) /\ v.belief = w.belief /\ Has(v.ent, e) = Has(w.ent, e)
  <2>1. Overwritten(w, v, e, c, dropped)
    BY <1>1, OverwriteIs
  <2> QED
    BY <2>1 DEF Overwritten
<1> HIDE DEF v
<1>3. Has(w.ent, e) = Holds(w, e[1]) /\ Has(v.ent, e) = Holds(v, e[1])
  BY DEF Has, Holds
<1>4. \A sl \in Slots : Holds(v, sl) = Holds(w, sl)
  <2> TAKE sl \in Slots
  <2>1. CASE sl = e[1]
    BY <1>2, <1>3, <2>1
  <2>2. CASE sl # e[1]
    BY <1>2, <2>2 DEF Others, Holds
  <2> QED
    BY <2>1, <2>2
<1>5. Told(w, v)
  BY <1>2, <1>4 DEF Told
<1> QED
  BY <1>5 DEF v

LEMMA DestroyTold ==
  ASSUME NEW w \in WorldType, NEW e \in Entities
  PROVE  Told(w, Destroy(w, e))
<1> DEFINE v == Destroy(w, e)
<1>1. Others(w, v, e) /\ Has(v.ent, e) = {} /\ v.belief[e[1]] = w.belief[e[1]] \ Has(w.ent, e)
  BY DestroyIs
<1> HIDE DEF v
<1>2. Has(w.ent, e) = Holds(w, e[1]) /\ Has(v.ent, e) = Holds(v, e[1])
  BY DEF Has, Holds
<1>3. ASSUME NEW sl \in Slots, w.belief[sl] \subseteq Holds(w, sl)
      PROVE  /\ v.belief[sl] \subseteq Holds(v, sl)
             /\ Holds(v, sl) \ v.belief[sl] \subseteq Holds(w, sl) \ w.belief[sl]
  <2>1. CASE sl = e[1]
    BY <1>1, <1>2, <1>3, <2>1
  <2>2. CASE sl # e[1]
    <3>1. v.ent[sl] = w.ent[sl] /\ v.belief[sl] = w.belief[sl]
      BY <1>1, <2>2 DEF Others
    <3> QED
      BY <1>3, <3>1 DEF Holds
  <2> QED
    BY <2>1, <2>2
<1>4. Told(w, v)
  BY <1>3 DEF Told
<1> QED
  BY <1>4 DEF v

LEMMA ToldTwice ==
  ASSUME NEW w, NEW m, NEW v, Told(w, m), Told(m, v)
  PROVE  Told(w, v)
  BY DEF Told

LEMMA CmdIs ==
  ASSUME NEW cmd \in Cmds
  PROVE  /\ cmd \in CommandType /\ Consistent(cmd)
         /\ cmd \in [kind : {cmd.kind}, of : {cmd.of}, next : {cmd.next}, head : {cmd.head}, val : {cmd.val}]
         /\ cmd.next \in Int /\ cmd.head \in BOOLEAN /\ cmd.val \in Values \cup {None}
         /\ cmd.of.ent \in Entities /\ cmd.of.comp \in Comps \cup {None}
         /\ cmd.kind \in {"Add", "Remove", "Clear", "Delete", "Set", "Ensure", "Emplace",
                          "AddModified", "Modified", "Skip"}
<1>1. cmd \in CommandType /\ Consistent(cmd)
  BY DEF Cmds
<1>2. cmd.of \in AllOps \/ cmd.of \in [op : {"none"}, ent : Entities, comp : Comps, arg : Values]
  BY <1>1 DEF CommandType, AllOps
<1>3. cmd.of \in AllOps => cmd.of.ent \in Entities /\ cmd.of.comp \in Comps \cup {None}
  BY OperationIs DEF AllOps
<1>4. cmd.of.ent \in Entities /\ cmd.of.comp \in Comps \cup {None}
  BY <1>2, <1>3
<1> QED
  BY <1>1, <1>4 DEF CommandType

LEMMA EffectIs ==
  ASSUME world \in WorldType, NEW cmd \in Cmds, cmd.kind \notin HasValue \cup {"Skip"}
  PROVE  /\ Aged(world, Effect(cmd)) /\ Others(world, Effect(cmd), cmd.of.ent) /\ Told(world, Effect(cmd))
         /\ cmd.kind # "Delete" => SameLife(world, Effect(cmd))
<1> DEFINE e == cmd.of.ent
           had == Has(world.ent, e)
           v == Effect(cmd)
<1>1. e \in Entities /\ Consistent(cmd)
      /\ cmd.kind \in {"Add", "Remove", "Clear", "Delete", "AddModified", "Modified"}
  BY CmdIs DEF HasValue
<1>2. had \subseteq Comps
  BY HasIs
<1>3. CASE cmd.kind \in {"Add", "AddModified"}
  <2> DEFINE T == had \cup {cmd.of.comp}
  <2>1. v = Commit(world, e, T) /\ cmd.of.comp \in Comps
    BY <1>1, <1>3 DEF Effect, Consistent
  <2>2. T \in SUBSET Comps
    BY <1>2, <2>1
  <2> HIDE DEF T, v, e
  <2>3. Committed(world, v, e, T)
    BY <1>1, <2>1, <2>2, CommitIs
  <2>4. SameLife(world, v) /\ Others(world, v, e) /\ Told(world, v)
    BY <1>1, <2>2, <2>3, CommittedIs
  <2> QED
    BY <2>4, SameLifeAged DEF v, e
<1>4. CASE cmd.kind = "Remove"
  <2> DEFINE T == had \ {cmd.of.comp}
  <2>1. v = Commit(world, e, T)
    BY <1>4 DEF Effect
  <2>2. T \in SUBSET Comps
    BY <1>2
  <2> HIDE DEF T, v, e
  <2>3. Committed(world, v, e, T)
    BY <1>1, <2>1, <2>2, CommitIs
  <2>4. SameLife(world, v) /\ Others(world, v, e) /\ Told(world, v)
    BY <1>1, <2>2, <2>3, CommittedIs
  <2> QED
    BY <2>4, SameLifeAged DEF v, e
<1>5. CASE cmd.kind = "Clear"
  <2> DEFINE T == {}
  <2>1. v = Commit(world, e, T)
    BY <1>5 DEF Effect
  <2>2. T \in SUBSET Comps
    OBVIOUS
  <2> HIDE DEF T, v, e
  <2>3. Committed(world, v, e, T)
    BY <1>1, <2>1, <2>2, CommitIs
  <2>4. SameLife(world, v) /\ Others(world, v, e) /\ Told(world, v)
    BY <1>1, <2>2, <2>3, CommittedIs
  <2> QED
    BY <2>4, SameLifeAged DEF v, e
<1>6. CASE cmd.kind = "Delete"
  <2>1. v = Destroy(world, e)
    BY <1>6 DEF Effect
  <2> HIDE DEF v, e
  <2>2. Aged(world, v) /\ Others(world, v, e) /\ Told(world, v)
    BY <1>1, <2>1, DestroyIs, DestroyTold
  <2> QED
    BY <1>6, <2>2 DEF v, e
<1>7. CASE cmd.kind = "Modified"
  <2>1. v = world
    BY <1>7 DEF Effect
  <2>2. SameLife(world, v) /\ Others(world, v, e) /\ Told(world, v)
    BY <2>1, SameEnt
  <2> HIDE DEF v, e
  <2> QED
    BY <2>2, SameLifeAged DEF v, e
<1> QED
  BY <1>1, <1>3, <1>4, <1>5, <1>6, <1>7

LEMMA DirectIs ==
  ASSUME NEW w \in WorldType, NEW o \in Operations(Ops)
  PROVE  Aged(w, Direct(w, o)) /\ Told(w, Direct(w, o))
<1> DEFINE e == o.ent
           had == Has(w.ent, e)
           v == Direct(w, o)
<1>1. /\ e \in Entities /\ o.op \in {"add", "remove", "set", "clear", "delete"}
      /\ o.op \in {"add", "remove", "set"} => o.comp \in Comps
      /\ o.op = "set" => o.arg \in Values
  BY OperationIs, ConstantsAssumption
<1>2. had \subseteq Comps
  BY HasIs
<1>3. ASSUME NEW T \in SUBSET Comps, NEW m, m = Commit(w, e, T)
      PROVE  Aged(w, m) /\ Told(w, m) /\ m \in WorldType /\ Has(m.ent, e) = T
  <2> HIDE DEF e
  <2>1. Committed(w, m, e, T)
    BY <1>1, <1>3, CommitIs
  <2>2. SameLife(w, m) /\ Told(w, m)
    BY <1>1, <2>1, CommittedIs
  <2> QED
    BY <2>1, <2>2, SameLifeAged DEF SameLife, Committed
<1>4. CASE o.op = "add"
  <2>1. v = Commit(w, e, had \cup {o.comp}) /\ had \cup {o.comp} \in SUBSET Comps
    BY <1>1, <1>2, <1>4 DEF Direct
  <2> QED
    BY <1>3, <2>1
<1>5. CASE o.op = "remove"
  <2>1. v = Commit(w, e, had \ {o.comp}) /\ had \ {o.comp} \in SUBSET Comps
    BY <1>1, <1>2, <1>5 DEF Direct
  <2> QED
    BY <1>3, <2>1
<1>6. CASE o.op = "clear"
  <2>1. v = Commit(w, e, {}) /\ {} \in SUBSET Comps
    BY <1>6 DEF Direct
  <2> QED
    BY <1>3, <2>1
<1>7. CASE o.op = "delete"
  <2>1. v = Destroy(w, e)
    BY <1>7 DEF Direct
  <2> QED
    BY <1>1, <2>1, DestroyIs, DestroyTold
<1>8. CASE o.op = "set"
  <2> DEFINE T == had \cup {o.comp}
             m == Commit(w, e, T)
             k == MakeValue(m, o.comp)
  <2>1. v = Overwrite(k, e, o.comp, o.arg, TRUE) /\ T \in SUBSET Comps /\ o.comp \in T
        /\ o.comp \in Comps /\ o.arg \in Values
    BY <1>1, <1>2, <1>8 DEF Direct
  <2>2. Aged(w, m) /\ Told(w, m) /\ m \in WorldType /\ Has(m.ent, e) = T
    BY <1>3, <2>1
  <2> HIDE DEF m, T
  <2>3. k \in WorldType /\ k.ent = m.ent /\ k.belief = m.belief
    BY <2>1, <2>2, MakeValueIs
  <2> HIDE DEF k, v, e
  <2>4. Told(m, k) /\ o.comp \in Has(k.ent, e)
    BY <2>1, <2>2, <2>3, SameEnt
  <2>5. Told(k, v) /\ SameLife(k, v)
    BY <1>1, <2>1, <2>3, <2>4, OverwriteTold, OverwriteIs DEF Overwritten
  <2>6. Told(w, v)
    BY <2>2, <2>4, <2>5, ToldTwice
  <2>7. Aged(w, v)
    BY <2>2, <2>3, <2>5 DEF Aged, SameLife
  <2> QED
    BY <2>6, <2>7 DEF v
<1> QED
  BY <1>1, <1>4, <1>5, <1>6, <1>7, <1>8

LEMMA WrittenThroughIs ==
  ASSUME NEW w \in WorldType, NEW S, NEW o \in Operations(S)
  PROVE  SameLife(w, WrittenThrough(w, o)) /\ Told(w, WrittenThrough(w, o))
<1> DEFINE e == o.ent
           k == MakeValue(w, o.comp)
           v == WrittenThrough(w, o)
<1>1. CASE o.op # "set"
  BY <1>1, SameEnt DEF WrittenThrough
<1>2. CASE o.op = "set"
  <2>1. e \in Entities /\ o.comp \in Comps /\ o.arg \in Values
    BY <1>2, OperationIs
  <2>2. k \in WorldType /\ k.ent = w.ent /\ k.belief = w.belief
    BY <2>1, MakeValueIs
  <2>3. SameLife(w, k) /\ Told(w, k)
    BY <2>2, SameEnt
  <2>4. CASE o.comp \in Has(w.ent, e)
    <3>1. v = Overwrite(k, e, o.comp, o.arg, TRUE)
      BY <1>2, <2>4 DEF WrittenThrough
    <3> HIDE DEF k, v, e
    <3>2. SameLife(k, v) /\ Told(k, v)
      BY <2>1, <2>2, <2>4, <3>1, OverwriteTold, OverwriteIs DEF Overwritten
    <3>3. Told(w, v)
      BY <2>3, <3>2, ToldTwice
    <3>4. SameLife(w, v)
      BY <2>3, <3>2 DEF SameLife
    <3> QED
      BY <3>3, <3>4 DEF v
  <2>5. CASE o.comp \notin Has(w.ent, e)
    <3>1. v = k
      BY <1>2, <2>5 DEF WrittenThrough
    <3> QED
      BY <2>3, <3>1
  <2> QED
    BY <2>4, <2>5
<1> QED
  BY <1>1, <1>2

-----------------------------------------------------------------------------
(* Recording.                                                              *)

LEMMA BufIs ==
  ASSUME NEW buf \in BufType
  PROVE  /\ buf \in [queue : {buf.queue}, entry : {buf.entry}]
         /\ buf.queue \in Seq(Cmds) /\ Len(buf.queue) \in Nat
         /\ DOMAIN buf.queue = 1..Len(buf.queue)
         /\ \A k \in 1..Len(buf.queue) : buf.queue[k] \in Cmds
         /\ buf.entry \in [Slots -> Entry]
         /\ \A sl \in Slots : /\ buf.entry[sl] \in Entry
                              /\ buf.entry[sl].first \in Nat /\ buf.entry[sl].last \in Nat
<1>1. buf.queue \in Seq(Cmds) /\ buf.entry \in [Slots -> Entry]
      /\ buf \in [queue : {buf.queue}, entry : {buf.entry}]
  BY DEF BufType
<1>2. Len(buf.queue) \in Nat /\ DOMAIN buf.queue = 1..Len(buf.queue)
  BY <1>1, LenProperties
<1>3. \A k \in 1..Len(buf.queue) : buf.queue[k] \in Cmds
  BY <1>1, ElementOfSeq
<1> QED
  BY <1>1, <1>2, <1>3 DEF Entry

LEMMA CommandIs ==
  ASSUME NEW ent, NEW o \in AllOps
  PROVE  LET cmd == Command(CmdKind(ent, o), o) IN
         /\ cmd \in Cmds /\ cmd.of = o /\ cmd.next = 0 /\ cmd.of.op # "none"
         /\ cmd.kind = CmdKind(ent, o)
         /\ cmd.kind = "Emplace" => o.op = "set"
         /\ cmd.val # None => o.op = "set" /\ o.comp \notin Has(ent, o.ent)
         /\ (o.op = "set" /\ o.comp \notin Has(ent, o.ent)) => cmd.val = o.arg
<1> DEFINE kind == CmdKind(ent, o)
           cmd == Command(kind, o)
<1>1. /\ o.op \in {"add", "remove", "set", "clear", "delete"} /\ o.ent \in Entities
      /\ o.op \in {"add", "remove", "set"} => o.comp \in Comps
      /\ o.op = "set" => o.arg \in Values
  <2> DEFINE S == Ops \cup HookOps \cup {"set"}
  <2>1. o \in Operations(S)
    BY DEF AllOps
  <2>2. S \subseteq {"add", "remove", "set", "clear", "delete"}
    BY ConstantsAssumption
  <2> HIDE DEF S
  <2>3. /\ o.op \in S /\ o.ent \in Entities
        /\ o.comp \in Comps \cup {None} /\ o.arg \in Values \cup {None}
        /\ (o.comp = None) = (o.op \in {"clear", "delete"})
        /\ (o.arg = None) = (o.op # "set")
    BY <2>1, OperationIs
  <2> QED
    BY <2>2, <2>3
<1>2. o.comp \in Comps => Kind[o.comp] \in {"trivial", "plain", "replace"}
  BY Consts
<1>3. /\ o.op = "add" => kind = "Add"
      /\ o.op = "remove" => kind = "Remove"
      /\ o.op = "clear" => kind = "Clear"
      /\ o.op = "delete" => kind = "Delete"
      /\ o.op = "set" => kind = SetKind(ent, o)
  BY DEF CmdKind
<1>4. o.op = "set" =>
        /\ SetKind(ent, o) \in {"Add", "AddModified", "Ensure", "Emplace", "Set"}
        /\ SetKind(ent, o) \in HasValue <=> o.comp \notin Has(ent, o.ent)
        /\ SetKind(ent, o) = "Set" => Kind[o.comp] = "replace"
        /\ SetKind(ent, o) = "Ensure" => Kind[o.comp] = "trivial"
  BY <1>1, <1>2 DEF SetKind, HasValue
<1>5. /\ kind \in {"Add", "Remove", "Clear", "Delete", "Set", "Ensure", "Emplace", "AddModified"}
      /\ kind \in HasValue => o.op = "set" /\ o.comp \notin Has(ent, o.ent)
      /\ (o.op = "set" /\ o.comp \notin Has(ent, o.ent)) => kind \in HasValue
      /\ kind = "Set" => Kind[o.comp] = "replace"
      /\ kind = "Ensure" => Kind[o.comp] = "trivial"
      /\ kind = "Delete" => o.op = "delete"
      /\ kind \in {"Add", "AddModified", "Remove", "Set", "Ensure", "Emplace"} => o.comp \in Comps
      /\ kind = "Emplace" => o.op = "set"
  BY <1>1, <1>3, <1>4 DEF HasValue
<1> HIDE DEF kind
<1>6. /\ cmd.kind = kind /\ cmd.of = o /\ cmd.next = 0 /\ cmd.head = FALSE
      /\ cmd.val = IF kind \in HasValue THEN o.arg ELSE None
      /\ cmd \in [kind : {cmd.kind}, of : {cmd.of}, next : {cmd.next}, head : {cmd.head}, val : {cmd.val}]
  BY DEF Command
<1> HIDE DEF cmd
<1>7. cmd.val \in Values \cup {None} /\ (cmd.val # None <=> kind \in HasValue)
  <2>1. CASE kind \in HasValue
    BY <1>1, <1>5, <1>6, <2>1, Consts
  <2>2. CASE kind \notin HasValue
    BY <1>6, <2>2
  <2> QED
    BY <2>1, <2>2
<1>8. cmd \in CommandType
  <2>1. /\ cmd.kind \in {"Add", "Remove", "Clear", "Delete", "Set", "Ensure", "Emplace",
                         "AddModified", "Modified", "Skip"}
        /\ cmd.next \in Int /\ cmd.head \in BOOLEAN /\ cmd.val \in Values \cup {None}
    <3>1. cmd.kind = kind /\ cmd.next = 0 /\ cmd.head = FALSE
      BY <1>6
    <3>2. cmd.kind \in {"Add", "Remove", "Clear", "Delete", "Set", "Ensure", "Emplace",
                        "AddModified", "Modified", "Skip"}
      BY <1>5, <3>1
    <3>3. cmd.head \in BOOLEAN
      BY <3>1, Zenon
    <3>4. cmd.next \in Int
      BY <3>1
    <3> QED
      BY <1>7, <3>2, <3>3, <3>4
  <2>2. cmd.of \in Operations(Ops \cup HookOps \cup {"set"})
    BY <1>6 DEF AllOps
  <2> QED
    BY <1>6, <2>1, <2>2 DEF CommandType
<1>9. Consistent(cmd)
  BY <1>1, <1>5, <1>6, <1>7 DEF Consistent
<1>10. cmd \in Cmds
  BY <1>8, <1>9 DEF Cmds
<1> QED
  BY <1>1, <1>5, <1>6, <1>7, <1>10 DEF kind, cmd

\* A command with another link.
Relinked(cmd, c, n, h) ==
  /\ c \in Cmds /\ c.next = n /\ (c.head <=> h) /\ c.kind = cmd.kind /\ c.of = cmd.of
  /\ c.val = cmd.val

LEMMA LinkedTo ==
  ASSUME NEW cmd \in Cmds, NEW n \in Int, NEW h \in BOOLEAN
  PROVE  Relinked(cmd, [cmd EXCEPT !.next = n, !.head = h], n, h)
<1> DEFINE c == [cmd EXCEPT !.next = n, !.head = h]
<1>1. /\ c.next = n /\ c.head = h /\ c.kind = cmd.kind /\ c.of = cmd.of /\ c.val = cmd.val
      /\ c \in [kind : {c.kind}, of : {c.of}, next : {c.next}, head : {c.head}, val : {c.val}]
  BY CmdIs
<1>2. cmd \in CommandType /\ Consistent(cmd)
  BY CmdIs
<1> HIDE DEF c
<1>3. c \in CommandType
  BY <1>1, <1>2 DEF CommandType
<1>4. Consistent(c)
  BY <1>1, <1>2 DEF Consistent
<1>5. c \in Cmds
  BY <1>3, <1>4 DEF Cmds
<1> QED
  BY <1>1, <1>5 DEF c, Relinked

\* Every entry in use has a first command.
Fresh(buf) ==
  \A sl \in Slots : buf.entry[sl].first # 0 =>
    \E k \in DOMAIN buf.queue : buf.queue[k].head /\ buf.queue[k].of.ent[1] = sl

Alike(c, d) == c.kind = d.kind /\ c.of = d.of /\ c.val = d.val /\ c.head = d.head

\* nb is buf after commands were appended.
Longer(buf, nb) ==
  /\ nb \in BufType /\ Len(buf.queue) < Len(nb.queue)
  /\ \A k \in 1..Len(buf.queue) : Alike(buf.queue[k], nb.queue[k])

\* A buffer that commands are recorded in.
Recordable(ent, buf) ==
  buf \in BufType /\ Chained(ent, buf) /\ Ordered(buf.queue) /\ Fresh(buf)

\* What a slot's entry says.
EntryFor(q, en, e) ==
  LET chained == en.first # 0 /\ q[en.last].of.ent = e IN
  /\ chained <=> \E k \in Links(q) : q[k].of.ent = e
  /\ chained =>
       /\ en.first \in Links(q) /\ en.last \in Links(q) /\ en.first <= en.last
       /\ q[en.first].head /\ q[en.first].of.ent = e
       /\ \A i \in Links(q) : q[i].of.ent[1] = e[1] => i <= en.last

LEMMA EntrySays ==
  ASSUME NEW ent, NEW buf, Recordable(ent, buf), NEW e \in Entities, ent[e[1]].gen = e[2]
  PROVE  EntryFor(buf.queue, buf.entry[e[1]], e)
<1> DEFINE q == buf.queue
           en == buf.entry[e[1]]
<1>1. /\ q \in Seq(Cmds) /\ DOMAIN q = 1..Len(q) /\ e[1] \in Slots
      /\ \A k \in 1..Len(q) : q[k] \in Cmds /\ q[k].of.ent \in Entities
  BY BufIs, CmdIs, EntityIs DEF Recordable
<1>2. Links(q) \subseteq 1..Len(q)
  BY <1>1 DEF Links
<1>3. ASSUME NEW i \in Links(q), q[i].of.ent[1] = e[1]
      PROVE  /\ en.first \in Links(q) /\ en.last \in Links(q) /\ en.first <= en.last /\ i <= en.last
             /\ q[en.first].head /\ q[en.first].of.ent = q[en.last].of.ent
             /\ q[en.last].of.ent[1] = e[1]
             /\ q[i].of.ent[2] <= q[en.last].of.ent[2] /\ q[en.last].of.ent[2] <= e[2]
  <2> DEFINE f == q[i].of.ent
             en2 == buf.entry[f[1]]
  <2>1. /\ en2.first \in Links(q) /\ en2.last \in Links(q)
        /\ en2.first <= en2.last /\ i <= en2.last
        /\ q[en2.first].head /\ q[en2.first].of.ent = q[en2.last].of.ent
        /\ q[en2.last].of.ent[1] = f[1]
        /\ f[2] <= q[en2.last].of.ent[2] /\ q[en2.last].of.ent[2] <= ent[f[1]].gen
    BY DEF Recordable, Chained
  <2>2. f[1] = e[1]
    BY <1>3
  <2> QED
    BY <2>1, <2>2
<1>4. ASSUME en.first # 0 PROVE \E i \in Links(q) : q[i].of.ent[1] = e[1]
  <2>1. PICK k \in DOMAIN q : q[k].head /\ q[k].of.ent[1] = e[1]
    BY <1>1, <1>4 DEF Recordable, Fresh
  <2>2. k \in Links(q)
    BY <2>1 DEF Recordable, Ordered
  <2> QED
    BY <2>1, <2>2
<1>5. ASSUME NEW k \in Links(q), q[k].of.ent = e
      PROVE  en.first # 0 /\ q[en.last].of.ent = e
  <2>1. /\ en.first \in Links(q) /\ en.last \in Links(q) /\ q[en.last].of.ent[1] = e[1]
        /\ e[2] <= q[en.last].of.ent[2] /\ q[en.last].of.ent[2] <= e[2]
    BY <1>3, <1>5
  <2>2. q[en.last].of.ent \in Entities
    BY <1>1, <1>2, <2>1
  <2>3. q[en.last].of.ent[2] = e[2]
    <3> DEFINE x == q[en.last].of.ent[2]
               y == e[2]
    <3>1. x \in Nat /\ y \in Nat
      BY <2>2, EntityIs
    <3>2. y <= x /\ x <= y
      BY <2>1
    <3> HIDE DEF x, y
    <3>3. x = y
      BY ONLY <3>1, <3>2
    <3> QED
      BY <3>3 DEF x, y
  <2>4. q[en.last].of.ent = e
    BY ONLY <2>1, <2>2, <2>3, SameEntity, e \in Entities
  <2>5. en.first # 0
    BY <1>2, <2>1
  <2> QED
    BY <2>4, <2>5
<1>6. (en.first # 0 /\ q[en.last].of.ent = e) =>
        /\ en.first \in Links(q) /\ en.last \in Links(q) /\ en.first <= en.last
        /\ q[en.first].head /\ q[en.first].of.ent = e
        /\ \A i \in Links(q) : q[i].of.ent[1] = e[1] => i <= en.last
  BY <1>3, <1>4
<1> QED
  BY <1>5, <1>6 DEF EntryFor

Batch2(buf, cmd, nb) ==
  /\ nb \in BufType /\ Len(nb.queue) = Len(buf.queue) + 1
  /\ \A k \in 1..Len(buf.queue) : Alike(buf.queue[k], nb.queue[k])
  /\ nb.queue[Len(nb.queue)].kind = cmd.kind /\ nb.queue[Len(nb.queue)].of = cmd.of
  /\ nb.queue[Len(nb.queue)].val = cmd.val

\* A command for e is appended and linked to the last one of e.
Appending(q, q2, n, e, chained, first, last) ==
  /\ n \in Nat /\ chained \in BOOLEAN
  /\ DOMAIN q = 1..n /\ DOMAIN q2 = 1..n + 1 /\ Ordered(q)
  /\ \A k \in 1..n : q2[k].of = q[k].of /\ q2[k].head = q[k].head
  /\ \A k \in 1..n : ~ (chained /\ k = last) => q2[k].next = q[k].next
  /\ chained => q2[last].next = IF last = first THEN - (n + 1) ELSE n + 1
  /\ q2[n + 1].next = 0 /\ (q2[n + 1].head <=> ~ chained)
  /\ q2[n + 1].of.op # "none" /\ q2[n + 1].of.ent = e
  /\ chained <=> \E k \in Links(q) : q[k].of.ent = e
  /\ chained =>
       /\ first \in Links(q) /\ last \in Links(q) /\ first <= last
       /\ q[first].head /\ q[first].of.ent = e /\ q[last].of.ent = e
       /\ \A i \in Links(q) : q[i].of.ent = e => i <= last

LEMMA OrderedAppend ==
  ASSUME NEW q, NEW q2, NEW n, NEW e, NEW chained, NEW first, NEW last,
         Appending(q, q2, n, e, chained, first, last)
  PROVE  Ordered(q2) /\ Links(q2) = Links(q) \cup {n + 1}
<1> USE DEF Appending
<1>1. Links(q) \subseteq 1..n /\ Links(q2) = Links(q) \cup {n + 1}
  BY DEF Links
<1>2. \A k \in Links(q) : k \in 1..n /\ q2[k].of = q[k].of /\ q2[k].head = q[k].head /\ k < n + 1
  BY <1>1
<1>3. ASSUME NEW i \in Links(q) PROVE First(q2, i) <=> First(q, i)
  BY <1>1, <1>2 DEF First
<1>4. ASSUME NEW i \in Links(q), NEW j \in Links(q), Follows(q, i, j) PROVE Follows(q2, i, j)
  <2>1. \A k \in Links(q2) : i < k /\ k < j => k \in Links(q)
    BY <1>1, <1>2
  <2> QED
    BY <1>1, <1>2, <1>4, <2>1 DEF Follows
<1>5. Final(q2, n + 1)
  BY <1>1, <1>2 DEF Final
<1>6. q2[n + 1].head <=> First(q2, n + 1)
  <2>1. First(q2, n + 1) <=> \A k \in Links(q) : q[k].of.ent # e
    BY <1>1, <1>2 DEF First
  <2> QED
    BY <2>1
<1>7. ASSUME NEW i \in 1..n, i \notin Links(q)
      PROVE  i \notin Links(q2) /\ q2[i].next = 0 /\ ~ q2[i].head
  BY <1>1, <1>7 DEF Ordered
<1>8. ASSUME NEW i \in Links(q), chained, i = last
      PROVE  Follows(q2, i, n + 1) /\ q2[i].next = IF First(q2, i) THEN - (n + 1) ELSE n + 1
  <2>1. \A k \in Links(q) : i < k => q2[k].of.ent # q2[i].of.ent
    BY <1>2, <1>8
  <2>2. Follows(q2, i, n + 1)
    BY <1>1, <1>2, <1>8, <2>1 DEF Follows
  <2>3. First(q, first)
    BY <1>2, <1>8 DEF Ordered
  <2>4. first # last => ~ First(q, last)
    BY <1>2, <1>8 DEF First
  <2> QED
    BY <1>3, <1>8, <2>2, <2>3, <2>4
<1>9. ASSUME NEW i \in Links(q), ~ (chained /\ i = last)
      PROVE  \/ q2[i].next = 0 /\ Final(q2, i)
             \/ \E j \in Links(q2) : Follows(q2, i, j) /\ q2[i].next = IF First(q2, i) THEN -j ELSE j
  <2>1. q2[i].next = q[i].next
    BY <1>2, <1>9
  <2>2. CASE q[i].next = 0 /\ Final(q, i)
    <3>1. q[i].of.ent # e
      <4>1. SUFFICES ASSUME q[i].of.ent = e PROVE FALSE
        OBVIOUS
      <4>2. chained /\ last \in Links(q) /\ i <= last /\ q[last].of.ent = e
        BY <4>1
      <4>3. i < last
        BY <1>2, <1>9, <4>2
      <4> QED
        BY <2>2, <4>1, <4>2, <4>3 DEF Final
    <3>2. Final(q2, i)
      BY <1>1, <1>2, <2>2, <3>1 DEF Final
    <3> QED
      BY <2>1, <2>2, <3>2
  <2>3. CASE \E j \in Links(q) : Follows(q, i, j) /\ q[i].next = IF First(q, i) THEN -j ELSE j
    BY <1>1, <1>3, <1>4, <2>1, <2>3
  <2> QED
    BY <1>2, <2>2, <2>3 DEF Ordered
<1>10. \A i \in Links(q) : q2[i].head <=> First(q2, i)
  BY <1>2, <1>3 DEF Ordered
<1>11. \A i \in 1..n + 1 : i \in Links(q) \/ i = n + 1 \/ (i \in 1..n /\ i \notin Links(q))
  OBVIOUS
<1>12. ASSUME NEW i \in Links(q2)
       PROVE  /\ q2[i].head <=> First(q2, i)
              /\ \/ q2[i].next = 0 /\ Final(q2, i)
                 \/ \E j \in Links(q2) : Follows(q2, i, j) /\ q2[i].next = IF First(q2, i) THEN -j ELSE j
  <2>1. CASE i = n + 1
    BY <1>5, <1>6, <2>1
  <2>2. CASE i \in Links(q) /\ chained /\ i = last
    BY <1>1, <1>8, <1>10, <2>2
  <2>3. CASE i \in Links(q) /\ ~ (chained /\ i = last)
    BY <1>9, <1>10, <2>3
  <2> QED
    BY <1>1, <2>1, <2>2, <2>3
<1>13. \A i \in DOMAIN q2 : i \notin Links(q2) => q2[i].next = 0 /\ ~ q2[i].head
  BY <1>1, <1>7, <1>11
<1> QED
  BY <1>1, <1>12, <1>13 DEF Ordered

LEMMA BatchedIs ==
  ASSUME NEW ent, NEW buf, Recordable(ent, buf), NEW cmd \in Cmds,
         cmd.next = 0, cmd.of.op # "none", ent[cmd.of.ent[1]].gen = cmd.of.ent[2]
  PROVE  /\ Recordable(ent, Batched(buf, cmd))
         /\ Batch2(buf, cmd, Batched(buf, cmd))
<1> DEFINE q == buf.queue
           n == Len(q)
           e == cmd.of.ent
           slot == e[1]
           en == buf.entry[slot]
           cur == n + 1
           chained == en.first # 0 /\ q[en.last].of.ent = e
           link == IF en.last = en.first THEN - cur ELSE cur
           linked == IF chained THEN [q EXCEPT ![en.last].next = link] ELSE q
           c2 == [cmd EXCEPT !.head = ~ chained]
           q2 == Append(linked, c2)
           en2 == [first |-> IF chained THEN en.first ELSE cur, last |-> cur]
           nb == Batched(buf, cmd)
<1>1. /\ q \in Seq(Cmds) /\ n \in Nat /\ DOMAIN q = 1..n
      /\ \A k \in 1..n : q[k] \in Cmds
      /\ buf.entry \in [Slots -> Entry]
  BY BufIs DEF Recordable
<1>2. e \in Entities /\ slot \in Slots
  BY CmdIs, EntityIs
<1>3. /\ chained <=> \E k \in Links(q) : q[k].of.ent = e
      /\ chained =>
           /\ en.first \in Links(q) /\ en.last \in Links(q) /\ en.first <= en.last
           /\ q[en.first].head /\ q[en.first].of.ent = e
           /\ \A i \in Links(q) : q[i].of.ent[1] = slot => i <= en.last
  <2> HIDE DEF q, en, e
  <2>1. e \in Entities /\ ent[e[1]].gen = e[2]
    BY <1>2 DEF e
  <2>2. EntryFor(buf.queue, buf.entry[e[1]], e)
    BY <2>1, EntrySays
  <2> QED
    BY <2>2 DEF EntryFor, q, en
<1>4. Links(q) \subseteq 1..n
  BY <1>1 DEF Links
<1>5. cur \in Nat /\ link \in Int
  BY <1>1
<1>6. nb = [queue |-> q2, entry |-> [buf.entry EXCEPT ![slot] = en2]]
  BY DEF Batched
<1>7. /\ linked \in Seq(Cmds) /\ Len(linked) = n
      /\ \A k \in 1..n : Alike(q[k], linked[k])
      /\ \A k \in 1..n : linked[k].next = IF chained /\ k = en.last THEN link ELSE q[k].next
  <2>1. CASE chained
    <3> DEFINE l == [q[en.last] EXCEPT !.next = link]
    <3>1. en.last \in 1..n
      BY <1>3, <1>4, <2>1
    <3>2. q[en.last] \in Cmds
      BY <1>1, <3>1
    <3>3. q[en.last].head \in BOOLEAN /\ q[en.last] \in [kind : {q[en.last].kind}, of : {q[en.last].of},
             next : {q[en.last].next}, head : {q[en.last].head}, val : {q[en.last].val}]
      BY <3>2, CmdIs
    <3>4. l = [q[en.last] EXCEPT !.next = link, !.head = q[en.last].head]
      BY <3>3
    <3>5. /\ l \in Cmds /\ l.next = link /\ l.head = q[en.last].head /\ l.kind = q[en.last].kind
          /\ l.of = q[en.last].of /\ l.val = q[en.last].val
      <4> DEFINE m == q[en.last]
                 h == m.head
      <4>1. m \in Cmds /\ h \in BOOLEAN
        BY <3>2, <3>3
      <4> HIDE DEF m, h, link
      <4>2. Relinked(m, [m EXCEPT !.next = link, !.head = h], link, h)
        BY <1>5, <4>1, LinkedTo
      <4>3. Relinked(m, l, link, h)
        BY <3>4, <4>2 DEF m, h
      <4>4. l.head = h
        <5>1. l \in Cmds /\ (l.head <=> h)
          BY <4>3 DEF Relinked
        <5>2. l.head \in BOOLEAN
          BY <5>1, CmdIs
        <5> QED
          BY <4>1, <5>1, <5>2
      <4> QED
        BY <4>3, <4>4 DEF Relinked, m, h
    <3>6. linked = [q EXCEPT ![en.last] = l]
      BY <2>1
    <3> HIDE DEF l, linked, link
    <3>7. /\ linked \in Seq(Cmds) /\ Len(linked) = n
          /\ \A k \in 1..n : linked[k] = IF k = en.last THEN l ELSE q[k]
      <4>1. q \in Seq(Cmds) /\ en.last \in 1..Len(q) /\ l \in Cmds
        BY <1>1, <3>1, <3>5
      <4> HIDE DEF q
      <4> QED
        BY <3>6, <4>1, ExceptSeq
    <3> QED
      BY <2>1, <3>5, <3>7 DEF Alike
  <2>2. CASE ~ chained
    BY <1>1, <2>2 DEF Alike
  <2> QED
    BY <2>1, <2>2
<1>8. /\ c2 \in Cmds /\ c2.kind = cmd.kind /\ c2.of = cmd.of /\ c2.val = cmd.val
      /\ c2.next = 0 /\ (c2.head <=> ~ chained)
  <2> DEFINE h == ~ chained
  <2>1. h \in BOOLEAN
    OBVIOUS
  <2>2. cmd \in [kind : {cmd.kind}, of : {cmd.of}, next : {cmd.next}, head : {cmd.head}, val : {cmd.val}]
        /\ cmd.next \in Int
    BY CmdIs
  <2>3. c2 = [cmd EXCEPT !.next = cmd.next, !.head = h]
    BY <2>2
  <2> HIDE DEF h
  <2>4. Relinked(cmd, [cmd EXCEPT !.next = cmd.next, !.head = h], cmd.next, h)
    BY <2>1, <2>2, LinkedTo
  <2> HIDE DEF c2
  <2>5. Relinked(cmd, c2, cmd.next, h)
    BY <2>3, <2>4
  <2> QED
    BY <2>5 DEF h, Relinked
<1> HIDE DEF linked, c2
<1>9. /\ q2 \in Seq(Cmds) /\ Len(q2) = n + 1 /\ q2[n + 1] = c2
      /\ \A k \in 1..n : q2[k] = linked[k]
  <2>1. linked \in Seq(Cmds) /\ Len(linked) = n /\ c2 \in Cmds
    BY <1>7, <1>8
  <2> HIDE DEF n
  <2> QED
    BY <2>1, AppendProperties
<1>10. DOMAIN q2 = 1..n + 1
  BY <1>9, LenProperties
<1> HIDE DEF q2
<1>11. /\ \A k \in 1..n : Alike(q[k], q2[k])
       /\ \A k \in 1..n : q2[k].next = IF chained /\ k = en.last THEN link ELSE q[k].next
       /\ q2[n + 1].kind = cmd.kind /\ q2[n + 1].of = cmd.of /\ q2[n + 1].val = cmd.val
       /\ q2[n + 1].next = 0 /\ (q2[n + 1].head <=> ~ chained)
  BY <1>7, <1>8, <1>9
<1>12. en2 \in Entry /\ en2.last = n + 1 /\ en2.first = IF chained THEN en.first ELSE n + 1
  BY <1>1, <1>2, <1>5 DEF Entry
<1> HIDE DEF en2
<1>13. /\ nb \in BufType /\ nb.queue = q2
       /\ \A sl \in Slots : nb.entry[sl] = IF sl = slot THEN en2 ELSE buf.entry[sl]
  <2> DEFINE entry2 == [buf.entry EXCEPT ![slot] = en2]
  <2>1. entry2 \in [Slots -> Entry] /\ \A sl \in Slots : entry2[sl] = IF sl = slot THEN en2 ELSE buf.entry[sl]
    BY <1>1, <1>2, <1>12
  <2> HIDE DEF entry2
  <2>2. nb = [queue |-> q2, entry |-> entry2]
    BY <1>6 DEF entry2
  <2> HIDE DEF nb
  <2> QED
    BY <1>9, <2>1, <2>2 DEF BufType
<1> HIDE DEF nb
<1>14. Batch2(buf, cmd, nb)
  BY <1>9, <1>11, <1>13 DEF Batch2
<1>15. /\ Ordered(q)
       /\ \A sl \in Slots : buf.entry[sl].first # 0 => \E k \in 1..n : q[k].head /\ q[k].of.ent[1] = sl
       /\ \A i \in Links(q) :
            LET f == q[i].of.ent
                en3 == buf.entry[f[1]] IN
            /\ en3.first \in Links(q) /\ en3.last \in Links(q)
            /\ en3.first <= en3.last /\ i <= en3.last
            /\ q[en3.first].head /\ q[en3.first].of.ent = q[en3.last].of.ent
            /\ q[en3.last].of.ent[1] = f[1]
            /\ f[2] <= q[en3.last].of.ent[2] /\ q[en3.last].of.ent[2] <= ent[f[1]].gen
  <2>1. Ordered(q)
    BY DEF Recordable
  <2>2. \A sl \in Slots : buf.entry[sl].first # 0 => \E k \in 1..n : q[k].head /\ q[k].of.ent[1] = sl
    BY <1>1 DEF Recordable, Fresh
  <2>3. Chained(ent, buf)
    BY DEF Recordable
  <2> QED
    BY <2>1, <2>2, <2>3 DEF Chained
<1>16. \A k \in 1..n : q2[k].of = q[k].of /\ q2[k].head = q[k].head
  BY <1>11 DEF Alike
<1>17. /\ chained => q[en.last].of.ent = e /\ en.first # 0
       /\ e[2] \in Nat /\ e[2] <= ent[slot].gen /\ chained \in BOOLEAN
       /\ link = IF en.last = en.first THEN - (n + 1) ELSE n + 1
       /\ en = buf.entry[slot] /\ q2[n + 1].of.ent = e /\ q2[n + 1].of.op # "none"
       /\ slot = e[1] /\ ent[slot].gen = e[2]
  <2>1. e[2] \in Nat /\ e[2] <= ent[slot].gen
    BY <1>2, EntityIs
  <2> QED
    BY <1>11, <2>1
<1> HIDE DEF q, n, e, slot, en, cur, chained, link, nb
<1>18. Ordered(q2) /\ Links(q2) = Links(q) \cup {n + 1}
  <2> DEFINE first == en.first
             last == en.last
  <2>1. chained =>
          /\ first \in Links(q) /\ last \in Links(q) /\ first <= last
          /\ q[first].head /\ q[first].of.ent = e /\ q[last].of.ent = e
          /\ \A i \in Links(q) : q[i].of.ent = e => i <= last
    BY <1>3, <1>17
  <2>2. /\ \A k \in 1..n : ~ (chained /\ k = last) => q2[k].next = q[k].next
        /\ chained => q2[last].next = IF last = first THEN - (n + 1) ELSE n + 1
    <3>1. chained => last \in 1..n
      BY <1>4, <2>1
    <3> QED
      BY <1>11, <1>17, <3>1
  <2>3. /\ n \in Nat /\ chained \in BOOLEAN /\ DOMAIN q = 1..n /\ DOMAIN q2 = 1..n + 1 /\ Ordered(q)
        /\ \A k \in 1..n : q2[k].of = q[k].of /\ q2[k].head = q[k].head
        /\ q2[n + 1].next = 0 /\ (q2[n + 1].head <=> ~ chained)
        /\ q2[n + 1].of.op # "none" /\ q2[n + 1].of.ent = e
        /\ chained <=> \E k \in Links(q) : q[k].of.ent = e
    BY <1>1, <1>3, <1>10, <1>11, <1>15, <1>16, <1>17
  <2> HIDE DEF first, last
  <2>4. Appending(q, q2, n, e, chained, first, last)
    BY <2>1, <2>2, <2>3 DEF Appending
  <2> QED
    BY <2>4, OrderedAppend
<1>19. Fresh(nb)
  <2>1. ASSUME NEW sl \in Slots, nb.entry[sl].first # 0
        PROVE  \E k \in 1..n + 1 : q2[k].head /\ q2[k].of.ent[1] = sl
    <3>1. CASE sl # slot
      <4>1. buf.entry[sl].first # 0
        BY <1>13, <2>1, <3>1
      <4>2. PICK k \in 1..n : q[k].head /\ q[k].of.ent[1] = sl
        BY <1>15, <4>1
      <4> QED
        BY <1>1, <1>16, <4>2
    <3>2. CASE sl = slot /\ chained
      <4>1. en.first \in 1..n /\ q[en.first].head /\ q[en.first].of.ent[1] = sl
        BY <1>3, <1>4, <1>17, <3>2
      <4> QED
        BY <1>1, <1>16, <4>1
    <3>3. CASE sl = slot /\ ~ chained
      <4>1. n + 1 \in 1..n + 1
        BY <1>1
      <4> QED
        BY <1>11, <1>17, <3>3, <4>1
    <3> QED
      BY <3>1, <3>2, <3>3
  <2> QED
    BY <1>10, <1>13, <2>1 DEF Fresh
<1>20. Chained(ent, nb)
  <2>1. ASSUME NEW i \in Links(q2), q2[i].of.ent[1] = slot
        PROVE  /\ en2.first \in Links(q2) /\ en2.last \in Links(q2)
               /\ en2.first <= en2.last /\ i <= en2.last
               /\ q2[en2.first].head /\ q2[en2.first].of.ent = q2[en2.last].of.ent
               /\ q2[en2.last].of.ent[1] = slot
               /\ q2[i].of.ent[2] <= q2[en2.last].of.ent[2] /\ q2[en2.last].of.ent[2] <= ent[slot].gen
    <3>1. en2.last = n + 1 /\ n + 1 \in Links(q2) /\ i <= n + 1
      BY <1>1, <1>4, <1>12, <1>18
    <3>2. en2.first \in Links(q2) /\ en2.first <= n + 1 /\ q2[en2.first].head /\ q2[en2.first].of.ent = e
      <4>1. CASE chained
        <5>1. en.first \in Links(q) /\ en.first \in 1..n /\ q[en.first].head /\ q[en.first].of.ent = e
          BY <1>3, <1>4, <4>1
        <5>2. q2[en.first].head /\ q2[en.first].of.ent = e
          BY <1>16, <5>1
        <5> QED
          BY <1>1, <1>12, <1>18, <4>1, <5>1, <5>2
      <4>2. CASE ~ chained
        <5>1. en2.first = n + 1
          BY <1>12, <4>2
        <5> QED
          BY <1>1, <1>11, <1>17, <1>18, <4>2, <5>1
      <4> QED
        BY <4>1, <4>2
    <3>3. q2[i].of.ent[2] <= e[2]
      <4>1. CASE i = n + 1
        BY <1>17, <4>1
      <4>2. CASE i \in Links(q)
        <5>1. i \in 1..n /\ q2[i].of.ent = q[i].of.ent /\ q[i].of.ent[1] = slot
          BY <1>4, <1>16, <2>1, <4>2
        <5>2. /\ en.last \in Links(q) /\ q[i].of.ent[2] <= q[en.last].of.ent[2]
              /\ q[en.last].of.ent[2] <= e[2]
          <6> DEFINE en3 == buf.entry[q[i].of.ent[1]]
          <6>1. /\ en3.last \in Links(q) /\ q[i].of.ent[2] <= q[en3.last].of.ent[2]
                /\ q[en3.last].of.ent[2] <= ent[q[i].of.ent[1]].gen
            BY <1>15, <4>2
          <6>2. en3 = en /\ ent[q[i].of.ent[1]].gen = e[2]
            BY <1>17, <5>1
          <6> QED
            BY <6>1, <6>2
        <5>3. q[i].of.ent \in Entities /\ q[en.last].of.ent \in Entities
          BY <1>1, <1>4, <5>1, <5>2, CmdIs
        <5>4. q[i].of.ent[2] \in Nat /\ q[en.last].of.ent[2] \in Nat
          BY <5>3, EntityIs
        <5> QED
          BY <1>17, <5>1, <5>2, <5>4
      <4> QED
        BY <1>18, <4>1, <4>2
    <3>4. q2[en2.last].of.ent = e /\ e[1] = slot
      BY <1>17, <3>1
    <3> QED
      BY <1>17, <3>1, <3>2, <3>3, <3>4
  <2>2. ASSUME NEW i \in Links(q2), q2[i].of.ent[1] # slot
        PROVE  LET f == q2[i].of.ent
                   en3 == nb.entry[f[1]] IN
               /\ en3.first \in Links(q2) /\ en3.last \in Links(q2)
               /\ en3.first <= en3.last /\ i <= en3.last
               /\ q2[en3.first].head /\ q2[en3.first].of.ent = q2[en3.last].of.ent
               /\ q2[en3.last].of.ent[1] = f[1]
               /\ f[2] <= q2[en3.last].of.ent[2] /\ q2[en3.last].of.ent[2] <= ent[f[1]].gen
    <3> DEFINE f == q[i].of.ent
               en3 == buf.entry[f[1]]
    <3>1. i \in Links(q) /\ q2[i].of.ent = f /\ f[1] # slot
      BY <1>4, <1>16, <1>17, <1>18, <2>2
    <3>2. f[1] \in Slots
      <4>1. f \in Entities
        BY <1>1, <1>4, <3>1, CmdIs
      <4> QED
        BY <4>1, EntityIs
    <3>3. nb.entry[f[1]] = en3
      BY <1>13, <3>1, <3>2
    <3>4. /\ en3.first \in Links(q) /\ en3.last \in Links(q)
          /\ en3.first <= en3.last /\ i <= en3.last
          /\ q[en3.first].head /\ q[en3.first].of.ent = q[en3.last].of.ent
          /\ q[en3.last].of.ent[1] = f[1]
          /\ f[2] <= q[en3.last].of.ent[2] /\ q[en3.last].of.ent[2] <= ent[f[1]].gen
      BY <1>15, <3>1
    <3> HIDE DEF en3, f
    <3>5. en3.first \in 1..n /\ en3.last \in 1..n
      BY <1>4, <3>4
    <3>6. q2[en3.first].of = q[en3.first].of /\ q2[en3.last].of = q[en3.last].of /\ q2[en3.first].head = q[en3.first].head
      BY <1>16, <3>5
    <3> QED
      BY <1>18, <3>1, <3>3, <3>4, <3>6
  <2>3. ASSUME NEW i \in Links(q2), q2[i].of.ent[1] = slot PROVE nb.entry[q2[i].of.ent[1]] = en2
    BY <1>2, <1>13, <2>3
  <2> DEFINE P(i, en4) ==
        /\ en4.first \in Links(q2) /\ en4.last \in Links(q2)
        /\ en4.first <= en4.last /\ i <= en4.last
        /\ q2[en4.first].head /\ q2[en4.first].of.ent = q2[en4.last].of.ent
        /\ q2[en4.last].of.ent[1] = q2[i].of.ent[1]
        /\ q2[i].of.ent[2] <= q2[en4.last].of.ent[2]
        /\ q2[en4.last].of.ent[2] <= ent[q2[i].of.ent[1]].gen
  <2>4. ASSUME NEW i \in Links(q2) PROVE P(i, nb.entry[q2[i].of.ent[1]])
    <3>1. CASE q2[i].of.ent[1] = slot
      <4>1. P(i, en2)
        BY <2>1, <3>1
      <4> HIDE DEF P
      <4> QED
        BY <2>3, <3>1, <4>1
    <3>2. CASE q2[i].of.ent[1] # slot
      BY <2>2, <3>2
    <3> QED
      BY <3>1, <3>2
  <2> QED
    BY <1>13, <2>4 DEF Chained
<1> QED
  BY <1>13, <1>14, <1>18, <1>19, <1>20 DEF Recordable, nb

\* nb is buf after cmd was recorded, with or without a notification.
Grown(buf, cmd, nb) ==
  /\ nb \in BufType /\ Len(buf.queue) + 1 <= Len(nb.queue)
  /\ \A k \in 1..Len(buf.queue) : Alike(buf.queue[k], nb.queue[k])
  /\ LET l == nb.queue[Len(buf.queue) + 1] IN
     l.kind = cmd.kind /\ l.of = cmd.of /\ l.val = cmd.val
  /\ \A k \in Len(buf.queue) + 2 .. Len(nb.queue) :
       nb.queue[k].kind = "Modified" /\ nb.queue[k].val = None

\* A command that belongs to no chain is appended.
LEMMA OrderedNote ==
  ASSUME NEW q, NEW q2, NEW n \in Nat, DOMAIN q = 1..n, DOMAIN q2 = 1..n + 1, Ordered(q),
         \A k \in 1..n : q2[k] = q[k],
         q2[n + 1].next = 0, ~ q2[n + 1].head, q2[n + 1].of.op = "none"
  PROVE  Ordered(q2) /\ Links(q2) = Links(q)
<1>1. Links(q2) = Links(q) /\ Links(q) \subseteq 1..n
  BY DEF Links
<1>2. ASSUME NEW i \in Links(q)
      PROVE  /\ First(q2, i) <=> First(q, i)
             /\ Final(q2, i) <=> Final(q, i)
             /\ \A j \in Links(q) : Follows(q2, i, j) <=> Follows(q, i, j)
  BY <1>1 DEF First, Final, Follows
<1>3. ASSUME NEW i \in 1..n + 1, i \notin Links(q) PROVE q2[i].next = 0 /\ ~ q2[i].head
  <2>1. CASE i = n + 1
    BY <2>1
  <2>2. CASE i # n + 1
    <3>1. i \in 1..n
      BY <2>2
    <3> QED
      BY <1>3, <3>1 DEF Ordered
  <2> QED
    BY <2>1, <2>2
<1>4. ASSUME NEW i \in Links(q)
      PROVE  /\ q2[i].head <=> First(q2, i)
             /\ \/ q2[i].next = 0 /\ Final(q2, i)
                \/ \E j \in Links(q2) : Follows(q2, i, j) /\ q2[i].next = IF First(q2, i) THEN -j ELSE j
  <2>1. q2[i] = q[i] /\ i \in 1..n
    BY <1>1
  <2>2. /\ q[i].head <=> First(q, i)
        /\ \/ q[i].next = 0 /\ Final(q, i)
           \/ \E j \in Links(q) : Follows(q, i, j) /\ q[i].next = IF First(q, i) THEN -j ELSE j
    BY <2>1 DEF Ordered
  <2> QED
    BY <1>1, <1>2, <2>1, <2>2
<1> QED
  BY <1>1, <1>3, <1>4 DEF Ordered

Noted(buf, nb) ==
  /\ nb \in BufType /\ nb.entry = buf.entry /\ Len(nb.queue) = Len(buf.queue) + 1
  /\ \A k \in 1..Len(buf.queue) : nb.queue[k] = buf.queue[k]
  /\ LET l == nb.queue[Len(nb.queue)] IN
     /\ l.kind = "Modified" /\ l.val = None /\ l.of.op = "none" /\ l.next = 0 /\ ~ l.head

LEMMA NotedIs ==
  ASSUME NEW ent, NEW buf, Recordable(ent, buf), NEW nb, Noted(buf, nb)
  PROVE  Recordable(ent, nb)
<1> DEFINE q == buf.queue
           q2 == nb.queue
           n == Len(q)
<1>1. /\ n \in Nat /\ DOMAIN q = 1..n /\ nb \in BufType /\ DOMAIN q2 = 1..n + 1
      /\ \A k \in 1..n : q2[k] = q[k]
      /\ q2[n + 1].next = 0 /\ ~ q2[n + 1].head /\ q2[n + 1].of.op = "none"
      /\ Ordered(q) /\ nb.entry = buf.entry
  BY BufIs DEF Recordable, Noted
<1>2. Chained(ent, buf) /\ Fresh(buf)
  BY DEF Recordable
<1> HIDE DEF q2, n
<1>3. Ordered(q2) /\ Links(q2) = Links(q)
  <2> HIDE DEF q
  <2> QED
    BY <1>1, OrderedNote
<1>4. \A k \in Links(q) : k \in 1..n /\ q2[k] = q[k]
  BY <1>1 DEF Links
<1>5. Fresh(nb)
  BY <1>1, <1>2 DEF Fresh, q2
<1>6. Chained(ent, nb)
  <2>1. nb.queue = q2 /\ nb.entry = buf.entry
    BY <1>1 DEF q2
  <2> DEFINE P(i, en) ==
        /\ en.first \in Links(q2) /\ en.last \in Links(q2)
        /\ en.first <= en.last /\ i <= en.last
        /\ q2[en.first].head /\ q2[en.first].of.ent = q2[en.last].of.ent
        /\ q2[en.last].of.ent[1] = q2[i].of.ent[1]
        /\ q2[i].of.ent[2] <= q2[en.last].of.ent[2]
        /\ q2[en.last].of.ent[2] <= ent[q2[i].of.ent[1]].gen
  <2>2. ASSUME NEW i \in Links(q2) PROVE P(i, buf.entry[q2[i].of.ent[1]])
    <3> DEFINE e == q[i].of.ent
               en == buf.entry[e[1]]
    <3>1. /\ en.first \in Links(q) /\ en.last \in Links(q)
          /\ en.first <= en.last /\ i <= en.last
          /\ q[en.first].head /\ q[en.first].of.ent = q[en.last].of.ent
          /\ q[en.last].of.ent[1] = e[1]
          /\ e[2] <= q[en.last].of.ent[2] /\ q[en.last].of.ent[2] <= ent[e[1]].gen
      BY <1>2, <1>3 DEF Chained
    <3>2. q2[i] = q[i] /\ q2[en.first] = q[en.first] /\ q2[en.last] = q[en.last]
      BY <1>3, <1>4, <3>1
    <3> QED
      BY <1>3, <3>1, <3>2
  <2>3. \A i \in Links(nb.queue) : P(i, nb.entry[q2[i].of.ent[1]])
    <3> HIDE DEF P
    <3> QED
      BY <2>1, <2>2
  <2> QED
    BY <2>1, <2>3 DEF Chained, q2
<1> QED
  BY <1>1, <1>3, <1>5, <1>6 DEF Recordable, q2

LEMMA NotifiedIs ==
  ASSUME NEW buf \in BufType, NEW o \in AllOps, o.op = "set"
  PROVE  Noted(buf, Notified(buf, "Emplace", o))
<1> DEFINE o2 == [o EXCEPT !.op = "none"]
           c == Command("Modified", o2)
           nb == Notified(buf, "Emplace", o)
<1>1. /\ o \in [op : {o.op}, ent : {o.ent}, comp : {o.comp}, arg : {o.arg}]
      /\ o.ent \in Entities /\ o.comp \in Comps /\ o.arg \in Values
  <2> DEFINE S == Ops \cup HookOps \cup {"set"}
  <2>1. o \in Operations(S)
    BY DEF AllOps
  <2> HIDE DEF S
  <2>2. /\ o \in [op : S, ent : Entities, comp : Comps \cup {None}, arg : Values \cup {None}]
        /\ (o.comp = None) = (o.op \in {"clear", "delete"})
        /\ (o.arg = None) = (o.op # "set")
    BY <2>1, OperationIs
  <2> QED
    BY <2>2
<1>2. o2 \in [op : {"none"}, ent : Entities, comp : Comps, arg : Values] /\ o2.op = "none" /\ o2.comp \in Comps
  BY <1>1
<1> HIDE DEF o2
<1>3. /\ c.kind = "Modified" /\ c.of = o2 /\ c.next = 0 /\ c.head = FALSE /\ c.val = None
      /\ c \in [kind : {c.kind}, of : {c.of}, next : {c.next}, head : {c.head}, val : {c.val}]
  BY DEF Command, HasValue
<1> HIDE DEF c
<1>4. c \in CommandType
  <2>1. c.head \in BOOLEAN
    BY <1>3, Zenon
  <2>2. c.next \in Int /\ c.val \in Values \cup {None}
        /\ c.kind \in {"Add", "Remove", "Clear", "Delete", "Set", "Ensure", "Emplace",
                       "AddModified", "Modified", "Skip"}
    BY <1>3
  <2> QED
    BY <1>2, <1>3, <2>1, <2>2 DEF CommandType
<1>5. Consistent(c)
  BY <1>2, <1>3 DEF Consistent, HasValue
<1>6. c \in Cmds
  BY <1>4, <1>5 DEF Cmds
<1> DEFINE q2 == Append(buf.queue, c)
<1>7. buf.queue \in Seq(Cmds) /\ Len(buf.queue) \in Nat
  BY BufIs
<1>8. /\ q2 \in Seq(Cmds) /\ Len(q2) = Len(buf.queue) + 1 /\ q2[Len(buf.queue) + 1] = c
      /\ \A k \in 1..Len(buf.queue) : q2[k] = buf.queue[k]
  BY <1>6, <1>7, AppendProperties
<1>9. /\ nb.queue = q2 /\ nb.entry = buf.entry
      /\ nb \in [queue : {nb.queue}, entry : {nb.entry}]
  BY BufIs DEF Notified, c, o2
<1> HIDE DEF q2, nb
<1>10. nb \in BufType
  BY <1>8, <1>9, BufIs DEF BufType
<1>11. nb.queue[Len(nb.queue)] = c
  BY <1>8, <1>9
<1> QED
  BY <1>2, <1>3, <1>8, <1>9, <1>10, <1>11 DEF Noted, nb

-----------------------------------------------------------------------------
(* The stages.                                                             *)

LEMMA StageIs ==
  ASSUME NEW st \in [Stages -> StageType], NEW s \in Stages
  PROVE  /\ st[s] \in StageType
         /\ st[s] \in [defer : {st[s].defer}, cmd : {st[s].cmd}, buf : {st[s].buf}]
         /\ st[s].defer \in -MaxDefer .. MaxDefer /\ st[s].defer \in Int
         /\ st[s].cmd \in 0..1 /\ 1 - st[s].cmd \in 0..1 /\ st[s].cmd # 1 - st[s].cmd
         /\ st[s].buf \in [0..1 -> BufType] /\ \A b \in 0..1 : st[s].buf[b] \in BufType
<1>1. st[s] \in StageType
  OBVIOUS
<1> QED
  BY <1>1, Consts DEF StageType

\* v is st but for stage s.
Except(st, v, s) ==
  v \in [Stages -> StageType] /\ \A t \in Stages \ {s} : v[t] = st[t]

PutBuf(st, v, s, b, nb) ==
  /\ Except(st, v, s) /\ v[s].defer = st[s].defer /\ v[s].cmd = st[s].cmd
  /\ v[s].buf[b] = nb /\ v[s].buf[1 - b] = st[s].buf[1 - b]

PutDefer(st, v, s, n) ==
  /\ Except(st, v, s) /\ v[s].defer = n /\ v[s].cmd = st[s].cmd /\ v[s].buf = st[s].buf

LEMMA ExceptIs ==
  ASSUME NEW st \in [Stages -> StageType], NEW s \in Stages, NEW x \in StageType, NEW v,
         v = [st EXCEPT ![s] = x]
  PROVE  Except(st, v, s) /\ v[s] = x
  BY DEF Except

LEMMA PutBufIs ==
  ASSUME NEW st \in [Stages -> StageType], NEW s \in Stages, NEW b \in 0..1, NEW nb \in BufType
  PROVE  PutBuf(st, [st EXCEPT ![s].buf[b] = nb], s, b, nb)
<1> DEFINE x == [st[s] EXCEPT !.buf[b] = nb]
           v == [st EXCEPT ![s].buf[b] = nb]
<1>1. /\ st[s] \in [defer : {st[s].defer}, cmd : {st[s].cmd}, buf : {st[s].buf}]
      /\ st[s].defer \in -MaxDefer .. MaxDefer /\ st[s].cmd \in 0..1
      /\ st[s].buf \in [0..1 -> BufType]
  BY StageIs
<1>2. /\ x.defer = st[s].defer /\ x.cmd = st[s].cmd /\ x.buf = [st[s].buf EXCEPT ![b] = nb]
      /\ x \in [defer : {x.defer}, cmd : {x.cmd}, buf : {x.buf}]
  BY <1>1
<1>3. v = [st EXCEPT ![s] = x]
  OBVIOUS
<1> HIDE DEF x
<1>4. x.buf \in [0..1 -> BufType] /\ x.buf[b] = nb /\ x.buf[1 - b] = st[s].buf[1 - b]
  BY <1>1, <1>2
<1>5. x \in StageType
  BY <1>1, <1>2, <1>4 DEF StageType
<1> HIDE DEF v
<1>6. Except(st, v, s) /\ v[s] = x
  BY <1>3, <1>5, ExceptIs
<1> QED
  BY <1>2, <1>4, <1>6 DEF PutBuf, v

LEMMA PutDeferIs ==
  ASSUME NEW st \in [Stages -> StageType], NEW s \in Stages, NEW n \in -MaxDefer .. MaxDefer
  PROVE  PutDefer(st, [st EXCEPT ![s].defer = n], s, n)
<1> DEFINE x == [st[s] EXCEPT !.defer = n]
           v == [st EXCEPT ![s].defer = n]
<1>1. /\ st[s] \in [defer : {st[s].defer}, cmd : {st[s].cmd}, buf : {st[s].buf}]
      /\ st[s].cmd \in 0..1 /\ st[s].buf \in [0..1 -> BufType]
  BY StageIs
<1>2. /\ x.defer = n /\ x.cmd = st[s].cmd /\ x.buf = st[s].buf
      /\ x \in [defer : {x.defer}, cmd : {x.cmd}, buf : {x.buf}]
  BY <1>1
<1>3. v = [st EXCEPT ![s] = x]
  OBVIOUS
<1> HIDE DEF x
<1>4. x \in StageType
  BY <1>1, <1>2 DEF StageType
<1> HIDE DEF v
<1>5. Except(st, v, s) /\ v[s] = x
  BY <1>3, <1>4, ExceptIs
<1> QED
  BY <1>2, <1>5 DEF PutDefer, v

\* What recording an operation on stage s leaves.
RecordedAs(st, v, ent, s, o) ==
  LET b == st[s].cmd
      cmd == Command(CmdKind(ent, o), o) IN
  /\ PutBuf(st, v, s, b, v[s].buf[b])
  /\ Recordable(ent, v[s].buf[b]) /\ Grown(st[s].buf[b], cmd, v[s].buf[b])

LEMMA RecordedIs ==
  ASSUME NEW st \in [Stages -> StageType], NEW ent, NEW s \in Stages, NEW o \in AllOps,
         Recordable(ent, st[s].buf[st[s].cmd]), ent[o.ent[1]].gen = o.ent[2]
  PROVE  RecordedAs(st, Recorded(st, ent, s, o), ent, s, o)
<1> DEFINE b == st[s].cmd
           buf == st[s].buf[b]
           kind == CmdKind(ent, o)
           cmd == Command(kind, o)
           b2 == Batched(buf, cmd)
           nb == Notified(b2, kind, o)
           v == Recorded(st, ent, s, o)
<1>1. b \in 0..1 /\ buf \in BufType
  BY StageIs
<1>2. /\ cmd \in Cmds /\ cmd.of = o /\ cmd.next = 0 /\ cmd.of.op # "none"
      /\ cmd.kind = kind /\ (kind = "Emplace" => o.op = "set")
  BY CommandIs
<1>3. v = [st EXCEPT ![s].buf[b] = nb]
  BY DEF Recorded
<1>4. Recordable(ent, b2) /\ Batch2(buf, cmd, b2)
  <2> HIDE DEF cmd, buf
  <2> QED
    BY <1>2, BatchedIs DEF buf
<1> HIDE DEF cmd, b2, buf, kind
<1>5. Recordable(ent, nb) /\ Grown(buf, cmd, nb)
  <2>1. CASE kind = "Emplace"
    <3>1. Noted(b2, nb)
      BY <1>2, <1>4, <2>1, NotifiedIs DEF Batch2
    <3> HIDE DEF nb
    <3>2. Recordable(ent, nb)
      BY <1>4, <3>1, NotedIs
    <3>3. Len(buf.queue) \in Nat
      BY <1>1, BufIs
    <3>4. Grown(buf, cmd, nb)
      <4> DEFINE n == Len(buf.queue)
      <4>1. /\ nb \in BufType /\ Len(nb.queue) = n + 2 /\ n \in Nat
            /\ \A k \in 1..n : Alike(buf.queue[k], b2.queue[k])
            /\ \A k \in 1..n + 1 : nb.queue[k] = b2.queue[k]
            /\ b2.queue[n + 1].kind = cmd.kind /\ b2.queue[n + 1].of = cmd.of /\ b2.queue[n + 1].val = cmd.val
            /\ nb.queue[n + 2].kind = "Modified" /\ nb.queue[n + 2].val = None
        BY <1>4, <3>1, <3>3 DEF Noted, Batch2
      <4> HIDE DEF n
      <4>2. \A k \in n + 2 .. n + 2 : k = n + 2
        BY <4>1
      <4>3. /\ n + 1 <= n + 2 /\ n + 1 \in 1..n + 1
            /\ \A k \in 1..n : k \in 1..n + 1
        BY <4>1
      <4>4. \A k \in 1..n : Alike(buf.queue[k], nb.queue[k])
        BY <4>1, <4>3
      <4>5. LET l == nb.queue[n + 1] IN l.kind = cmd.kind /\ l.of = cmd.of /\ l.val = cmd.val
        BY <4>1, <4>3
      <4>6. \A k \in n + 2 .. Len(nb.queue) : nb.queue[k].kind = "Modified" /\ nb.queue[k].val = None
        BY <4>1, <4>2
      <4> QED
        BY <4>1, <4>3, <4>4, <4>5, <4>6 DEF Grown, n
    <3> QED
      BY <3>2, <3>4
  <2>2. CASE kind # "Emplace"
    <3>1. nb = b2
      BY <2>2 DEF Notified
    <3> HIDE DEF nb
    <3>2. Len(buf.queue) \in Nat
      BY <1>1, BufIs
    <3>3. Grown(buf, cmd, nb)
      BY <1>4, <3>1, <3>2 DEF Grown, Batch2
    <3> QED
      BY <1>4, <3>1, <3>3
  <2> QED
    BY <2>1, <2>2
<1> HIDE DEF nb, v
<1>6. PutBuf(st, v, s, b, nb)
  BY <1>1, <1>3, <1>5, PutBufIs DEF Recordable
<1>7. v[s].buf[b] = nb
  BY <1>6 DEF PutBuf
<1> QED
  BY <1>5, <1>6, <1>7 DEF RecordedAs, v, cmd, buf, kind

-----------------------------------------------------------------------------
(* The parts of a step keep the buffers sound.                             *)

LEMMA FramesAre ==
  ASSUME NEW fl \in Seq(FrameType)
  PROVE  /\ DOMAIN fl = 1..Len(fl) /\ Len(fl) \in Nat /\ (fl = <<>> <=> Len(fl) = 0)
         /\ \A i \in DOMAIN fl :
              /\ fl[i] \in FrameType /\ fl[i].stage \in Stages /\ fl[i].buf \in 0..1
              /\ fl[i].pos \in Nat \ {0} /\ fl[i].added \subseteq Comps
<1>1. DOMAIN fl = 1..Len(fl) /\ Len(fl) \in Nat
  BY LenProperties
<1>2. fl = <<>> <=> Len(fl) = 0
  BY EmptySeq, <1>1
<1>3. ASSUME NEW i \in DOMAIN fl PROVE fl[i] \in FrameType
  BY <1>1, ElementOfSeq
<1> QED
  BY <1>1, <1>2, <1>3 DEF FrameType

\* In a buffer the links stay within the entities the storage knows.
LEMMA AgedChained ==
  ASSUME NEW w \in WorldType, NEW v, Aged(w, v), NEW buf \in BufType, Chained(w.ent, buf)
  PROVE  Chained(v.ent, buf)
<1> DEFINE q == buf.queue
<1>1. DOMAIN q = 1..Len(q) /\ \A k \in 1..Len(q) : q[k] \in Cmds
  BY BufIs
<1>2. \A k \in Links(q) : q[k].of.ent \in Entities
  BY <1>1, CmdIs DEF Links
<1> DEFINE P(i, ent) ==
      LET e == q[i].of.ent
          en == buf.entry[e[1]] IN
      /\ en.first \in Links(q) /\ en.last \in Links(q)
      /\ en.first <= en.last /\ i <= en.last
      /\ q[en.first].head /\ q[en.first].of.ent = q[en.last].of.ent
      /\ q[en.last].of.ent[1] = e[1]
      /\ e[2] <= q[en.last].of.ent[2] /\ q[en.last].of.ent[2] <= ent[e[1]].gen
<1>3. ASSUME NEW i \in Links(q) PROVE P(i, v.ent)
  <2> DEFINE e == q[i].of.ent
             en == buf.entry[e[1]]
  <2>1. P(i, w.ent)
    BY DEF Chained
  <2>2. en.last \in Links(q) /\ q[en.last].of.ent[2] <= w.ent[e[1]].gen
    BY <2>1
  <2>3. e \in Entities /\ q[en.last].of.ent \in Entities
    BY <1>2, <2>2
  <2>4. e[1] \in Slots /\ q[en.last].of.ent[2] \in Nat
    BY <2>3, EntityIs
  <2>5. v.ent[e[1]].gen >= w.ent[e[1]].gen /\ v.ent[e[1]].gen \in Nat /\ w.ent[e[1]].gen \in Nat
    BY <2>4, WorldIs DEF Aged
  <2>6. q[en.last].of.ent[2] <= v.ent[e[1]].gen
    <3> DEFINE x == q[en.last].of.ent[2]
               y == w.ent[e[1]].gen
               z == v.ent[e[1]].gen
    <3>1. x \in Nat /\ y \in Nat /\ z \in Nat /\ x <= y /\ z >= y
      BY <2>2, <2>4, <2>5
    <3> HIDE DEF x, y, z
    <3>2. x <= z
      BY <3>1
    <3> QED
      BY <3>2 DEF x, z
  <2> QED
    BY <2>1, <2>6
<1> QED
  BY <1>3 DEF Chained

LEMMA AgedSound ==
  ASSUME NEW w, NEW st, NEW fl, NEW X, SoundBut(w, st, fl, X), NEW v, Aged(w, v)
  PROVE  SoundBut(v, st, fl, X)
<1>1. Typed(w, st, fl) /\ LinksOK(w, st, fl)
  BY DEF SoundBut
<1>2. w \in WorldType /\ st \in [Stages -> StageType] /\ v \in WorldType
  BY <1>1 DEF Typed, Aged
<1>3. LinksOK(v, st, fl)
  <2> SUFFICES ASSUME NEW s \in Stages, NEW b \in 0..1
               PROVE  /\ Ordered(st[s].buf[b].queue)
                      /\ ~ Flushed(fl, s, b) => Chained(v.ent, st[s].buf[b])
    BY DEF LinksOK
  <2>1. st[s].buf[b] \in BufType
    BY <1>2, StageIs
  <2> QED
    BY <1>1, <1>2, <2>1, AgedChained DEF LinksOK
<1>4. Typed(v, st, fl)
  BY <1>1, <1>2 DEF Typed
<1> QED
  BY <1>3, <1>4 DEF SoundBut

\* The buffer that is being filled can be recorded in.
LEMMA FillingIs ==
  ASSUME NEW w, NEW st, NEW fl, NEW X, SoundBut(w, st, fl, X), NEW s \in Stages
  PROVE  ~ Flushed(fl, s, st[s].cmd) /\ Recordable(w.ent, st[s].buf[st[s].cmd])
<1>1. /\ Typed(w, st, fl) /\ FramesOK(st, fl) /\ EntriesOK(st, fl) /\ LinksOK(w, st, fl)
  BY DEF SoundBut
<1>2. st \in [Stages -> StageType] /\ fl \in Seq(FrameType)
  BY <1>1 DEF Typed
<1> DEFINE b == st[s].cmd
           buf == st[s].buf[b]
<1>3. b \in 0..1 /\ b # 1 - b /\ buf \in BufType
  BY <1>2, StageIs
<1>4. ~ Flushed(fl, s, b)
  BY <1>1, <1>3 DEF Flushed, FramesOK
<1>5. Ordered(buf.queue) /\ Chained(w.ent, buf)
  BY <1>1, <1>3, <1>4 DEF LinksOK
<1>6. Fresh(buf)
  <2> SUFFICES ASSUME NEW sl \in Slots, buf.entry[sl].first # 0
               PROVE  \E k \in DOMAIN buf.queue : buf.queue[k].head /\ buf.queue[k].of.ent[1] = sl
    BY DEF Fresh
  <2>1. HeadAhead(buf.queue, fl, s, b, sl)
    BY <1>1, <1>3 DEF EntriesOK
  <2> QED
    BY <2>1 DEF HeadAhead
<1> QED
  BY <1>3, <1>4, <1>5, <1>6 DEF Recordable

\* A buffer that is being filled grows.
LEMMA GrownSound ==
  ASSUME NEW w, NEW st, NEW fl, NEW X, SoundBut(w, st, fl, X), NEW s \in Stages, NEW v,
         PutBuf(st, v, s, st[s].cmd, v[s].buf[st[s].cmd]), Recordable(w.ent, v[s].buf[st[s].cmd]),
         s \in X \/ st[s].defer # 0 \/ (s = Main /\ InFlush(fl, Main))
  PROVE  SoundBut(w, v, fl, X)
<1>1. /\ Typed(w, st, fl) /\ FramesOK(st, fl) /\ BuffersOK(st, fl, X) /\ EntriesOK(st, fl) /\ LinksOK(w, st, fl)
  BY DEF SoundBut
<1>2. st \in [Stages -> StageType] /\ fl \in Seq(FrameType) /\ v \in [Stages -> StageType]
  BY <1>1 DEF Typed, PutBuf, Except
<1> DEFINE c == st[s].cmd
<1>3. c \in 0..1 /\ 1 - c \in 0..1 /\ c # 1 - c /\ \A b \in 0..1 : b = c \/ b = 1 - c
  <2>1. c \in 0..1
    BY <1>2, StageIs
  <2> HIDE DEF c
  <2> QED
    BY <2>1
<1>4. /\ \A t \in Stages \ {s} : v[t] = st[t]
      /\ v[s].cmd = c /\ v[s].defer = st[s].defer /\ v[s].buf[1 - c] = st[s].buf[1 - c]
      /\ Ordered(v[s].buf[c].queue) /\ Chained(w.ent, v[s].buf[c]) /\ Fresh(v[s].buf[c])
      /\ ~ Flushed(fl, s, c)
  BY FillingIs DEF PutBuf, Except, Recordable
<1> HIDE DEF c
<1>5. \A t \in Stages : v[t].cmd = st[t].cmd /\ v[t].defer = st[t].defer
  BY <1>4 DEF c
<1>6. \A t \in Stages, b \in 0..1 : v[t].buf[b] = st[t].buf[b] \/ (t = s /\ b = c)
  BY <1>3, <1>4
<1>7. Typed(w, v, fl)
  BY <1>1, <1>2 DEF Typed
<1>8. FramesOK(v, fl)
  <2>1. \A i \in DOMAIN fl : BufOf(v, fl[i]) = BufOf(st, fl[i]) /\ v[fl[i].stage].cmd = st[fl[i].stage].cmd
    <3> TAKE i \in DOMAIN fl
    <3>1. fl[i].stage \in Stages /\ fl[i].buf \in 0..1
      BY <1>2, FramesAre
    <3>2. ~ (fl[i].stage = s /\ fl[i].buf = c)
      BY <1>4 DEF Flushed
    <3> QED
      BY <1>5, <1>6, <3>1, <3>2 DEF BufOf
  <2> QED
    BY <1>1, <2>1 DEF FramesOK
<1>9. BuffersOK(v, fl, X)
  <2> SUFFICES ASSUME NEW t \in Stages, NEW b \in 0..1, v[t].buf[b].queue # <<>>
               PROVE  Filled(v, fl, t, b) \/ (t \in X /\ b = v[t].cmd)
    BY DEF BuffersOK
  <2>1. CASE t = s /\ b = c
    BY <1>4, <2>1 DEF Filled
  <2>2. CASE ~ (t = s /\ b = c)
    <3>1. Filled(st, fl, t, b) \/ (t \in X /\ b = st[t].cmd)
      BY <1>1, <1>6, <2>2 DEF BuffersOK
    <3> QED
      BY <1>5, <3>1 DEF Filled
  <2> QED
    BY <2>1, <2>2
<1>10. EntriesOK(v, fl)
  <2> SUFFICES ASSUME NEW t \in Stages, NEW b \in 0..1, NEW sl \in Slots, v[t].buf[b].entry[sl].first # 0
               PROVE  HeadAhead(v[t].buf[b].queue, fl, t, b, sl)
    BY DEF EntriesOK
  <2>1. CASE t = s /\ b = c
    <3>1. PICK k \in DOMAIN v[s].buf[c].queue :
            v[s].buf[c].queue[k].head /\ v[s].buf[c].queue[k].of.ent[1] = sl
      BY <1>4, <2>1 DEF Fresh
    <3>2. \A i \in DOMAIN fl : ~ (fl[i].stage = t /\ fl[i].buf = b)
      BY <1>4, <2>1 DEF Flushed
    <3> QED
      BY <2>1, <3>1, <3>2 DEF HeadAhead
  <2>2. CASE ~ (t = s /\ b = c)
    <3>1. v[t].buf[b] = st[t].buf[b]
      BY <1>6, <2>2
    <3> QED
      BY <1>1, <3>1 DEF EntriesOK
  <2> QED
    BY <2>1, <2>2
<1>11. LinksOK(w, v, fl)
  <2> SUFFICES ASSUME NEW t \in Stages, NEW b \in 0..1
               PROVE  /\ Ordered(v[t].buf[b].queue)
                      /\ ~ Flushed(fl, t, b) => Chained(w.ent, v[t].buf[b])
    BY DEF LinksOK
  <2>1. CASE t = s /\ b = c
    BY <1>4, <2>1
  <2>2. CASE ~ (t = s /\ b = c)
    BY <1>1, <1>6, <2>2 DEF LinksOK
  <2> QED
    BY <2>1, <2>2
<1> QED
  BY <1>7, <1>8, <1>9, <1>10, <1>11 DEF SoundBut

LEMMA RecordSound ==
  ASSUME NEW w, NEW st, NEW fl, NEW X, SoundBut(w, st, fl, X), NEW s \in Stages,
         NEW o \in AllOps, w.ent[o.ent[1]].gen = o.ent[2],
         s \in X \/ st[s].defer # 0 \/ (s = Main /\ InFlush(fl, Main))
  PROVE  /\ SoundBut(w, Recorded(st, w.ent, s, o), fl, X)
         /\ RecordedAs(st, Recorded(st, w.ent, s, o), w.ent, s, o)
<1> DEFINE v == Recorded(st, w.ent, s, o)
<1>1. Recordable(w.ent, st[s].buf[st[s].cmd])
  BY FillingIs
<1>2. st \in [Stages -> StageType]
  BY DEF SoundBut, Typed
<1>3. RecordedAs(st, v, w.ent, s, o)
  BY <1>1, <1>2, RecordedIs
<1> HIDE DEF v
<1>4. SoundBut(w, v, fl, X)
  BY <1>3, GrownSound DEF RecordedAs
<1> QED
  BY <1>3, <1>4 DEF v

\* Stage s swaps its buffers; (v, fl2) are the stages and flushes afterwards.
Flip(st, s, v) ==
  /\ Except(st, v, s) /\ v[s].defer = st[s].defer /\ v[s].cmd = 1 - st[s].cmd
  /\ v[s].buf = st[s].buf

NewFrame(fl, fl2, s, b) ==
  /\ fl2 \in Seq(FrameType) /\ Len(fl2) = Len(fl) + 1
  /\ \A i \in 1..Len(fl) : fl2[i] = fl[i]
  /\ LET f == fl2[Len(fl) + 1] IN
     f.stage = s /\ f.buf = b /\ f.pos = 1 /\ f.step = "batch" /\ f.added = {}

SwapTo(st, fl, s, v, fl2) ==
  LET q == st[s].buf[st[s].cmd].queue IN
  \/ q = <<>> /\ v = st /\ fl2 = fl
  \/ q # <<>> /\ Flip(st, s, v) /\ NewFrame(fl, fl2, s, st[s].cmd)

EndTo(st, fl, s, v, fl2) ==
  IF InFlush(fl, s) THEN v = st /\ fl2 = fl ELSE SwapTo(st, fl, s, v, fl2)

LEMMA SwappedIs ==
  ASSUME NEW w, NEW st \in [Stages -> StageType], NEW fl \in Seq(FrameType), NEW s \in Stages
  PROVE  LET r == Swapped(st, fl, w, s) IN SwapTo(st, fl, s, r.stage, r.flush)
<1> DEFINE b == st[s].cmd
           q == st[s].buf[b].queue
           r == Swapped(st, fl, w, s)
           f == [stage |-> s, buf |-> b, pos |-> 1, step |-> "batch", added |-> {}]
           x == [st[s] EXCEPT !.cmd = 1 - b]
<1>1. /\ st[s] \in [defer : {st[s].defer}, cmd : {b}, buf : {st[s].buf}]
      /\ st[s].defer \in -MaxDefer .. MaxDefer /\ b \in 0..1 /\ 1 - b \in 0..1
      /\ st[s].buf \in [0..1 -> BufType]
  BY StageIs
<1>2. CASE q = <<>>
  <2>1. r.stage = st /\ r.flush = fl
    BY <1>2 DEF Swapped
  <2> QED
    BY <1>2, <2>1 DEF SwapTo
<1>3. CASE q # <<>>
  <2>1. r.stage = [st EXCEPT ![s] = x] /\ r.flush = Append(fl, f)
    BY <1>3 DEF Swapped
  <2>2. /\ x.defer = st[s].defer /\ x.cmd = 1 - b /\ x.buf = st[s].buf
        /\ x \in [defer : {x.defer}, cmd : {x.cmd}, buf : {x.buf}]
    BY <1>1
  <2>3. f \in FrameType /\ f.stage = s /\ f.buf = b /\ f.pos = 1 /\ f.step = "batch" /\ f.added = {}
    BY <1>1 DEF FrameType
  <2> HIDE DEF x, f, r
  <2>4. x \in StageType
    BY <1>1, <2>2 DEF StageType
  <2>5. Except(st, r.stage, s) /\ r.stage[s] = x
    BY <2>1, <2>4, ExceptIs
  <2>6. Flip(st, s, r.stage)
    BY <2>2, <2>5 DEF Flip
  <2>7. NewFrame(fl, r.flush, s, b)
    <3>1. /\ r.flush \in Seq(FrameType) /\ Len(r.flush) = Len(fl) + 1
          /\ \A i \in 1..Len(fl) : r.flush[i] = fl[i]
          /\ r.flush[Len(fl) + 1] = f
      BY <2>1, <2>3, AppendProperties
    <3> HIDE DEF b
    <3> QED
      BY <2>3, <3>1 DEF NewFrame
  <2> QED
    BY <1>3, <2>6, <2>7 DEF SwapTo, r
<1> QED
  BY <1>2, <1>3

LEMMA EndedIs ==
  ASSUME NEW w, NEW st \in [Stages -> StageType], NEW fl \in Seq(FrameType), NEW s \in Stages
  PROVE  LET r == Ended(st, fl, w, s) IN EndTo(st, fl, s, r.stage, r.flush)
<1> DEFINE r == Ended(st, fl, w, s)
<1>1. CASE InFlush(fl, s)
  <2>1. r.stage = st /\ r.flush = fl
    BY <1>1 DEF Ended, InFlush
  <2> QED
    BY <1>1, <2>1 DEF EndTo
<1>2. CASE ~ InFlush(fl, s)
  <2>1. r = Swapped(st, fl, w, s)
    BY <1>2 DEF Ended, InFlush
  <2>2. SwapTo(st, fl, s, r.stage, r.flush)
    BY <2>1, SwappedIs
  <2> QED
    BY <1>2, <2>2 DEF EndTo
<1> QED
  BY <1>1, <1>2

\* A stage without commands needs no excuse.
LEMMA NoneLeft ==
  ASSUME NEW w, NEW st, NEW fl, NEW s \in Stages, SoundBut(w, st, fl, {s}),
         st[s].buf[st[s].cmd].queue = <<>> \/ st[s].defer # 0 \/ (s = Main /\ InFlush(fl, Main))
  PROVE  Sound(w, st, fl)
<1>1. BuffersOK(st, fl, {s})
  BY DEF SoundBut
<1>2. ASSUME NEW t \in Stages, NEW b \in 0..1, st[t].buf[b].queue # <<>>
      PROVE  Filled(st, fl, t, b)
  <2>1. Filled(st, fl, t, b) \/ (t \in {s} /\ b = st[t].cmd)
    BY <1>1, <1>2 DEF BuffersOK
  <2>2. CASE t = s /\ b = st[t].cmd
    BY <1>2, <2>2 DEF Filled
  <2> QED
    BY <2>1, <2>2
<1>3. BuffersOK(st, fl, {})
  BY <1>2 DEF BuffersOK
<1> QED
  BY <1>3 DEF SoundBut, Sound

\* The queue that s writes to may be swapped: no flush has the other one.
Released(w, st, fl, s) ==
  /\ SoundBut(w, st, fl, {s}) /\ ~ InFlush(fl, s)
  /\ fl = <<>> \/ (Len(fl) = 1 /\ s = Main)

LEMMA SwapSound ==
  ASSUME NEW w, NEW st, NEW fl, NEW s \in Stages, Released(w, st, fl, s),
         NEW v, NEW fl2, SwapTo(st, fl, s, v, fl2)
  PROVE  Sound(w, v, fl2)
<1>0. SoundBut(w, st, fl, {s}) /\ ~ InFlush(fl, s) /\ (fl = <<>> \/ (Len(fl) = 1 /\ s = Main))
  BY DEF Released
<1> DEFINE c == st[s].cmd
           n == Len(fl) + 1
<1>1. /\ Typed(w, st, fl) /\ FramesOK(st, fl) /\ BuffersOK(st, fl, {s}) /\ EntriesOK(st, fl)
      /\ LinksOK(w, st, fl)
  BY <1>0 DEF SoundBut
<1>2. st \in [Stages -> StageType] /\ fl \in Seq(FrameType) /\ w \in WorldType
  BY <1>1 DEF Typed
<1>3. CASE st[s].buf[c].queue = <<>>
  <2>1. v = st /\ fl2 = fl
    BY <1>3 DEF SwapTo
  <2> QED
    BY <1>0, <1>3, <2>1, NoneLeft
<1>4. CASE st[s].buf[c].queue # <<>>
  <2>1. Flip(st, s, v) /\ NewFrame(fl, fl2, s, c)
    BY <1>4 DEF SwapTo
  <2>2. c \in 0..1 /\ 1 - c \in 0..1 /\ c # 1 - c /\ \A b \in 0..1 : b = c \/ b = 1 - c
    <3>1. c \in 0..1
      BY <1>2, StageIs
    <3> HIDE DEF c
    <3> QED
      BY <3>1
  <2>3. /\ v \in [Stages -> StageType] /\ v[s].cmd = 1 - c /\ v[s].defer = st[s].defer
        /\ \A t \in Stages \ {s} : v[t] = st[t]
        /\ \A t \in Stages : v[t].buf = st[t].buf /\ v[t].defer = st[t].defer
    BY <2>1 DEF Flip, Except
  <2>4. /\ DOMAIN fl = 1..Len(fl) /\ Len(fl) \in Nat /\ Len(fl) <= 1 /\ fl2 \in Seq(FrameType)
        /\ Len(fl2) = n /\ DOMAIN fl2 = 1..n /\ (Len(fl) = 1 => s = Main)
    BY <1>0, <1>2, <2>1, FramesAre DEF NewFrame
  <2>5. /\ \A i \in DOMAIN fl : fl2[i] = fl[i] /\ i \in DOMAIN fl2 /\ fl[i].stage # s /\ fl[i].stage \in Stages
        /\ n \in DOMAIN fl2 /\ \A i \in DOMAIN fl2 : i \in DOMAIN fl \/ i = n
    BY <1>0, <1>2, <2>1, <2>4, FramesAre DEF NewFrame, InFlush
  <2>6. LET f == fl2[n] IN f.stage = s /\ f.buf = c /\ f.pos = 1 /\ f.step = "batch"
    BY <2>1 DEF NewFrame
  <2> HIDE DEF n, c
  <2>7. \A t \in Stages, b \in 0..1 : Flushed(fl2, t, b) <=> Flushed(fl, t, b) \/ (t = s /\ b = c)
    BY <2>5, <2>6 DEF Flushed
  <2>8. \A b \in 0..1 : ~ Flushed(fl, s, b)
    BY <1>0 DEF Flushed, InFlush
  <2>9. Typed(w, v, fl2)
    BY <1>2, <2>3, <2>4 DEF Typed
  <2>10. FramesOK(v, fl2)
    <3>1. \A i \in DOMAIN fl : v[fl[i].stage] = st[fl[i].stage]
      BY <2>3, <2>5
    <3>2. ASSUME NEW i \in DOMAIN fl2
          PROVE  LET f == fl2[i] IN
                 /\ f.buf = 1 - v[f.stage].cmd
                 /\ f.pos <= Len(BufOf(v, f).queue) + 1
                 /\ f.step # "batch" => f.pos <= Len(BufOf(v, f).queue)
      <4>1. CASE i \in DOMAIN fl
        <5>1. LET f == fl[i] IN
              /\ f.buf = 1 - st[f.stage].cmd
              /\ f.pos <= Len(BufOf(st, f).queue) + 1
              /\ f.step # "batch" => f.pos <= Len(BufOf(st, f).queue)
          BY <1>1, <4>1 DEF FramesOK
        <5>2. fl2[i] = fl[i] /\ v[fl[i].stage] = st[fl[i].stage]
          BY <2>5, <3>1, <4>1
        <5> QED
          BY <5>1, <5>2 DEF BufOf
      <4>2. CASE i = n
        <5>1. BufOf(v, fl2[n]) \in BufType
          BY <2>2, <2>3, <2>6, StageIs DEF BufOf
        <5>2. Len(BufOf(v, fl2[n]).queue) \in Nat
          BY <5>1, BufIs
        <5>3. c = 1 - (1 - c)
          BY <2>2
        <5> QED
          BY <2>3, <2>6, <4>2, <5>2, <5>3
      <4> QED
        BY <2>5, <4>1, <4>2
    <3>3. Len(fl2) <= 2
      BY <2>4 DEF n
    <3>4. Len(fl2) = 2 => fl2[1].stage # Main /\ fl2[2].stage = Main
      <4>1. SUFFICES ASSUME Len(fl2) = 2 PROVE fl2[1].stage # Main /\ fl2[2].stage = Main
        OBVIOUS
      <4>2. n = 2 /\ Len(fl) = 1
        <5>1. n = 2
          BY <2>4, <4>1
        <5>2. n = Len(fl) + 1
          BY DEF n
        <5> QED
          BY <2>4, <5>1, <5>2
      <4>3. 1 \in DOMAIN fl /\ s = Main
        BY <2>4, <4>2
      <4>4. fl2[1].stage # Main
        BY <2>5, <4>3
      <4> QED
        BY <2>6, <4>2, <4>3, <4>4
    <3> QED
      BY <3>2, <3>3, <3>4 DEF FramesOK
  <2>11. BuffersOK(v, fl2, {})
    <3> SUFFICES ASSUME NEW t \in Stages, NEW b \in 0..1, v[t].buf[b].queue # <<>>
                 PROVE  Filled(v, fl2, t, b)
      BY DEF BuffersOK
    <3>1. Filled(st, fl, t, b) \/ (t = s /\ b = c)
      BY <1>1, <2>3 DEF BuffersOK, c
    <3>2. CASE t = s
      BY <2>2, <2>7, <2>8, <3>1, <3>2 DEF Filled, c
    <3>3. CASE t # s
      <4>1. v[t].cmd = st[t].cmd
        BY <2>3, <3>3
      <4>2. InFlush(fl, Main) => InFlush(fl2, Main)
        BY <2>5 DEF InFlush
      <4> QED
        BY <2>3, <2>7, <3>1, <3>3, <4>1, <4>2 DEF Filled
    <3> QED
      BY <3>2, <3>3
  <2>12. EntriesOK(v, fl2)
    <3> SUFFICES ASSUME NEW t \in Stages, NEW b \in 0..1, NEW sl \in Slots, v[t].buf[b].entry[sl].first # 0
                 PROVE  HeadAhead(v[t].buf[b].queue, fl2, t, b, sl)
      BY DEF EntriesOK
    <3> DEFINE q == v[t].buf[b].queue
    <3>1. HeadAhead(q, fl, t, b, sl)
      BY <1>1, <2>3 DEF EntriesOK
    <3>2. PICK k \in DOMAIN q : /\ q[k].head /\ q[k].of.ent[1] = sl
                                /\ \A i \in DOMAIN fl : fl[i].stage = t /\ fl[i].buf = b => Ahead(fl[i], k)
      BY <3>1 DEF HeadAhead
    <3>3. k >= 1
      <4>1. v[t].buf[b] \in BufType
        BY <2>3, StageIs
      <4> QED
        BY <4>1, BufIs
    <3>4. Ahead(fl2[n], k)
      BY <2>6, <3>3 DEF Ahead
    <3>5. \A i \in DOMAIN fl2 : fl2[i].stage = t /\ fl2[i].buf = b => Ahead(fl2[i], k)
      BY <2>5, <3>2, <3>4
    <3> HIDE DEF q
    <3>6. HeadAhead(q, fl2, t, b, sl)
      BY <3>2, <3>5 DEF HeadAhead
    <3> QED
      BY <3>6 DEF q
  <2>13. LinksOK(w, v, fl2)
    BY <1>1, <2>3, <2>7 DEF LinksOK
  <2> QED
    BY <2>9, <2>10, <2>11, <2>12, <2>13 DEF SoundBut, Sound
<1> QED
  BY <1>3, <1>4

\* What the queues are when an operation inside a flush is over.
LEMMA EndSound ==
  ASSUME NEW w, NEW st, NEW fl, SoundBut(w, st, fl, {Main}), fl # <<>>,
         NEW v, NEW fl2, EndTo(st, fl, Main, v, fl2)
  PROVE  Sound(w, v, fl2)
<1>1. Main \in Stages
  BY Consts
<1>2. fl \in Seq(FrameType) /\ FramesOK(st, fl)
  BY DEF SoundBut, Typed
<1>3. CASE InFlush(fl, Main)
  BY <1>1, <1>3, NoneLeft DEF EndTo
<1>4. CASE ~ InFlush(fl, Main)
  <2>1. DOMAIN fl = 1..Len(fl) /\ Len(fl) \in Nat /\ Len(fl) # 0
    BY <1>2, FramesAre
  <2>2. Len(fl) # 2
    BY <1>2, <1>4, <2>1 DEF FramesOK, InFlush
  <2>3. Len(fl) = 1
    BY <1>2, <2>1, <2>2 DEF FramesOK
  <2> QED
    <3>1. Released(w, st, fl, Main)
      BY <1>4, <2>3 DEF Released
    <3>2. SwapTo(st, fl, Main, v, fl2)
      BY <1>4 DEF EndTo
    <3> QED
      BY <1>1, <3>1, <3>2, SwapSound
<1> QED
  BY <1>3, <1>4

\* The observers of e may record an operation, in stages st1.
Observed(st, st1, ent, e) ==
  \/ st1 = st
  \/ \E o \in Operations(HookOps) : o.ent = e /\ RecordedAs(st, st1, ent, Main, o)

LEMMA ObserversSound ==
  ASSUME NEW w, NEW st, NEW fl, Sound(w, st, fl), fl # <<>>, hooks \in 0..HookBudget,
         NEW e \in Entities, w.ent[e[1]].gen = e[2], NEW events,
         Observers(st, fl, w, e, events)
  PROVE  /\ Sound(w, stage', flush') /\ hooks' \in 0..HookBudget
         /\ \E st1 : /\ st1 \in [Stages -> StageType] /\ Observed(st, st1, w.ent, e)
                     /\ EndTo(st1, fl, Main, stage', flush')
<1>1. st \in [Stages -> StageType] /\ fl \in Seq(FrameType) /\ Main \in Stages
  BY Consts DEF Sound, SoundBut, Typed
<1>2. SoundBut(w, st, fl, {Main})
  BY DEF Sound, SoundBut, BuffersOK
<1>3. CASE hooks' = hooks /\ BecomesNext(Ended(st, fl, w, Main))
  <2>1. EndTo(st, fl, Main, stage', flush')
    BY <1>1, <1>3, EndedIs DEF BecomesNext
  <2>2. Sound(w, stage', flush')
    BY <1>2, <2>1, EndSound
  <2>3. Observed(st, st, w.ent, e)
    BY DEF Observed
  <2> QED
    BY <1>1, <1>3, <2>1, <2>2, <2>3
<1>4. CASE /\ hooks > 0 /\ hooks' = hooks - 1
           /\ \E o \in Operations(HookOps) :
                /\ o.ent = e
                /\ BecomesNext(Ended(Recorded(st, w.ent, Main, o), fl, w, Main))
  <2>1. PICK o \in Operations(HookOps) :
           o.ent = e /\ BecomesNext(Ended(Recorded(st, w.ent, Main, o), fl, w, Main))
    BY <1>4
  <2> DEFINE st1 == Recorded(st, w.ent, Main, o)
  <2>2. o \in AllOps
    BY OperationSub DEF AllOps
  <2>3. SoundBut(w, st1, fl, {Main}) /\ RecordedAs(st, st1, w.ent, Main, o)
    BY <1>1, <1>2, <2>1, <2>2, RecordSound
  <2> HIDE DEF st1
  <2>4. st1 \in [Stages -> StageType]
    BY <2>3 DEF SoundBut, Typed
  <2>5. EndTo(st1, fl, Main, stage', flush')
    BY <1>1, <2>1, <2>4, EndedIs DEF BecomesNext, st1
  <2>6. Sound(w, stage', flush')
    BY <2>3, <2>5, EndSound
  <2>7. Observed(st, st1, w.ent, e)
    BY <2>1, <2>3 DEF Observed
  <2>8. hooks' \in 0..HookBudget
    BY <1>4, Consts
  <2> QED
    BY <2>4, <2>5, <2>6, <2>7, <2>8
<1> QED
  BY <1>3, <1>4 DEF Observers

\* A command of a buffer that is being flushed changes: its place in the
\* chain, and whether it holds the first entry, are kept.
Worn(buf, nb) ==
  /\ nb \in BufType /\ Len(nb.queue) = Len(buf.queue)
  /\ \A k \in 1..Len(buf.queue) :
       /\ nb.queue[k].of = buf.queue[k].of /\ nb.queue[k].next = buf.queue[k].next
       /\ nb.queue[k].head = buf.queue[k].head

LEMMA WornOrdered ==
  ASSUME NEW buf \in BufType, NEW nb, Worn(buf, nb), Ordered(buf.queue)
  PROVE  Ordered(nb.queue)
<1> DEFINE q == buf.queue
           q2 == nb.queue
<1>1. /\ DOMAIN q = DOMAIN q2
      /\ \A k \in DOMAIN q : q2[k].of = q[k].of /\ q2[k].next = q[k].next /\ q2[k].head = q[k].head
  BY BufIs DEF Worn
<1>2. Ordered(q)
  OBVIOUS
<1> HIDE DEF q, q2
<1>3. Links(q2) = Links(q) /\ \A k \in Links(q) : k \in DOMAIN q
  BY <1>1 DEF Links
<1>4. \A i \in Links(q) : /\ First(q2, i) <=> First(q, i)
                          /\ Final(q2, i) <=> Final(q, i)
                          /\ \A j \in Links(q) : Follows(q2, i, j) <=> Follows(q, i, j)
  BY <1>1, <1>3 DEF First, Final, Follows
<1>5. ASSUME NEW i \in Links(q)
      PROVE  /\ q2[i].head <=> First(q2, i)
             /\ \/ q2[i].next = 0 /\ Final(q2, i)
                \/ \E j \in Links(q2) : Follows(q2, i, j) /\ q2[i].next = IF First(q2, i) THEN -j ELSE j
  <2>1. /\ q[i].head <=> First(q, i)
        /\ \/ q[i].next = 0 /\ Final(q, i)
           \/ \E j \in Links(q) : Follows(q, i, j) /\ q[i].next = IF First(q, i) THEN -j ELSE j
    BY <1>2, <1>3 DEF Ordered
  <2> QED
    BY <1>1, <1>3, <1>4, <2>1
<1>6. ASSUME NEW i \in DOMAIN q2, i \notin Links(q2) PROVE q2[i].next = 0 /\ ~ q2[i].head
  BY <1>1, <1>2, <1>3, <1>6 DEF Ordered
<1>7. Ordered(q2)
  BY <1>1, <1>3, <1>5, <1>6 DEF Ordered
<1> QED
  BY <1>7 DEF q2

\* The flush at the top has moved on to (pos, step).
Moved(fl, fl2, pos, step, added) ==
  /\ fl2 \in Seq(FrameType) /\ Len(fl2) = Len(fl)
  /\ \A i \in DOMAIN fl : i # Len(fl) => fl2[i] = fl[i]
  /\ LET f == fl[Len(fl)]
         g == fl2[Len(fl)] IN
     g.stage = f.stage /\ g.buf = f.buf /\ g.pos = pos /\ g.step = step /\ g.added = added

LEMMA AtIs ==
  ASSUME flush \in Seq(FrameType), flush # <<>>, NEW pos \in Nat \ {0},
         NEW step \in {"batch", "moves", "exec", "write"}, NEW added \in SUBSET Comps
  PROVE  Moved(flush, At(pos, step, added), pos, step, added)
<1> DEFINE n == Len(flush)
           f == flush[n]
           g == [f EXCEPT !.pos = pos, !.step = step, !.added = added]
           fl2 == At(pos, step, added)
<1>1. n \in Nat /\ n # 0 /\ DOMAIN flush = 1..n /\ n \in 1..n
  BY FramesAre
<1>2. f \in FrameType
  BY <1>1, FramesAre
<1>3. /\ g.stage = f.stage /\ g.buf = f.buf /\ g.pos = pos /\ g.step = step /\ g.added = added
      /\ g \in FrameType
  BY <1>2 DEF FrameType
<1>4. fl2 = [flush EXCEPT ![n] = g]
  BY DEF At
<1> HIDE DEF g, fl2
<1>5. fl2 \in Seq(FrameType) /\ Len(fl2) = n /\ \A i \in 1..n : fl2[i] = IF i = n THEN g ELSE flush[i]
  BY <1>1, <1>3, <1>4, ExceptSeq
<1> QED
  BY <1>1, <1>3, <1>5 DEF Moved, fl2

\* An entry that is used after a step is that of a command still ahead.
StillAhead(buf, f, nb, g) ==
  \A sl \in Slots : nb.entry[sl].first # 0 =>
    /\ buf.entry[sl].first # 0
    /\ \A k \in DOMAIN buf.queue :
         buf.queue[k].head /\ buf.queue[k].of.ent[1] = sl /\ Ahead(f, k) => Ahead(g, k)

LEMMA WornSound ==
  ASSUME NEW w, NEW st, NEW fl, Sound(w, st, fl), fl # <<>>,
         NEW fl2, NEW pos, NEW step, NEW added, Moved(fl, fl2, pos, step, added),
         NEW v, NEW nb, PutBuf(st, v, fl[Len(fl)].stage, fl[Len(fl)].buf, nb),
         Worn(BufOf(st, fl[Len(fl)]), nb),
         StillAhead(BufOf(st, fl[Len(fl)]), fl[Len(fl)], nb, fl2[Len(fl)]),
         pos <= Len(nb.queue) + 1, step # "batch" => pos <= Len(nb.queue)
  PROVE  Sound(w, v, fl2)
<1> DEFINE n == Len(fl)
           f == fl[n]
           g == fl2[n]
           s == f.stage
           c == f.buf
           buf == BufOf(st, f)
<1>1. /\ Typed(w, st, fl) /\ FramesOK(st, fl) /\ BuffersOK(st, fl, {}) /\ EntriesOK(st, fl)
      /\ LinksOK(w, st, fl)
  BY DEF SoundBut, Sound
<1>2. st \in [Stages -> StageType] /\ fl \in Seq(FrameType) /\ w \in WorldType
      /\ fl2 \in Seq(FrameType)
  BY <1>1 DEF Typed, Moved
<1>3. /\ n \in Nat /\ n \in 1..n /\ DOMAIN fl = 1..n /\ DOMAIN fl2 = 1..n
      /\ \A i \in 1..n : fl[i].stage \in Stages /\ fl[i].buf \in 0..1
      /\ \A i \in 1..n : i # n => fl2[i] = fl[i]
      /\ g.stage = s /\ g.buf = c /\ g.pos = pos /\ g.step = step
  <2>1. /\ n \in Nat /\ n # 0 /\ DOMAIN fl = 1..n /\ DOMAIN fl2 = 1..n
        /\ \A i \in 1..n : fl[i].stage \in Stages /\ fl[i].buf \in 0..1
    BY <1>2, FramesAre DEF Moved
  <2>2. n \in 1..n
    BY <2>1
  <2>3. /\ \A i \in DOMAIN fl : i # n => fl2[i] = fl[i]
        /\ g.stage = s /\ g.buf = c /\ g.pos = pos /\ g.step = step
    BY DEF Moved
  <2> QED
    BY <2>1, <2>2, <2>3
<1>4. \A i \in 1..n : fl2[i].stage = fl[i].stage /\ fl2[i].buf = fl[i].buf
  BY <1>3
<1>5. c \in 0..1 /\ s \in Stages /\ buf = st[s].buf[c] /\ buf \in BufType /\ c # 1 - c
      /\ \A b \in 0..1 : b = c \/ b = 1 - c
  <2>1. c \in 0..1 /\ s \in Stages
    BY <1>3
  <2>2. buf \in BufType
    BY <1>2, <2>1, StageIs DEF BufOf
  <2>3. buf = st[s].buf[c]
    BY DEF BufOf
  <2> HIDE DEF c, buf, s
  <2> QED
    BY <2>1, <2>2, <2>3
<1>6. /\ v \in [Stages -> StageType] /\ v[s].buf[c] = nb
      /\ \A t \in Stages : v[t].cmd = st[t].cmd /\ v[t].defer = st[t].defer
      /\ \A t \in Stages, b \in 0..1 : v[t].buf[b] = st[t].buf[b] \/ (t = s /\ b = c)
  <2>1. /\ v \in [Stages -> StageType] /\ v[s].buf[c] = nb
        /\ v[s].defer = st[s].defer /\ v[s].cmd = st[s].cmd /\ v[s].buf[1 - c] = st[s].buf[1 - c]
        /\ \A t \in Stages : t # s => v[t] = st[t]
    BY DEF PutBuf, Except
  <2> HIDE DEF s, c
  <2> QED
    BY <1>5, <2>1
<1>7. /\ Worn(buf, nb) /\ StillAhead(buf, f, nb, g)
      /\ Len(nb.queue) = Len(buf.queue) /\ DOMAIN nb.queue = DOMAIN buf.queue /\ Len(buf.queue) \in Nat
      /\ DOMAIN buf.queue = 1..Len(buf.queue)
  BY <1>5, BufIs DEF Worn
<1>8. \A i \in 1..n : i # n => fl[i].stage # s
  <2>1. n <= 2 /\ (n = 2 => fl[1].stage # Main /\ fl[2].stage = Main)
    BY <1>1 DEF FramesOK
  <2>2. ASSUME NEW i \in 1..n, i # n PROVE fl[i].stage # s
    <3>1. n \in Nat /\ n \in 1..n
      BY <1>3
    <3>2. s = fl[n].stage
      OBVIOUS
    <3> HIDE DEF n, s
    <3>3. n = 2 /\ i = 1
      BY <2>1, <2>2, <3>1
    <3> QED
      BY <2>1, <3>2, <3>3
  <2> QED
    BY <2>2
<1> HIDE DEF n, f, g, s, c, buf
<1>9. /\ \A t, b : Flushed(fl2, t, b) <=> Flushed(fl, t, b)
      /\ \A t : InFlush(fl2, t) <=> InFlush(fl, t)
  BY <1>3, <1>4 DEF Flushed, InFlush
<1>10. Flushed(fl, s, c)
  BY <1>3 DEF Flushed, f, s, c
<1>11. Typed(w, v, fl2)
  BY <1>2, <1>6 DEF Typed
<1>12. FramesOK(v, fl2)
  <2>1. ASSUME NEW i \in 1..n
        PROVE  LET h == fl2[i] IN
               /\ h.buf = 1 - v[h.stage].cmd
               /\ h.pos <= Len(BufOf(v, h).queue) + 1
               /\ h.step # "batch" => h.pos <= Len(BufOf(v, h).queue)
    <3>0. LET h == fl[i] IN
               /\ h.buf = 1 - st[h.stage].cmd
               /\ h.pos <= Len(BufOf(st, h).queue) + 1
               /\ h.step # "batch" => h.pos <= Len(BufOf(st, h).queue)
      BY <1>1, <1>3 DEF FramesOK
    <3>1. CASE i = n
      <4>1. fl2[i] = g /\ fl[i] = f
        BY <3>1 DEF g, f
      <4>2. BufOf(v, g) = nb
        BY <1>3, <1>6 DEF BufOf
      <4>3. c = 1 - st[s].cmd
        BY <3>0, <4>1 DEF s, c
      <4> QED
        BY <1>3, <1>5, <1>6, <4>1, <4>2, <4>3
    <3>2. CASE i # n
      <4>1. fl2[i] = fl[i] /\ fl[i].stage \in Stages /\ fl[i].buf \in 0..1 /\ fl[i].stage # s
        BY <1>3, <1>8, <3>2
      <4>2. v[fl[i].stage].buf[fl[i].buf] = st[fl[i].stage].buf[fl[i].buf]
        BY <1>6, <4>1
      <4> QED
        BY <1>6, <3>0, <4>1, <4>2 DEF BufOf
    <3> QED
      BY <3>1, <3>2
  <2>2. Len(fl2) = Len(fl) /\ \A i \in 1..n : fl2[i].stage = fl[i].stage
    BY <1>4 DEF Moved
  <2>3. Len(fl) <= 2 /\ (Len(fl) = 2 => fl[1].stage # Main /\ fl[2].stage = Main)
    BY <1>1 DEF FramesOK
  <2>4. Len(fl2) = 2 => fl2[1].stage # Main /\ fl2[2].stage = Main
    BY <2>2, <2>3 DEF n
  <2> QED
    BY <1>3, <2>1, <2>2, <2>3, <2>4 DEF FramesOK
<1>13. BuffersOK(v, fl2, {})
  <2> SUFFICES ASSUME NEW t \in Stages, NEW b \in 0..1, v[t].buf[b].queue # <<>>
               PROVE  Filled(v, fl2, t, b)
    BY DEF BuffersOK
  <2>1. CASE t = s /\ b = c
    BY <1>9, <1>10, <2>1 DEF Filled
  <2>2. CASE ~ (t = s /\ b = c)
    <3>1. v[t].buf[b] = st[t].buf[b]
      BY <1>6, <2>2
    <3>2. Filled(st, fl, t, b)
      BY <1>1, <3>1 DEF BuffersOK
    <3> QED
      BY <1>6, <1>9, <3>2 DEF Filled
  <2> QED
    BY <2>1, <2>2
<1>14. EntriesOK(v, fl2)
  <2> SUFFICES ASSUME NEW t \in Stages, NEW b \in 0..1, NEW sl \in Slots, v[t].buf[b].entry[sl].first # 0
               PROVE  HeadAhead(v[t].buf[b].queue, fl2, t, b, sl)
    BY DEF EntriesOK
  <2>1. CASE t = s /\ b = c
    <3>1. buf.entry[sl].first # 0 /\ v[t].buf[b] = nb
      BY <1>6, <1>7, <2>1 DEF StillAhead
    <3>2. HeadAhead(buf.queue, fl, s, c, sl)
      BY <1>1, <1>5, <3>1 DEF EntriesOK
    <3>3. PICK k \in DOMAIN buf.queue :
             /\ buf.queue[k].head /\ buf.queue[k].of.ent[1] = sl
             /\ \A i \in DOMAIN fl : fl[i].stage = s /\ fl[i].buf = c => Ahead(fl[i], k)
      BY <3>2 DEF HeadAhead
    <3>4. Ahead(f, k)
      BY <1>3, <3>3 DEF f, s, c
    <3>5. Ahead(g, k)
      BY <1>6, <1>7, <2>1, <3>3, <3>4 DEF StillAhead
    <3>6. \A i \in 1..n : fl2[i].stage = s => i = n
      BY <1>4, <1>8
    <3>7. nb.queue[k].head /\ nb.queue[k].of.ent[1] = sl /\ k \in DOMAIN nb.queue
      BY <1>7, <3>3 DEF Worn
    <3> QED
      BY <1>3, <2>1, <3>1, <3>5, <3>6, <3>7 DEF HeadAhead, g
  <2>2. CASE ~ (t = s /\ b = c)
    <3>1. v[t].buf[b] = st[t].buf[b]
      BY <1>6, <2>2
    <3>2. HeadAhead(st[t].buf[b].queue, fl, t, b, sl)
      BY <1>1, <3>1 DEF EntriesOK
    <3>3. ASSUME NEW i \in 1..n, fl2[i].stage = t /\ fl2[i].buf = b PROVE fl2[i] = fl[i]
      BY <1>3, <1>4, <2>2, <3>3 DEF g
    <3> QED
      BY <1>3, <3>1, <3>2, <3>3 DEF HeadAhead
  <2> QED
    BY <2>1, <2>2
<1>15. LinksOK(w, v, fl2)
  <2> SUFFICES ASSUME NEW t \in Stages, NEW b \in 0..1
               PROVE  /\ Ordered(v[t].buf[b].queue)
                      /\ ~ Flushed(fl2, t, b) => Chained(w.ent, v[t].buf[b])
    BY DEF LinksOK
  <2>1. CASE t = s /\ b = c
    <3>1. Ordered(buf.queue)
      BY <1>1, <1>5 DEF LinksOK
    <3>2. Ordered(nb.queue)
      BY <1>5, <1>7, <3>1, WornOrdered
    <3> QED
      BY <1>6, <1>9, <1>10, <2>1, <3>2
  <2>2. CASE ~ (t = s /\ b = c)
    <3>1. v[t].buf[b] = st[t].buf[b]
      BY <1>6, <2>2
    <3> QED
      BY <1>1, <1>9, <3>1 DEF LinksOK
  <2> QED
    BY <2>1, <2>2
<1> QED
  BY <1>11, <1>12, <1>13, <1>14, <1>15 DEF SoundBut, Sound

-----------------------------------------------------------------------------
(* The steps of a flush and the queues.                                    *)

\* The flush at the top, its buffer and the command it is at.
LEMMA TopIs ==
  ASSUME Sound(world, stage, flush), flush # <<>>
  PROVE  /\ flush \in Seq(FrameType) /\ Len(flush) \in DOMAIN flush /\ Top = flush[Len(flush)]
         /\ Top.stage \in Stages /\ Top.buf \in 0..1 /\ Top.pos \in Nat \ {0} /\ Top.added \in SUBSET Comps
         /\ Top.buf = 1 - stage[Top.stage].cmd
         /\ Buf = BufOf(stage, Top) /\ Buf \in BufType /\ Buf = stage[Top.stage].buf[Top.buf]
         /\ Top.pos <= Len(Buf.queue) + 1
         /\ Top.step # "batch" => Top.pos <= Len(Buf.queue)
         /\ Top.pos <= Len(Buf.queue) =>
              /\ Top.pos \in DOMAIN Buf.queue /\ Cmd = Buf.queue[Top.pos] /\ Cmd \in Cmds
              /\ Cmd.of.ent \in Entities /\ Cmd.of.ent[1] \in Slots
<1>1. Typed(world, stage, flush) /\ FramesOK(stage, flush)
  BY DEF Sound, SoundBut
<1>2. flush \in Seq(FrameType) /\ stage \in [Stages -> StageType]
  BY <1>1 DEF Typed
<1>3. Len(flush) \in DOMAIN flush
  BY <1>2, FramesAre
<1>4. Top = flush[Len(flush)] /\ Buf = stage[Top.stage].buf[Top.buf]
  BY DEF Top, Buf
<1>5. Top \in FrameType
  BY <1>2, <1>3, <1>4, FramesAre
<1>6. /\ Top.stage \in Stages /\ Top.buf \in 0..1 /\ Top.pos \in Nat \ {0} /\ Top.added \in SUBSET Comps
  BY <1>5 DEF FrameType
<1>7. Buf = BufOf(stage, Top) /\ Buf \in BufType
  BY <1>2, <1>4, <1>6, StageIs DEF BufOf
<1>8. /\ Top.buf = 1 - stage[Top.stage].cmd
      /\ Top.pos <= Len(Buf.queue) + 1
      /\ Top.step # "batch" => Top.pos <= Len(Buf.queue)
  BY <1>1, <1>3, <1>4, <1>7 DEF FramesOK
<1>9. ASSUME Top.pos <= Len(Buf.queue)
      PROVE  /\ Top.pos \in DOMAIN Buf.queue /\ Cmd = Buf.queue[Top.pos] /\ Cmd \in Cmds
             /\ Cmd.of.ent \in Entities /\ Cmd.of.ent[1] \in Slots
  <2>1. Top.pos \in DOMAIN Buf.queue /\ Top.pos \in 1..Len(Buf.queue)
    BY <1>6, <1>7, <1>9, BufIs
  <2>2. Cmd = Buf.queue[Top.pos]
    BY DEF Cmd
  <2>3. Cmd \in Cmds
    BY <1>7, <2>1, <2>2, BufIs
  <2> QED
    BY <2>1, <2>2, <2>3, CmdIs, EntityIs
<1> QED
  BY <1>2, <1>3, <1>4, <1>6, <1>7, <1>8, <1>9

LEMMA DeferKept ==
  ASSUME DeferOK, flush # <<>>, \A t \in Stages : stage'[t].defer = stage[t].defer,
         UNCHANGED <<readonly, merging>>
  PROVE  DeferOK'
<1>1. Main \in Stages
  BY Consts
<1>2. ~ readonly /\ Main \notin ToSet(merging) /\ stage[Main].defer = 0
  BY DEF DeferOK, Idle
<1>3. \A t \in Stages \ {Main} : stage'[t].defer = IF t \in ToSet(merging) THEN 1 ELSE 0
  BY <1>2 DEF DeferOK
<1>4. /\ readonly \in BOOLEAN /\ merging \in Seq(Stages) /\ IsInjective(merging)
      /\ \A i \in DOMAIN merging : i # 1 => merging[i] # Main
  BY DEF DeferOK
<1>5. readonly' = readonly /\ merging' = merging
  OBVIOUS
<1> QED
  BY <1>1, <1>2, <1>3, <1>4, <1>5 DEF DeferOK

\* A step that changes the storage and the buffer being flushed, and ends an
\* operation during which the observers of e run.
Stepped(e, w, st, nb, fl, st1) ==
  /\ world' = w /\ Aged(world, w)
  /\ e \in Entities /\ w.ent[e[1]].gen = e[2]
  /\ PutBuf(stage, st, Top.stage, Top.buf, nb) /\ Worn(Buf, nb)
  /\ st1 \in [Stages -> StageType] /\ Observed(st, st1, w.ent, e)
  /\ EndTo(st1, fl, Main, stage', flush')

\* An operation that ends does not change how deep the stages are deferred.
LEMMA EndDefer ==
  ASSUME NEW st \in [Stages -> StageType], NEW st1, NEW ent, NEW e, Observed(st, st1, ent, e),
         NEW fl, NEW v, NEW fl2, EndTo(st1, fl, Main, v, fl2)
  PROVE  \A t \in Stages : v[t].defer = st[t].defer
<1>1. \A t \in Stages : st1[t].defer = st[t].defer
  BY DEF Observed, RecordedAs, PutBuf, Except
<1>2. \A t \in Stages : v[t].defer = st1[t].defer
  BY DEF EndTo, SwapTo, Flip, Except
<1> QED
  BY <1>1, <1>2

LEMMA ObserverStep ==
  ASSUME QueueInv, flush # <<>>, NEW w, world' = w, Aged(world, w),
         NEW e \in Entities, w.ent[e[1]].gen = e[2],
         NEW st, NEW nb, PutBuf(stage, st, Top.stage, Top.buf, nb), Worn(Buf, nb),
         NEW pos \in Nat \ {0}, NEW step \in {"batch", "moves", "exec", "write"},
         NEW added \in SUBSET Comps,
         pos <= Len(nb.queue) + 1, step # "batch" => pos <= Len(nb.queue),
         StillAhead(Buf, Top, nb, At(pos, step, added)[Len(flush)]),
         NEW events, Observers(st, At(pos, step, added), w, e, events),
         UNCHANGED <<readonly, merging>>
  PROVE  QueueInv' /\ \E st1 : Stepped(e, w, st, nb, At(pos, step, added), st1)
<1> DEFINE fl == At(pos, step, added)
<1>1. Sound(world, stage, flush) /\ DeferOK /\ hooks \in 0..HookBudget
  BY DEF QueueInv
<1>2. /\ flush \in Seq(FrameType) /\ Top = flush[Len(flush)] /\ Buf = BufOf(stage, Top)
  BY <1>1, TopIs
<1>3. Moved(flush, fl, pos, step, added)
  BY <1>2, AtIs
<1> HIDE DEF fl
<1>4. Sound(w, stage, flush)
  BY <1>1, AgedSound DEF Sound
<1>5. Sound(w, st, fl)
  BY <1>2, <1>3, <1>4, WornSound DEF fl
<1>6. fl # <<>>
  <2>1. Len(fl) = Len(flush)
    BY <1>3 DEF Moved
  <2> QED
    BY <1>2, <2>1, Empty, FramesAre
<1>7. /\ Sound(w, stage', flush') /\ hooks' \in 0..HookBudget
      /\ \E st1 : /\ st1 \in [Stages -> StageType] /\ Observed(st, st1, w.ent, e)
                  /\ EndTo(st1, fl, Main, stage', flush')
  BY <1>1, <1>5, <1>6, ObserversSound DEF fl
<1>8. PICK st1 : /\ st1 \in [Stages -> StageType] /\ Observed(st, st1, w.ent, e)
                 /\ EndTo(st1, fl, Main, stage', flush')
  BY <1>7
<1>9. \A t \in Stages : stage'[t].defer = stage[t].defer
  <2>1. st \in [Stages -> StageType] /\ \A t \in Stages : st[t].defer = stage[t].defer
    BY DEF PutBuf, Except
  <2> QED
    BY <1>8, <2>1, EndDefer
<1>10. DeferOK'
  BY <1>1, <1>9, DeferKept
<1>11. QueueInv'
  BY <1>7, <1>10 DEF QueueInv
<1>12. Stepped(e, w, st, nb, fl, st1)
  BY <1>8 DEF Stepped
<1> QED
  BY <1>11, <1>12 DEF fl

\* A queue in which some commands were used up.
Spent(q, q2) ==
  /\ q2 \in Seq(Cmds) /\ Len(q2) = Len(q)
  /\ \A k \in 1..Len(q) :
       /\ q2[k].of = q[k].of /\ q2[k].next = q[k].next /\ q2[k].head = q[k].head
       /\ q2[k].kind = q[k].kind \/ q2[k].kind \in {"Modified", "Skip"}

LEMMA RecastIs ==
  ASSUME NEW cmd \in Cmds, NEW kind, kind = cmd.kind \/ kind \in {"Modified", "Skip"},
         NEW x \in {cmd.val, None}, kind \in HasValue => x = cmd.val, kind = "Modified" => x = None
  PROVE  LET c == [cmd EXCEPT !.kind = kind, !.val = x] IN
         /\ c \in Cmds /\ c.kind = kind /\ c.val = x /\ c.of = cmd.of /\ c.next = cmd.next
         /\ c.head = cmd.head
<1> DEFINE c == [cmd EXCEPT !.kind = kind, !.val = x]
<1>1. /\ c.kind = kind /\ c.val = x /\ c.of = cmd.of /\ c.next = cmd.next /\ c.head = cmd.head
      /\ c \in [kind : {c.kind}, of : {c.of}, next : {c.next}, head : {c.head}, val : {c.val}]
  BY CmdIs
<1>2. cmd \in CommandType /\ Consistent(cmd) /\ cmd.val \in Values \cup {None}
      /\ cmd.kind \in {"Add", "Remove", "Clear", "Delete", "Set", "Ensure", "Emplace",
                       "AddModified", "Modified", "Skip"}
  BY CmdIs
<1> HIDE DEF c
<1>3. c \in CommandType
  <2>1. c.val \in Values \cup {None} /\ c.kind \in {"Add", "Remove", "Clear", "Delete", "Set",
          "Ensure", "Emplace", "AddModified", "Modified", "Skip"}
    BY <1>1, <1>2
  <2> QED
    BY <1>1, <1>2, <2>1 DEF CommandType
<1>4. Consistent(c)
  <2>1. c.of = cmd.of /\ (c.val = cmd.val \/ c.val = None) /\ (c.kind \in HasValue => c.val = cmd.val)
        /\ (c.kind = cmd.kind \/ c.kind \in {"Modified", "Skip"})
        /\ (c.kind = "Modified" => c.val = None)
    BY <1>1
  <2> QED
    BY <1>1, <1>2, <2>1 DEF Consistent, HasValue
<1>5. c \in Cmds
  BY <1>3, <1>4 DEF Cmds
<1> QED
  BY <1>1, <1>5 DEF c

LEMMA FunSeq ==
  ASSUME NEW n \in Nat, NEW q \in [1..n -> Cmds]
  PROVE  q \in Seq(Cmds) /\ Len(q) = n
<1>1. q \in Seq(Cmds)
  BY SeqDef
<1>2. DOMAIN q = 1..Len(q) /\ Len(q) \in Nat /\ DOMAIN q = 1..n
  BY <1>1, LenProperties
<1> QED
  BY <1>1, <1>2

LEMMA PutQueue ==
  ASSUME Sound(world, stage, flush), flush # <<>>, NEW q2, Spent(Buf.queue, q2)
  PROVE  LET nb == [Buf EXCEPT !.queue = q2] IN
         /\ PutBuf(stage, [stage EXCEPT ![Top.stage].buf[Top.buf].queue = q2], Top.stage, Top.buf, nb)
         /\ Worn(Buf, nb) /\ nb.queue = q2 /\ nb.entry = Buf.entry
<1> DEFINE nb == [Buf EXCEPT !.queue = q2]
           st == [stage EXCEPT ![Top.stage].buf[Top.buf].queue = q2]
<1>1. /\ Top.stage \in Stages /\ Top.buf \in 0..1 /\ Buf \in BufType
      /\ Buf = stage[Top.stage].buf[Top.buf] /\ stage \in [Stages -> StageType]
  BY TopIs DEF Sound, SoundBut, Typed
<1>2. /\ nb.queue = q2 /\ nb.entry = Buf.entry /\ nb \in [queue : {nb.queue}, entry : {nb.entry}]
  BY <1>1, BufIs
<1>3. st = [stage EXCEPT ![Top.stage].buf[Top.buf] = nb]
  BY <1>1
<1> HIDE DEF nb, st
<1>4. nb \in BufType
  BY <1>1, <1>2, BufIs DEF BufType, Spent
<1>5. PutBuf(stage, st, Top.stage, Top.buf, nb)
  BY <1>1, <1>3, <1>4, PutBufIs
<1>6. Worn(Buf, nb)
  BY <1>2, <1>4 DEF Worn, Spent
<1> QED
  BY <1>2, <1>5, <1>6 DEF nb, st

\* The commands of a batch after its first pass.
AfterFirst(q, ch) ==
  [k \in DOMAIN q |-> IF k \in ToSet(ch) THEN [q[k] EXCEPT !.kind = FirstPass(@)] ELSE q[k]]

LEMMA AfterFirstIs ==
  ASSUME NEW q \in Seq(Cmds), NEW ch
  PROVE  /\ Spent(q, AfterFirst(q, ch))
         /\ \A k \in 1..Len(q) : /\ AfterFirst(q, ch)[k].val = q[k].val
                                 /\ q[k].kind \in HasValue => AfterFirst(q, ch)[k].kind = q[k].kind
<1> DEFINE q2 == AfterFirst(q, ch)
<1>1. DOMAIN q = 1..Len(q) /\ Len(q) \in Nat /\ \A k \in 1..Len(q) : q[k] \in Cmds
  BY LenProperties, ElementOfSeq
<1>2. ASSUME NEW k \in 1..Len(q)
      PROVE  /\ q2[k] \in Cmds /\ q2[k].of = q[k].of /\ q2[k].next = q[k].next /\ q2[k].head = q[k].head
             /\ q2[k].kind = q[k].kind \/ q2[k].kind \in {"Modified", "Skip"}
             /\ q2[k].val = q[k].val /\ (q[k].kind \in HasValue => q2[k].kind = q[k].kind)
  <2>1. CASE k \in ToSet(ch)
    <3> DEFINE cmd == q[k]
               kind == FirstPass(cmd.kind)
    <3>1. cmd \in Cmds
      BY <1>1
    <3>2. q2[k] = [cmd EXCEPT !.kind = kind]
      BY <1>1, <2>1 DEF AfterFirst
    <3>3. [cmd EXCEPT !.kind = kind] = [cmd EXCEPT !.kind = kind, !.val = cmd.val]
      BY <3>1, CmdIs
    <3>4. cmd.kind \in HasValue => kind = cmd.kind
      BY DEF FirstPass, HasValue
    <3>5. kind = cmd.kind \/ kind \in {"Modified", "Skip"}
      BY DEF FirstPass
    <3>7. kind = "Modified" => cmd.kind \in {"AddModified", "Modified"}
      BY DEF FirstPass
    <3> HIDE DEF kind
    <3>8. kind = "Modified" => cmd.val = None
      BY <3>1, <3>7, CmdIs DEF Consistent, HasValue
    <3> HIDE DEF cmd, q2
    <3>6. LET c == [cmd EXCEPT !.kind = kind, !.val = cmd.val] IN
          /\ c \in Cmds /\ c.kind = kind /\ c.val = cmd.val /\ c.of = cmd.of /\ c.next = cmd.next
          /\ c.head = cmd.head
      BY <3>1, <3>4, <3>5, <3>8, RecastIs
    <3> QED
      BY <3>2, <3>3, <3>4, <3>5, <3>6 DEF cmd
  <2>2. CASE k \notin ToSet(ch)
    <3>1. q2[k] = q[k]
      BY <1>1, <2>2 DEF AfterFirst
    <3> QED
      BY <1>1, <3>1
  <2> QED
    BY <2>1, <2>2
<1>3. q2 \in [1..Len(q) -> Cmds]
  <2>1. DOMAIN q2 = 1..Len(q)
    BY <1>1 DEF AfterFirst
  <2>2. q2 = [k \in DOMAIN q2 |-> q2[k]]
    BY DEF AfterFirst
  <2> HIDE DEF q2
  <2> QED
    BY <1>2, <2>1, <2>2
<1> HIDE DEF q2
<1>4. q2 \in Seq(Cmds) /\ Len(q2) = Len(q)
  BY <1>1, <1>3, FunSeq
<1> QED
  BY <1>2, <1>4 DEF Spent, q2

\* The table a batch leads to, and what it adds and removes on the way.
LEMMA PlanIs ==
  ASSUME NEW q, NEW ch, NEW had \in SUBSET Comps
  PROVE  LET p == Plan(q, ch, had) IN
         /\ p.table \in SUBSET Comps /\ p.added \in SUBSET Comps /\ p.removed \in SUBSET Comps
         /\ had \ p.removed \subseteq p.table
         /\ p.table \subseteq (had \ p.removed) \cup p.added
<1> DEFINE A(c) == {i \in DOMAIN ch : Adds(q, ch[i], c)}
           R(c) == {i \in DOMAIN ch : Removes(q, ch[i], c)}
           p == Plan(q, ch, had)
<1>1. /\ p.table = {c \in Comps : IF R(c) = {} THEN c \in had \/ A(c) # {}
                                  ELSE \E i \in A(c) : \A j \in R(c) : j < i}
      /\ p.added = {c \in Comps : \E i \in A(c) : c \notin had \/ \E j \in R(c) : j < i}
      /\ p.removed = {c \in Comps : \E j \in R(c) : c \in had \/ \E i \in A(c) : i < j}
  BY DEF Plan
<1> HIDE DEF A, R, p
<1>2. p.table \in SUBSET Comps /\ p.added \in SUBSET Comps /\ p.removed \in SUBSET Comps
  BY <1>1
<1>3. ASSUME NEW c \in had, c \notin p.removed PROVE c \in p.table
  BY <1>1, <1>3
<1>4. ASSUME NEW c \in p.table, c \notin p.added PROVE c \in had /\ c \notin p.removed
  BY <1>1, <1>4
<1> QED
  BY <1>2, <1>3, <1>4 DEF p

\* What CommitBatch does to the storage: only the components of e change.
Batched2(e, w, p) ==
  LET had == Has(world.ent, e) IN
  /\ SameLife(world, w) /\ Others(world, w, e)
  /\ w.held = world.held + (Droppable(p.table \ had) - Droppable(had \ p.table))
  /\ Has(w.ent, e) = p.table
  /\ w.belief[e[1]] = world.belief[e[1]] \ (IF p.table # had THEN p.removed ELSE {})

LEMMA CommitBatchIs ==
  ASSUME QueueInv, CommitBatch
  PROVE  LET e == Cmd.of.ent
             p == Plan(Buf.queue, Chain(Buf.queue, Top.pos), Has(world.ent, e))
             q2 == AfterFirst(Buf.queue, Chain(Buf.queue, Top.pos))
             nb == [Buf EXCEPT !.queue = q2]
             st == [stage EXCEPT ![Top.stage].buf[Top.buf].queue = q2] IN
         /\ QueueInv' /\ Alive(world.ent, e) /\ Batched2(e, world', p)
         /\ \E st1 : Stepped(e, world', st, nb, At(Top.pos, "moves", p.added), st1)
<1> DEFINE e == Cmd.of.ent
           q == Buf.queue
           ch == Chain(q, Top.pos)
           had == Has(world.ent, e)
           p == Plan(q, ch, had)
           q2 == AfterFirst(q, ch)
           nb == [Buf EXCEPT !.queue = q2]
           st == [stage EXCEPT ![Top.stage].buf[Top.buf].queue = q2]
           removed == IF p.table # had THEN p.removed ELSE {}
           m == MoveTo(world, e, p.table)
           w == Emit(m, e, removed, {})
<1>1. Sound(world, stage, flush) /\ world \in WorldType
  BY DEF QueueInv, Sound, SoundBut, Typed
<1>2. /\ flush # <<>> /\ Top.step = "batch" /\ Top.pos <= Len(Buf.queue)
      /\ Alive(world.ent, e) /\ world' = w
      /\ Observers(st, At(Top.pos, "moves", p.added), w, e, removed)
      /\ UNCHANGED <<readonly, merging>>
  BY DEF CommitBatch, Batchable, AfterFirst
<1>3. /\ Top.pos \in Nat \ {0} /\ e \in Entities /\ q \in Seq(Cmds) /\ Buf \in BufType /\ Len(q) \in Nat
      /\ Top.pos \in DOMAIN q
  BY <1>1, <1>2, TopIs, BufIs
<1>4. had \in SUBSET Comps /\ world.ent[e[1]].gen = e[2]
  BY <1>2, HasIs DEF Alive
<1>5. p.table \in SUBSET Comps /\ p.added \in SUBSET Comps /\ removed \in SUBSET Comps
  <2> HIDE DEF had, q, ch
  <2> QED
    BY <1>4, PlanIs
<1>6. Spent(q, q2)
  BY <1>3, AfterFirstIs
<1> HIDE DEF q2
<1>7. PutBuf(stage, st, Top.stage, Top.buf, nb) /\ Worn(Buf, nb) /\ nb.queue = q2 /\ nb.entry = Buf.entry
  BY <1>1, <1>2, <1>6, PutQueue
<1> HIDE DEF p, e, st, nb, q, had
<1>8. /\ SameLife(world, m) /\ Others(world, m, e) /\ m.belief = world.belief
      /\ m.held = world.held + (Droppable(p.table \ had) - Droppable(had \ p.table))
      /\ Has(m.ent, e) = p.table
  <2>1. had = Has(world.ent, e) /\ m = MoveTo(world, e, p.table)
    BY DEF had
  <2>2. world \in WorldType /\ e \in Entities /\ p.table \in SUBSET Comps
    BY <1>1, <1>3, <1>5
  <2> HIDE DEF m
  <2> QED
    BY ONLY <2>1, <2>2, MoveToIs
<1> HIDE DEF m, removed
<1>9. Emitted(m, w, e, removed, {})
  BY <1>3, <1>5, <1>8, EmitIs DEF SameLife
<1> HIDE DEF w
<1>10. Batched2(e, w, p)
  <2>1. /\ w \in WorldType /\ w.ent = m.ent /\ w.held = m.held
        /\ w.belief[e[1]] = m.belief[e[1]] \ removed
        /\ \A sl \in Slots \ {e[1]} : w.belief[sl] = m.belief[sl]
    BY <1>9 DEF Emitted
  <2>2. SameLife(world, w) /\ Others(world, w, e)
    BY <1>8, <2>1 DEF SameLife, Others
  <2> QED
    BY <1>8, <2>1, <2>2 DEF Batched2, removed, had
<1>11. Aged(world, w) /\ w.ent[e[1]].gen = e[2]
  <2>1. SameLife(world, w) /\ e[1] \in Slots
    BY <1>3, <1>10, EntityIs DEF Batched2
  <2> QED
    BY <1>1, <1>4, <2>1, SameLifeAged DEF SameLife
<1>12. Moved(flush, At(Top.pos, "moves", p.added), Top.pos, "moves", p.added)
  BY <1>1, <1>2, <1>3, <1>5, AtIs, TopIs
<1>13. StillAhead(Buf, Top, nb, At(Top.pos, "moves", p.added)[Len(flush)])
  <2> DEFINE g == At(Top.pos, "moves", p.added)[Len(flush)]
  <2>1. g.pos = Top.pos /\ g.step = "moves"
    BY <1>12 DEF Moved
  <2> HIDE DEF g
  <2>2. \A k : Ahead(Top, k) => Ahead(g, k)
    BY <1>2, <2>1 DEF Ahead
  <2> QED
    BY <1>7, <2>2 DEF StillAhead, g
<1>14. Len(nb.queue) = Len(q) /\ Top.pos <= Len(nb.queue) /\ Top.pos <= Len(nb.queue) + 1
  BY <1>2, <1>3, <1>7 DEF Worn, q
<1>15. QueueInv' /\ \E st1 : Stepped(e, w, st, nb, At(Top.pos, "moves", p.added), st1)
  BY <1>2, <1>3, <1>5, <1>7, <1>11, <1>13, <1>14, ObserverStep
<1> QED
  BY <1>2, <1>10, <1>15 DEF e, p, q, q2, nb, st, had

\* A set of naturals has a least element, and a bounded one a greatest.
LEMMA NatMin ==
  ASSUME NEW S \in SUBSET Nat, S # {}
  PROVE  \E m \in S : \A n \in S : m <= n
<1> DEFINE F == {0..n : n \in S}
<1>1. IsWellFoundedOn(StrictSubsetOrdering(Nat), FiniteSubsetsOf(Nat))
  BY FS_StrictSubsetOrderingWellFounded
<1>2. F \subseteq FiniteSubsetsOf(Nat)
  <2>1. ASSUME NEW n \in S PROVE 0..n \in SUBSET Nat /\ IsFiniteSet(0..n)
    BY FS_Interval, 0 \in Int, n \in Int
  <2> QED
    BY <2>1 DEF FiniteSubsetsOf
<1>3. F # {}
  OBVIOUS
<1>4. PICK M \in F : \A y \in F : ~ (<<y, M>> \in StrictSubsetOrdering(Nat))
  <2> HIDE DEF F
  <2> QED
    BY <1>1, <1>2, <1>3, WFMin
<1>5. PICK m \in S : M = 0..m
  OBVIOUS
<1>6. ASSUME NEW n \in S, n < m PROVE FALSE
  <2>1. 0..n \in F
    OBVIOUS
  <2>2. <<0..n, 0..m>> \in StrictSubsetOrdering(Nat)
    BY <1>6 DEF StrictSubsetOrdering
  <2> QED
    BY <2>1, <2>2, <1>4, <1>5
<1> QED
  BY <1>6

LEMMA MaxIs ==
  ASSUME NEW n \in Nat, NEW S \in SUBSET (1..n), S # {}
  PROVE  Max(S) \in S /\ \A x \in S : Max(S) >= x
<1> DEFINE T == {n - x : x \in S}
<1>1. T \in SUBSET Nat
  <2> SUFFICES ASSUME NEW x \in S PROVE n - x \in Nat
    OBVIOUS
  <2>1. x \in 1..n
    OBVIOUS
  <2> QED
    BY <2>1
<1>2. T # {}
  OBVIOUS
<1>3. PICK m \in T : \A y \in T : m <= y
  <2> HIDE DEF T
  <2> QED
    BY <1>1, <1>2, NatMin
<1>4. PICK x \in S : m = n - x
  OBVIOUS
<1>5. ASSUME NEW y \in S PROVE x >= y
  <2>1. m <= n - y /\ x \in 1..n /\ y \in 1..n
    BY <1>3
  <2> QED
    BY <1>4, <2>1
<1> QED
  BY <1>5 DEF Max

LEMMA MinIs ==
  ASSUME NEW S \in SUBSET Nat, NEW x \in S, \A y \in S : x <= y
  PROVE  Min(S) = x
<1>1. \E z \in S : \A y \in S : z <= y
  OBVIOUS
<1>2. Min(S) \in S /\ \A y \in S : Min(S) <= y
  BY <1>1, Zenon DEF Min
<1>3. Min(S) \in Nat /\ x \in Nat /\ Min(S) <= x /\ x <= Min(S)
  BY <1>2
<1> QED
  BY <1>3

\* What the second pass leaves.
Second(w, e, q, m) ==
  /\ SameLife(w, m.w) /\ Others(w, m.w, e) /\ m.w.belief = w.belief /\ m.w.held = w.held
  /\ Has(m.w.ent, e) = Has(w.ent, e)
  /\ Spent(q, m.q)
  /\ \A k \in 1..Len(q) : q[k].kind \notin {"Set", "Ensure"} => m.q[k] = q[k]

LEMMA SecondPassIs ==
  ASSUME NEW w \in WorldType, NEW e \in Entities, NEW q \in Seq(Cmds), NEW ch
  PROVE  Second(w, e, q, SecondPass(w, e, q, ch))
<1> DEFINE n == Len(q)
           sets == {k \in DOMAIN q : k \in ToSet(ch) /\ q[k].kind \in {"Set", "Ensure"}}
           moved == {k \in sets : q[k].of.comp \in Has(w.ent, e)}
           Into(c) == {k \in moved : q[k].of.comp = c}
           Used(kind) == IF kind = "Set" THEN "Modified" ELSE "Skip"
           old == w.ent[e[1]].val
           val == [c \in Comps |-> IF Into(c) = {} THEN old[c] ELSE q[Max(Into(c))].val]
           q2 == [k \in DOMAIN q |->
                    IF k \in moved THEN [q[k] EXCEPT !.kind = Used(@), !.val = None]
                    ELSE IF k \in sets THEN [q[k] EXCEPT !.kind = "Skip"]
                    ELSE q[k]]
           v == WithVal(w, e, val, w.held)
           m == SecondPass(w, e, q, ch)
<1>1. n \in Nat /\ DOMAIN q = 1..n /\ \A k \in 1..n : q[k] \in Cmds
  BY LenProperties, ElementOfSeq
<1>2. \A c \in Comps : Into(c) \subseteq 1..n /\ Into(c) \subseteq sets
  BY <1>1
<1>3. e[1] \in Slots /\ w.held \in Int
  BY EntityIs, WorldIs
<1>4. old \in [Comps -> Vals]
  BY <1>3, WorldIs
<1>5. ASSUME NEW k \in sets PROVE q[k].val \in Values
  BY <1>1, CmdIs DEF Consistent, HasValue
<1> HIDE DEF n
<1>6. ASSUME NEW c \in Comps
      PROVE  val[c] \in Vals /\ (val[c] # None <=> old[c] # None)
  <2>1. CASE Into(c) = {}
    BY <1>4, <2>1
  <2>2. CASE Into(c) # {}
    <3> DEFINE S == Into(c)
    <3>1. S \in SUBSET (1..n) /\ S # {} /\ S \subseteq sets
      BY <1>2, <2>2
    <3>2. S # {} => c \in Has(w.ent, e)
      OBVIOUS
    <3> HIDE DEF S
    <3>3. Max(S) \in S
      BY <1>1, <3>1, MaxIs
    <3>4. q[Max(S)].val \in Values
      BY <1>5, <3>1, <3>3
    <3>5. val[c] = q[Max(S)].val
      BY <2>2 DEF S
    <3>6. old[c] # None
      BY <3>1, <3>2, HasIs
    <3> QED
      BY <3>4, <3>5, <3>6, Consts DEF Vals
  <2> QED
    BY <2>1, <2>2
<1>7. val \in [Comps -> Vals]
  <2>1. \A c \in Comps : val[c] \in Vals
    BY <1>6
  <2> HIDE DEF old, Into
  <2> QED
    BY <2>1
<1>8. m.w = v
  BY <1>3, WorldIs DEF SecondPass, WithVal
<1>9. m.q = q2
  BY DEF SecondPass
<1>10. ASSUME NEW k \in 1..n
       PROVE  /\ q2[k] \in Cmds /\ q2[k].of = q[k].of /\ q2[k].next = q[k].next /\ q2[k].head = q[k].head
              /\ q2[k].kind = q[k].kind \/ q2[k].kind \in {"Modified", "Skip"}
              /\ q[k].kind \notin {"Set", "Ensure"} => q2[k] = q[k]
  <2> DEFINE cmd == q[k]
  <2>1. cmd \in Cmds
    BY <1>1
  <2>2. CASE k \in moved
    <3> DEFINE kind == Used(cmd.kind)
    <3>1. q2[k] = [cmd EXCEPT !.kind = kind, !.val = None]
      BY <1>1, <2>2
    <3>2. kind \in {"Modified", "Skip"} /\ (kind \in HasValue => None = cmd.val) /\ None \in {cmd.val, None}
      BY DEF HasValue
    <3>3. cmd.kind \in {"Set", "Ensure"}
      BY <2>2
    <3> HIDE DEF kind, cmd, q2
    <3>4. LET c == [cmd EXCEPT !.kind = kind, !.val = None] IN
          c \in Cmds /\ c.kind = kind /\ c.of = cmd.of /\ c.next = cmd.next /\ c.head = cmd.head
      BY <2>1, <3>2, RecastIs
    <3> QED
      BY <3>1, <3>2, <3>3, <3>4 DEF cmd
  <2>3. CASE k \in sets /\ k \notin moved
    <3>1. q2[k] = [cmd EXCEPT !.kind = "Skip"]
      BY <1>1, <2>3
    <3>2. [cmd EXCEPT !.kind = "Skip"] = [cmd EXCEPT !.kind = "Skip", !.val = cmd.val]
      BY <2>1, CmdIs
    <3>3. cmd.kind \in {"Set", "Ensure"}
      BY <2>3
    <3>4. "Skip" \in {"Modified", "Skip"} /\ cmd.val \in {cmd.val, None} /\ "Skip" \notin HasValue
          /\ "Skip" # "Modified"
      BY DEF HasValue
    <3> HIDE DEF cmd, q2
    <3>5. LET c == [cmd EXCEPT !.kind = "Skip", !.val = cmd.val] IN
          c \in Cmds /\ c.kind = "Skip" /\ c.of = cmd.of /\ c.next = cmd.next /\ c.head = cmd.head
      BY <2>1, <3>4, RecastIs
    <3> QED
      BY <3>1, <3>2, <3>3, <3>5 DEF cmd
  <2>4. CASE k \notin sets
    <3>1. q2[k] = q[k]
      BY <1>1, <2>4
    <3> QED
      BY <2>1, <3>1
  <2> QED
    BY <2>2, <2>3, <2>4
<1>11. Spent(q, q2)
  <2>1. DOMAIN q2 = 1..n /\ q2 = [k \in DOMAIN q2 |-> q2[k]]
    BY <1>1
  <2> HIDE DEF q2
  <2>2. q2 \in [1..n -> Cmds]
    BY <1>10, <2>1
  <2>3. q2 \in Seq(Cmds) /\ Len(q2) = n
    BY <1>1, <2>2, FunSeq
  <2> QED
    BY <1>10, <2>3 DEF Spent, n
<1> HIDE DEF val, q2, m, old
<1>12. /\ v \in WorldType /\ v.belief = w.belief /\ v.held = w.held /\ v.ent[e[1]].val = val
       /\ \A sl \in Slots : /\ v.ent[sl].alive = w.ent[sl].alive /\ v.ent[sl].gen = w.ent[sl].gen
                            /\ sl # e[1] => v.ent[sl] = w.ent[sl]
  BY <1>3, <1>7, WithValIs
<1> HIDE DEF v
<1>13. Has(v.ent, e) = Has(w.ent, e)
  BY <1>6, <1>12 DEF Has, old
<1>14. SameLife(w, v) /\ Others(w, v, e)
  BY <1>12 DEF SameLife, Others
<1>15. \A k \in 1..Len(q) : q[k].kind \notin {"Set", "Ensure"} => q2[k] = q[k]
  BY <1>10 DEF n
<1> QED
  BY <1>8, <1>9, <1>11, <1>12, <1>13, <1>14, <1>15 DEF Second, m

\* What MoveValues does to the storage.
Told2(e, w, added) ==
  /\ SameLife(world, w) /\ Others(world, w, e) /\ w.held = world.held
  /\ Has(w.ent, e) = Has(world.ent, e)
  /\ w.belief[e[1]] = world.belief[e[1]] \cup (added \cap Has(world.ent, e))

LEMMA MoveValuesIs ==
  ASSUME QueueInv, MoveValues
  PROVE  LET e == Cmd.of.ent
             m == SecondPass(world, e, Buf.queue, Chain(Buf.queue, Top.pos))
             nb == [Buf EXCEPT !.queue = m.q]
             st == [stage EXCEPT ![Top.stage].buf[Top.buf].queue = m.q] IN
         /\ QueueInv' /\ Alive(world.ent, e) /\ Told2(e, world', Top.added)
         /\ Second(world, e, Buf.queue, m)
         /\ \E st1 : Stepped(e, world', st, nb, At(Top.pos, "exec", {}), st1)
<1> DEFINE e == Cmd.of.ent
           q == Buf.queue
           ch == Chain(q, Top.pos)
           m == SecondPass(world, e, q, ch)
           q2 == m.q
           v == m.w
           A == Top.added
           none == {}
           nb == [Buf EXCEPT !.queue = q2]
           st == [stage EXCEPT ![Top.stage].buf[Top.buf].queue = q2]
           w == Emit(v, e, none, A)
           events == A \cap Has(w.ent, e)
<1>1. Sound(world, stage, flush) /\ world \in WorldType
  BY DEF QueueInv, Sound, SoundBut, Typed
<1>2. /\ flush # <<>> /\ Top.step = "moves"
      /\ Alive(world.ent, e) /\ world' = w
      /\ Observers(st, At(Top.pos, "exec", none), w, e, events)
      /\ UNCHANGED <<readonly, merging>>
  BY DEF MoveValues
<1>3. Top.step # "batch"
  BY <1>2
<1>4. /\ Top.pos <= Len(Buf.queue) /\ Top.pos \in Nat \ {0} /\ e \in Entities /\ q \in Seq(Cmds) /\ Buf \in BufType /\ Len(q) \in Nat
      /\ A \in SUBSET Comps
  BY <1>1, <1>2, <1>3, TopIs, BufIs
<1>5. world.ent[e[1]].gen = e[2]
  BY <1>2 DEF Alive
<1>6. Second(world, e, q, m)
  <2> HIDE DEF q, e, ch
  <2> QED
    BY <1>1, <1>4, SecondPassIs
<1> HIDE DEF m
<1>7. Spent(q, q2) /\ SameLife(world, v) /\ Others(world, v, e) /\ v.belief = world.belief
      /\ v.held = world.held /\ Has(v.ent, e) = Has(world.ent, e)
  BY <1>6 DEF Second
<1> HIDE DEF q2
<1>8. PutBuf(stage, st, Top.stage, Top.buf, nb) /\ Worn(Buf, nb) /\ nb.queue = q2 /\ nb.entry = Buf.entry
  BY <1>1, <1>2, <1>7, PutQueue
<1> HIDE DEF e, st, nb, q, v, A
<1>9. none \in SUBSET Comps
  OBVIOUS
<1> HIDE DEF none
<1>10. Emitted(v, w, e, none, A)
  BY <1>4, <1>7, <1>9, EmitIs DEF SameLife
<1> HIDE DEF w
<1>11. Told2(e, w, A)
  <2>1. /\ w \in WorldType /\ w.ent = v.ent /\ w.held = v.held
        /\ w.belief[e[1]] = (v.belief[e[1]] \ none) \cup (A \cap Has(v.ent, e))
        /\ \A sl \in Slots \ {e[1]} : w.belief[sl] = v.belief[sl]
    BY <1>10 DEF Emitted
  <2>2. SameLife(world, w) /\ Others(world, w, e)
    BY <1>7, <2>1 DEF SameLife, Others
  <2>3. w.belief[e[1]] = v.belief[e[1]] \cup (A \cap Has(v.ent, e))
    BY <2>1 DEF none
  <2> QED
    BY <1>7, <2>1, <2>2, <2>3 DEF Told2
<1>12. Aged(world, w) /\ w.ent[e[1]].gen = e[2]
  <2>1. SameLife(world, w) /\ e[1] \in Slots
    BY <1>4, <1>11, EntityIs DEF Told2
  <2> QED
    BY <1>1, <1>5, <2>1, SameLifeAged DEF SameLife
<1>13. Moved(flush, At(Top.pos, "exec", none), Top.pos, "exec", none)
  BY <1>1, <1>2, <1>4, <1>9, AtIs, TopIs
<1>14. StillAhead(Buf, Top, nb, At(Top.pos, "exec", none)[Len(flush)])
  <2> DEFINE g == At(Top.pos, "exec", none)[Len(flush)]
  <2>1. g.pos = Top.pos /\ g.step = "exec"
    BY <1>13 DEF Moved
  <2> HIDE DEF g
  <2>2. \A k : Ahead(Top, k) => Ahead(g, k)
    BY <1>2, <2>1 DEF Ahead
  <2> QED
    BY <1>8, <2>2 DEF StillAhead, g
<1>15. Top.pos <= Len(nb.queue) /\ Top.pos <= Len(nb.queue) + 1
  BY <1>4, <1>8 DEF Worn, q
<1>16. QueueInv' /\ \E st1 : Stepped(e, w, st, nb, At(Top.pos, "exec", none), st1)
  BY <1>2, <1>4, <1>8, <1>9, <1>12, <1>14, <1>15, ObserverStep
<1> QED
  BY <1>2, <1>6, <1>11, <1>16 DEF e, m, q, q2, nb, st, none, A

\* The buffer after the entry of its current command is invalidated.
Unused(buf, cmd) ==
  IF cmd.head THEN [buf EXCEPT !.entry[cmd.of.ent[1]].first = 0] ELSE buf

\* The flush has gone past the place where it invalidates the entry.
Past(f, g) ==
  \/ g.pos = f.pos + 1 /\ g.step = "batch"
  \/ g.pos = f.pos /\ g.step = "write"

LEMMA InvalidatedIs ==
  ASSUME Sound(world, stage, flush), flush # <<>>, Top.pos <= Len(Buf.queue)
  PROVE  LET nb == Unused(Buf, Cmd) IN
         /\ PutBuf(stage, Invalidated, Top.stage, Top.buf, nb)
         /\ Worn(Buf, nb) /\ nb.queue = Buf.queue
         /\ \A g : Past(Top, g) => StillAhead(Buf, Top, nb, g)
<1> DEFINE nb == Unused(Buf, Cmd)
           sl == Cmd.of.ent[1]
           n == Len(Buf.queue)
<1>1. /\ Top.stage \in Stages /\ Top.buf \in 0..1 /\ Buf \in BufType /\ Top.pos \in Nat \ {0}
      /\ Buf = stage[Top.stage].buf[Top.buf] /\ stage \in [Stages -> StageType]
      /\ Cmd = Buf.queue[Top.pos] /\ sl \in Slots
  BY TopIs DEF Sound, SoundBut, Typed
<1>2. n \in Nat /\ DOMAIN Buf.queue = 1..n /\ Buf.queue \in Seq(Cmds)
      /\ Buf.entry \in [Slots -> Entry] /\ Buf \in [queue : {Buf.queue}, entry : {Buf.entry}]
  BY <1>1, BufIs
<1>3. /\ nb \in BufType /\ nb.queue = Buf.queue
      /\ \A s \in Slots : nb.entry[s].first # 0 => Buf.entry[s].first # 0 /\ ~ (Cmd.head /\ sl = s)
      /\ PutBuf(stage, Invalidated, Top.stage, Top.buf, nb)
  <2>1. CASE Cmd.head
    <3> DEFINE en == [Buf.entry[sl] EXCEPT !.first = 0]
    <3>1. Buf.entry[sl] \in Entry
      BY <1>1, <1>2
    <3>2. en \in Entry /\ en.first = 0
      BY <3>1 DEF Entry
    <3>3. nb = [Buf EXCEPT !.entry = [Buf.entry EXCEPT ![sl] = en]]
      BY <2>1 DEF Unused
    <3> HIDE DEF en
    <3>4. /\ nb.queue = Buf.queue /\ nb.entry = [Buf.entry EXCEPT ![sl] = en]
          /\ nb \in [queue : {nb.queue}, entry : {nb.entry}]
      BY <1>2, <3>3
    <3>5. Invalidated = [stage EXCEPT ![Top.stage].buf[Top.buf] = nb]
      BY <1>1, <2>1, <3>3 DEF Invalidated, Unused
    <3> HIDE DEF nb, sl
    <3>6. nb.entry \in [Slots -> Entry] /\ \A s \in Slots : nb.entry[s] = IF s = sl THEN en ELSE Buf.entry[s]
      BY <1>1, <1>2, <3>2, <3>4
    <3>7. nb \in BufType
      BY <1>2, <3>4, <3>6 DEF BufType
    <3>8. PutBuf(stage, Invalidated, Top.stage, Top.buf, nb)
      BY <1>1, <3>5, <3>7, PutBufIs
    <3> QED
      BY <3>2, <3>4, <3>6, <3>7, <3>8
  <2>2. CASE ~ Cmd.head
    <3>1. nb = Buf /\ Invalidated = stage
      BY <2>2 DEF Unused, Invalidated
    <3>2. PutBuf(stage, stage, Top.stage, Top.buf, Buf)
      BY <1>1 DEF PutBuf, Except
    <3> QED
      BY <1>1, <2>2, <3>1, <3>2
  <2> QED
    BY <2>1, <2>2
<1> HIDE DEF nb
<1>4. Worn(Buf, nb)
  BY <1>3 DEF Worn
<1>5. ASSUME NEW g, Past(Top, g) PROVE StillAhead(Buf, Top, nb, g)
  <2> SUFFICES ASSUME NEW s \in Slots, nb.entry[s].first # 0, NEW k \in 1..n,
                      Buf.queue[k].head, Buf.queue[k].of.ent[1] = s, Ahead(Top, k)
               PROVE  Ahead(g, k)
    BY <1>2, <1>3 DEF StillAhead
  <2>1. k # Top.pos
    BY <1>1, <1>3
  <2>2. k >= Top.pos
    BY DEF Ahead
  <2>3. CASE g.pos = Top.pos + 1 /\ g.step = "batch"
    <3>0. n \in Nat /\ Top.pos \in Nat
      BY <1>1, <1>2
    <3> HIDE DEF n
    <3>1. k \in Nat
      BY <3>0
    <3>2. k >= Top.pos + 1
      BY <2>1, <2>2, <3>0, <3>1
    <3> QED
      BY <2>3, <3>2 DEF Ahead
  <2>4. CASE g.pos = Top.pos /\ g.step = "write"
    BY <2>1, <2>2, <2>4 DEF Ahead
  <2> QED
    BY <1>5, <2>3, <2>4 DEF Past
<1> QED
  BY <1>3, <1>4, <1>5 DEF nb

\* Where the flush at the top goes next.
LEMMA NextPos ==
  ASSUME Sound(world, stage, flush), flush # <<>>, Top.pos <= Len(Buf.queue),
         NEW nb, Worn(Buf, nb)
  PROVE  /\ Top.pos \in Nat \ {0} /\ Top.pos + 1 \in Nat \ {0}
         /\ Top.pos + 1 <= Len(nb.queue) + 1 /\ Top.pos <= Len(nb.queue) + 1 /\ Top.pos <= Len(nb.queue)
<1>1. Top.pos \in Nat \ {0} /\ Len(nb.queue) = Len(Buf.queue) /\ Len(Buf.queue) \in Nat
  BY TopIs, BufIs DEF Worn
<1> QED
  BY <1>1

LEMMA DiscardCmdIs ==
  ASSUME QueueInv, DiscardCmd
  PROVE  /\ QueueInv'
         /\ Top.pos <= Len(Buf.queue) /\ flush # <<>> /\ Top.step \in {"batch", "exec"}
         /\ PutBuf(stage, stage', Top.stage, Top.buf, Unused(Buf, Cmd))
         /\ Moved(flush, flush', Top.pos + 1, "batch", {})
         /\ world' \in WorldType /\ world'.ent = world.ent /\ world'.belief = world.belief
         /\ world'.held = world.held - (IF Cmd.val = None THEN 0 ELSE Droppable({Cmd.of.comp}))
<1> DEFINE nb == Unused(Buf, Cmd)
           none == {}
<1>1. Sound(world, stage, flush) /\ world \in WorldType /\ DeferOK /\ hooks \in 0..HookBudget
  BY DEF QueueInv, Sound, SoundBut, Typed
<1>2. /\ flush # <<>> /\ Top.step \in {"batch", "exec"} /\ Top.pos <= Len(Buf.queue)
      /\ world' = DropValue(world, Cmd.of.comp, Cmd.val) /\ stage' = Invalidated
      /\ flush' = At(Top.pos + 1, "batch", none) /\ UNCHANGED <<readonly, merging, hooks, want>>
  BY DEF DiscardCmd, Executing
<1>3. /\ PutBuf(stage, stage', Top.stage, Top.buf, nb) /\ Worn(Buf, nb) /\ nb.queue = Buf.queue
      /\ \A g : Past(Top, g) => StillAhead(Buf, Top, nb, g)
  BY <1>1, <1>2, InvalidatedIs
<1>4. Cmd \in Cmds
  BY <1>1, <1>2, TopIs
<1>5. /\ world' \in WorldType /\ world'.ent = world.ent /\ world'.belief = world.belief
      /\ world'.held = world.held - (IF Cmd.val = None THEN 0 ELSE Droppable({Cmd.of.comp}))
  <2>1. Cmd.val # None => Cmd.of.comp \in Comps
    BY <1>4, CmdIs DEF Consistent
  <2> DEFINE c == Cmd.of.comp
             x == Cmd.val
             w == world'
  <2>2. w = DropValue(world, c, x) /\ (x # None => c \in Comps)
    BY <1>2, <2>1
  <2> HIDE DEF c, x, w
  <2>3. Dropped(world, w, c, x)
    BY <1>1, <2>2, DropValueIs
  <2> QED
    BY <2>3 DEF c, x, w, Dropped
<1>6. Aged(world, world')
  <2>1. SameLife(world, world')
    BY <1>1, <1>5, SameEnt
  <2> QED
    BY <1>1, <2>1, SameLifeAged
<1> HIDE DEF nb
<1>7. Top.pos + 1 \in Nat \ {0} /\ Top.pos + 1 <= Len(nb.queue) + 1
  BY <1>1, <1>2, <1>3, NextPos
<1>8. Moved(flush, flush', Top.pos + 1, "batch", none)
  <2>1. none \in SUBSET Comps
    OBVIOUS
  <2> HIDE DEF none
  <2> QED
    BY <1>1, <1>2, <1>7, <2>1, AtIs, TopIs
<1>9. StillAhead(Buf, Top, nb, flush'[Len(flush)])
  BY <1>3, <1>8 DEF Moved, Past
<1>10. Sound(world', stage, flush)
  BY <1>1, <1>6, AgedSound DEF Sound
<1>11. Sound(world', stage', flush')
  <2>1. Top = flush[Len(flush)] /\ Buf = BufOf(stage, Top)
    BY <1>1, <1>2, TopIs
  <2>2. "batch" # "batch" => Top.pos + 1 <= Len(nb.queue)
    OBVIOUS
  <2> HIDE DEF none
  <2> QED
    BY <1>2, <1>3, <1>7, <1>8, <1>9, <1>10, <2>1, <2>2, WornSound
<1>12. \A t \in Stages : stage'[t].defer = stage[t].defer
  BY <1>3 DEF PutBuf, Except
<1>13. DeferOK'
  BY <1>1, <1>2, <1>12, DeferKept
<1>14. QueueInv'
  BY <1>1, <1>2, <1>11, <1>13 DEF QueueInv
<1> QED
  BY <1>2, <1>3, <1>5, <1>8, <1>14 DEF nb

LEMMA ExecuteCmdIs ==
  ASSUME QueueInv, ExecuteCmd
  PROVE  LET e == Cmd.of.ent IN
         /\ QueueInv' /\ Alive(world.ent, e) /\ Cmd.kind \notin HasValue \cup {"Skip"}
         /\ Top.pos <= Len(Buf.queue) /\ flush # <<>> /\ Top.step \in {"batch", "exec"}
         /\ world' = Effect(Cmd)
         /\ \E st1 : Stepped(e, world', Invalidated, Unused(Buf, Cmd), At(Top.pos + 1, "batch", {}), st1)
<1> DEFINE e == Cmd.of.ent
           nb == Unused(Buf, Cmd)
           none == {}
           w == Effect(Cmd)
           st == Invalidated
           events == SymDiff(Has(world.ent, e), Has(w.ent, e))
<1>1. Sound(world, stage, flush) /\ world \in WorldType
  BY DEF QueueInv, Sound, SoundBut, Typed
<1>2. /\ flush # <<>> /\ Top.step \in {"batch", "exec"} /\ Top.pos <= Len(Buf.queue)
      /\ Cmd.kind \notin HasValue \cup {"Skip"} /\ Alive(world.ent, e)
      /\ world' = w /\ Observers(st, At(Top.pos + 1, "batch", none), w, e, events)
      /\ UNCHANGED <<readonly, merging>>
  BY DEF ExecuteCmd, Executing
<1> HIDE DEF events
<1>3. /\ PutBuf(stage, st, Top.stage, Top.buf, nb) /\ Worn(Buf, nb) /\ nb.queue = Buf.queue
      /\ \A g : Past(Top, g) => StillAhead(Buf, Top, nb, g)
  BY <1>1, <1>2, InvalidatedIs
<1>4. Cmd \in Cmds /\ e \in Entities
  BY <1>1, <1>2, TopIs
<1> HIDE DEF w, st, nb, e
<1>5. Aged(world, w) /\ Others(world, w, Cmd.of.ent) /\ (Cmd.kind # "Delete" => SameLife(world, w))
  BY <1>1, <1>2, <1>4, EffectIs DEF w
<1>6. w.ent[e[1]].gen = e[2]
  <2>1. e[1] \in Slots /\ world.ent[e[1]].gen = e[2]
    BY <1>2, <1>4, EntityIs DEF Alive
  <2>2. CASE Cmd.kind # "Delete"
    BY <1>5, <2>1, <2>2 DEF SameLife
  <2>3. CASE Cmd.kind = "Delete"
    <3>1. w = Destroy(world, e)
      BY <2>3 DEF w, e, Effect
    <3>2. \A sl \in Slots : w.ent[sl].gen = world.ent[sl].gen
      BY <1>1, <1>4, <3>1, DestroyIs
    <3> QED
      BY <2>1, <3>2
  <2> QED
    BY <2>2, <2>3
<1>7. Top.pos + 1 \in Nat \ {0} /\ Top.pos + 1 <= Len(nb.queue) + 1
  BY <1>1, <1>2, <1>3, NextPos
<1>8. none \in SUBSET Comps
  OBVIOUS
<1> HIDE DEF none
<1>9. Moved(flush, At(Top.pos + 1, "batch", none), Top.pos + 1, "batch", none)
  BY <1>1, <1>2, <1>7, <1>8, AtIs, TopIs
<1>10. StillAhead(Buf, Top, nb, At(Top.pos + 1, "batch", none)[Len(flush)])
  <2> DEFINE fl == At(Top.pos + 1, "batch", none)
  <2> HIDE DEF fl
  <2>1. Past(Top, fl[Len(flush)])
    BY <1>9 DEF Moved, Past, fl
  <2> QED
    BY <1>3, <2>1 DEF fl
<1>11. QueueInv' /\ \E st1 : Stepped(e, w, st, nb, At(Top.pos + 1, "batch", none), st1)
  <2>1. "batch" # "batch" => Top.pos + 1 <= Len(nb.queue)
    OBVIOUS
  <2> QED
    BY <1>2, <1>3, <1>4, <1>5, <1>6, <1>7, <1>8, <1>10, <2>1, ObserverStep
<1> QED
  BY <1>2, <1>11 DEF e, nb, none, w, st

LEMMA EnsureCmdIs ==
  ASSUME QueueInv, EnsureCmd
  PROVE  LET e == Cmd.of.ent
             c == Cmd.of.comp IN
         /\ QueueInv' /\ Alive(world.ent, e) /\ Cmd.kind \in HasValue /\ c \in Comps
         /\ Top.pos <= Len(Buf.queue) /\ flush # <<>> /\ Top.step \in {"batch", "exec"}
         /\ Committed(world, world', e, Has(world.ent, e) \cup {c})
         /\ \E st1 : Stepped(e, world', Invalidated, Unused(Buf, Cmd), At(Top.pos, "write", {}), st1)
<1> DEFINE e == Cmd.of.ent
           c == Cmd.of.comp
           nb == Unused(Buf, Cmd)
           none == {}
           T == Has(world.ent, e) \cup {c}
           w == Commit(world, e, T)
           st == Invalidated
           events == {c} \ Has(world.ent, e)
<1>1. Sound(world, stage, flush) /\ world \in WorldType
  BY DEF QueueInv, Sound, SoundBut, Typed
<1>2. /\ flush # <<>> /\ Top.step \in {"batch", "exec"} /\ Top.pos <= Len(Buf.queue)
      /\ Cmd.kind \in HasValue /\ Alive(world.ent, e)
      /\ world' = w /\ Observers(st, At(Top.pos, "write", none), w, e, events)
      /\ UNCHANGED <<readonly, merging>>
  BY DEF EnsureCmd, Executing
<1> HIDE DEF events
<1>3. /\ PutBuf(stage, st, Top.stage, Top.buf, nb) /\ Worn(Buf, nb) /\ nb.queue = Buf.queue
      /\ \A g : Past(Top, g) => StillAhead(Buf, Top, nb, g)
  BY <1>1, <1>2, InvalidatedIs
<1>4. Cmd \in Cmds /\ e \in Entities
  BY <1>1, <1>2, TopIs
<1>5. c \in Comps
  BY <1>2, <1>4, CmdIs DEF Consistent, HasValue
<1>6. T \in SUBSET Comps
  BY <1>5, HasIs
<1> HIDE DEF T, st, nb, e, c
<1>7. Committed(world, w, e, T)
  BY <1>1, <1>4, <1>6, CommitIs
<1> HIDE DEF w
<1>8. Aged(world, w) /\ w.ent[e[1]].gen = e[2]
  <2>1. SameLife(world, w) /\ e[1] \in Slots /\ world.ent[e[1]].gen = e[2]
    BY <1>2, <1>4, <1>7, EntityIs DEF Alive, Committed
  <2> QED
    BY <1>1, <2>1, SameLifeAged DEF SameLife
<1>9. Top.pos \in Nat \ {0} /\ Top.pos <= Len(nb.queue) + 1 /\ Top.pos <= Len(nb.queue)
  BY <1>1, <1>2, <1>3, NextPos
<1>10. none \in SUBSET Comps
  OBVIOUS
<1> HIDE DEF none
<1>11. Moved(flush, At(Top.pos, "write", none), Top.pos, "write", none)
  BY <1>1, <1>2, <1>9, <1>10, AtIs, TopIs
<1>12. StillAhead(Buf, Top, nb, At(Top.pos, "write", none)[Len(flush)])
  <2> DEFINE fl == At(Top.pos, "write", none)
  <2> HIDE DEF fl
  <2>1. Past(Top, fl[Len(flush)])
    BY <1>11 DEF Moved, Past, fl
  <2> QED
    BY <1>3, <2>1 DEF fl
<1>13. QueueInv' /\ \E st1 : Stepped(e, w, st, nb, At(Top.pos, "write", none), st1)
  BY <1>2, <1>3, <1>4, <1>8, <1>9, <1>10, <1>12, ObserverStep
<1> QED
  BY <1>2, <1>5, <1>7, <1>13 DEF e, nb, none, w, st, c, T

\* What WriteCmd does to the storage: the value is moved in, given up, or moved
\* in after the component was added once more.
Wrote(w, v, e, c, cmd) ==
  \/ c \in Has(w.ent, e) /\ Overwritten(w, v, e, c, TRUE)
  \/ c \notin Has(w.ent, e) /\ cmd.kind # "Emplace" /\ v = w
  \/ /\ c \notin Has(w.ent, e) /\ cmd.kind = "Emplace"
     /\ \E m \in WorldType, dropped \in BOOLEAN :
          Committed(w, m, e, Has(w.ent, e) \cup {c}) /\ Overwritten(m, v, e, c, dropped)

LEMMA WroteIs ==
  ASSUME NEW w \in WorldType, NEW v, NEW e \in Entities, NEW c \in Comps, NEW cmd,
         Wrote(w, v, e, c, cmd)
  PROVE  SameLife(w, v) /\ Others(w, v, e)
<1>1. CASE Overwritten(w, v, e, c, TRUE)
  BY <1>1 DEF Overwritten
<1>2. CASE v = w
  BY <1>2, SameEnt
<1>3. CASE \E m \in WorldType, dropped \in BOOLEAN :
             Committed(w, m, e, Has(w.ent, e) \cup {c}) /\ Overwritten(m, v, e, c, dropped)
  <2>1. PICK m \in WorldType, dropped \in BOOLEAN :
          Committed(w, m, e, Has(w.ent, e) \cup {c}) /\ Overwritten(m, v, e, c, dropped)
    BY <1>3
  <2>2. SameLife(w, m) /\ Others(w, m, e) /\ SameLife(m, v) /\ Others(m, v, e)
    BY <2>1 DEF Committed, Overwritten
  <2> QED
    BY <2>2 DEF SameLife, Others
<1> QED
  BY <1>1, <1>2, <1>3 DEF Wrote

\* The command a flush is at, and what a frame says of it.
CmdAt(st, f) == BufOf(st, f).queue[f.pos]
WriteOK(st, fl) == \A i \in DOMAIN fl : fl[i].step = "write" => CmdAt(st, fl[i]).kind \in HasValue

LEMMA WriteCmdIs ==
  ASSUME QueueInv, WriteOK(stage, flush), WriteCmd
  PROVE  /\ QueueInv'
         /\ flush # <<>> /\ Top.step = "write" /\ Top.pos <= Len(Buf.queue)
         /\ Alive(world.ent, Cmd.of.ent) /\ Cmd.kind \in HasValue /\ Cmd.of.comp \in Comps
         /\ Wrote(world, world', Cmd.of.ent, Cmd.of.comp, Cmd)
         /\ stage' = stage /\ Moved(flush, flush', Top.pos + 1, "batch", {})
<1> DEFINE e == Cmd.of.ent
           c == Cmd.of.comp
           x == Cmd.val
           none == {}
<1>1. Sound(world, stage, flush) /\ world \in WorldType /\ DeferOK /\ hooks \in 0..HookBudget
  BY DEF QueueInv, Sound, SoundBut, Typed
<1>2. /\ flush # <<>> /\ Top.step = "write" /\ Alive(world.ent, e)
      /\ flush' = At(Top.pos + 1, "batch", none)
      /\ UNCHANGED <<stage, readonly, merging, hooks, want>>
  BY DEF WriteCmd
<1>3. /\ Top.pos <= Len(Buf.queue) /\ Cmd \in Cmds /\ e \in Entities /\ Buf \in BufType
      /\ Top = flush[Len(flush)] /\ Len(flush) \in DOMAIN flush /\ flush \in Seq(FrameType)
      /\ Top.stage \in Stages /\ Top.buf \in 0..1 /\ Buf = BufOf(stage, Top)
      /\ Buf = stage[Top.stage].buf[Top.buf] /\ Top.pos \in Nat \ {0} /\ Cmd = Buf.queue[Top.pos]
  <2>1. Top.pos <= Len(Buf.queue)
    BY <1>1, <1>2, TopIs
  <2> QED
    BY <1>1, <1>2, <2>1, TopIs
<1>4. Cmd.kind \in HasValue /\ c \in Comps /\ x \in Values
  <2>1. Cmd.kind \in HasValue
    BY <1>2, <1>3 DEF WriteOK, CmdAt
  <2> QED
    BY <1>3, <2>1, CmdIs DEF Consistent, HasValue
<1> HIDE DEF e, c, x, none
<1>5. Wrote(world, world', e, c, Cmd)
  <2>1. CASE c \in Has(world.ent, e) /\ world' = Overwrite(world, e, c, x, TRUE)
    BY <1>1, <1>3, <1>4, <2>1, OverwriteIs DEF Wrote
  <2>2. CASE c \notin Has(world.ent, e) /\ Cmd.kind # "Emplace" /\ UNCHANGED world
    BY <2>2 DEF Wrote
  <2>3. CASE /\ c \notin Has(world.ent, e) /\ Cmd.kind = "Emplace"
             /\ \E dropped \in BOOLEAN :
                  world' = Overwrite(Commit(world, e, Has(world.ent, e) \cup {c}), e, c, x, dropped)
    <3> DEFINE T == Has(world.ent, e) \cup {c}
               m == Commit(world, e, T)
    <3>1. PICK dropped \in BOOLEAN : world' = Overwrite(m, e, c, x, dropped)
      BY <2>3
    <3>2. T \in SUBSET Comps
      BY <1>4, HasIs
    <3> HIDE DEF T, m
    <3>3. Committed(world, m, e, T)
      BY <1>1, <1>3, <3>2, CommitIs DEF m, e
    <3>4. m \in WorldType
      BY <3>3 DEF Committed, SameLife
    <3>5. Overwritten(m, world', e, c, dropped)
      BY <1>3, <1>4, <3>1, <3>4, OverwriteIs DEF e
    <3> QED
      BY <2>3, <3>3, <3>4, <3>5 DEF Wrote, T
  <2> QED
    BY <2>1, <2>2, <2>3 DEF WriteCmd, e, c, x
<1>6. SameLife(world, world')
  <2>1. e \in Entities
    BY <1>3 DEF e
  <2> QED
    BY <1>1, <1>4, <1>5, <2>1, WroteIs
<1>7. Sound(world', stage, flush)
  <2>1. Aged(world, world')
    BY <1>1, <1>6, SameLifeAged
  <2> QED
    BY <1>1, <2>1, AgedSound DEF Sound
<1>8. PutBuf(stage, stage', Top.stage, Top.buf, Buf) /\ Worn(Buf, Buf)
  <2>1. stage \in [Stages -> StageType]
    BY <1>1 DEF Sound, SoundBut, Typed
  <2> QED
    BY <1>2, <1>3, <2>1 DEF PutBuf, Except, Worn
<1>9. Top.pos + 1 \in Nat \ {0} /\ Top.pos + 1 <= Len(Buf.queue) + 1
  BY <1>1, <1>2, <1>3, <1>8, NextPos
<1>10. Moved(flush, flush', Top.pos + 1, "batch", none)
  <2>1. none \in SUBSET Comps
    BY DEF none
  <2> QED
    BY <1>2, <1>3, <1>9, <2>1, AtIs
<1>11. StillAhead(Buf, Top, Buf, flush'[Len(flush)])
  <2> DEFINE g == flush'[Len(flush)]
  <2>1. g.pos = Top.pos + 1 /\ g.step = "batch"
    BY <1>10 DEF Moved
  <2> HIDE DEF g
  <2>2. ASSUME NEW k \in DOMAIN Buf.queue, Ahead(Top, k) PROVE Ahead(g, k)
    <3>0. DOMAIN Buf.queue = 1..Len(Buf.queue) /\ Len(Buf.queue) \in Nat
      BY <1>3, BufIs
    <3>1. k \in Nat /\ Top.pos \in Nat /\ k >= Top.pos /\ k # Top.pos
      <4>1. k \in Nat /\ Top.pos \in Nat
        BY <1>3, <3>0
      <4>2. k >= Top.pos /\ k # Top.pos
        BY <1>2, <2>2 DEF Ahead
      <4> QED
        BY <4>1, <4>2
    <3>2. k >= Top.pos + 1
      BY <3>1
    <3> QED
      BY <2>1, <3>2 DEF Ahead
  <2>3. StillAhead(Buf, Top, Buf, g)
    BY <2>2 DEF StillAhead
  <2> QED
    BY <2>3 DEF g
<1>12. Sound(world', stage', flush')
  <2>1. "batch" # "batch" => Top.pos + 1 <= Len(Buf.queue)
    OBVIOUS
  <2> QED
    BY <1>2, <1>3, <1>7, <1>8, <1>9, <1>10, <1>11, <2>1, WornSound
<1>13. DeferOK'
  <2>1. \A t \in Stages : stage'[t].defer = stage[t].defer
    BY <1>2
  <2> QED
    BY <1>1, <1>2, <2>1, DeferKept
<1>14. QueueInv'
  BY <1>1, <1>2, <1>12, <1>13 DEF QueueInv
<1> QED
  BY <1>2, <1>3, <1>4, <1>5, <1>10, <1>14 DEF e, c, none

\* A buffer without commands and without entries in use.
Emptied(buf, nb) == nb \in BufType /\ nb.queue = <<>> /\ nb.entry = buf.entry

\* The flush at the top is over.
Over(fl, fl1) == fl1 \in Seq(FrameType) /\ Len(fl1) = Len(fl) - 1 /\ \A i \in 1..Len(fl) - 1 : fl1[i] = fl[i]

\* The last flush f has no command left, and nothing of it is kept.
SpentFlush(st, fl, f, v, nb) ==
  /\ fl # <<>> /\ f = fl[Len(fl)] /\ f.pos > Len(BufOf(st, f).queue)
  /\ PutBuf(st, v, f.stage, f.buf, nb) /\ Emptied(BufOf(st, f), nb)

LEMMA OverSound ==
  ASSUME NEW w, NEW st, NEW fl, Sound(w, st, fl),
         NEW f, NEW v, NEW nb, SpentFlush(st, fl, f, v, nb),
         NEW fl1, Over(fl, fl1)
  PROVE  Released(w, v, fl1, f.stage)
<1>0. /\ fl # <<>> /\ f = fl[Len(fl)] /\ f.pos > Len(BufOf(st, f).queue)
      /\ PutBuf(st, v, f.stage, f.buf, nb) /\ Emptied(BufOf(st, f), nb)
  BY DEF SpentFlush
<1> DEFINE s == f.stage
           n == Len(fl)
<1>1. /\ Typed(w, st, fl) /\ FramesOK(st, fl) /\ BuffersOK(st, fl, {}) /\ EntriesOK(st, fl)
      /\ LinksOK(w, st, fl)
  BY DEF Sound, SoundBut
<1>2. st \in [Stages -> StageType] /\ fl \in Seq(FrameType) /\ w \in WorldType
  BY <1>1 DEF Typed
<1>3. n \in Nat /\ n # 0 /\ n <= 2 /\ DOMAIN fl = 1..n /\ n \in DOMAIN fl
  BY <1>0, <1>1, <1>2, FramesAre DEF FramesOK
<1>4. /\ f \in FrameType /\ s \in Stages /\ f.buf \in 0..1 /\ f.pos \in Nat \ {0}
      /\ f.buf = 1 - st[s].cmd /\ st[s].cmd \in 0..1
  <2>1. f \in FrameType /\ s \in Stages /\ f.buf \in 0..1 /\ f.pos \in Nat \ {0}
    BY <1>0, <1>2, <1>3, FramesAre
  <2>2. f.buf = 1 - st[s].cmd
    BY <1>0, <1>1, <1>3 DEF FramesOK
  <2> QED
    BY <1>2, <2>1, <2>2, StageIs
<1>5. /\ fl1 \in Seq(FrameType) /\ Len(fl1) = n - 1 /\ DOMAIN fl1 = 1..n - 1
      /\ \A i \in DOMAIN fl1 : i \in DOMAIN fl /\ fl1[i] = fl[i] /\ i # n
      /\ \A i \in DOMAIN fl : i = n \/ i \in DOMAIN fl1
  <2>1. fl1 \in Seq(FrameType) /\ Len(fl1) = n - 1 /\ \A i \in 1..n - 1 : fl1[i] = fl[i]
    BY DEF Over
  <2>2. DOMAIN fl1 = 1..n - 1
    BY <2>1, FramesAre
  <2> HIDE DEF n
  <2>3. \A i \in 1..n - 1 : i \in 1..n /\ i # n
    BY <1>3
  <2>4. \A i \in 1..n : i = n \/ i \in 1..n - 1
    BY <1>3
  <2> QED
    BY <1>3, <2>1, <2>2, <2>3, <2>4
<1>6. \A i \in DOMAIN fl1 : fl1[i].stage # s /\ fl1[i].stage \in Stages
  <2> SUFFICES ASSUME NEW i \in DOMAIN fl1 PROVE fl1[i].stage # s /\ fl1[i].stage \in Stages
    OBVIOUS
  <2>1. fl1[i].stage \in Stages
    BY <1>5, FramesAre
  <2>2. n = 2 /\ i = 1
    BY <1>3, <1>5
  <2>3. fl[1].stage # Main /\ fl[2].stage = Main
    BY <1>1, <2>2 DEF FramesOK
  <2>4. f = fl[2] /\ fl1[i] = fl[1]
    BY <1>0, <1>5, <2>2
  <2> QED
    BY <2>1, <2>3, <2>4
<1>7. ~ InFlush(fl1, s)
  BY <1>6 DEF InFlush
<1>8. fl1 = <<>> \/ (Len(fl1) = 1 /\ s = Main)
  <2>1. CASE n = 1
    BY <1>5, <2>1, FramesAre
  <2>2. CASE n = 2
    BY <1>0, <1>1, <1>5, <2>2 DEF FramesOK
  <2> QED
    BY <1>3, <2>1, <2>2
<1>9. /\ v \in [Stages -> StageType] /\ v[s].cmd = st[s].cmd /\ v[s].defer = st[s].defer
      /\ v[s].buf[f.buf] = nb /\ v[s].buf[1 - f.buf] = st[s].buf[1 - f.buf]
      /\ \A t \in Stages \ {s} : v[t] = st[t]
      /\ \A t \in Stages : v[t].cmd = st[t].cmd /\ v[t].defer = st[t].defer
  BY <1>0 DEF PutBuf, Except
<1>10. \A b \in 0..1 : b = f.buf \/ b = 1 - f.buf
  BY <1>4
<1>11. \A t \in Stages, b \in 0..1 : (t = s /\ b = f.buf) \/ v[t].buf[b] = st[t].buf[b]
  BY <1>9, <1>10
<1>12. \A t \in Stages, b \in 0..1 : Flushed(fl, t, b) <=> Flushed(fl1, t, b) \/ (t = s /\ b = f.buf)
  BY <1>0, <1>3, <1>5 DEF Flushed
<1>13. \A b \in 0..1 : ~ Flushed(fl1, s, b)
  BY <1>6 DEF Flushed
<1> HIDE DEF n
<1>14. Typed(w, v, fl1)
  BY <1>2, <1>5, <1>9 DEF Typed
<1>15. FramesOK(v, fl1)
  <2>1. \A i \in DOMAIN fl1 : v[fl1[i].stage] = st[fl1[i].stage]
    BY <1>6, <1>9
  <2>2. ASSUME NEW i \in DOMAIN fl1
        PROVE  LET g == fl1[i] IN
               /\ g.buf = 1 - v[g.stage].cmd
               /\ g.pos <= Len(BufOf(v, g).queue) + 1
               /\ g.step # "batch" => g.pos <= Len(BufOf(v, g).queue)
    BY <1>1, <1>5, <2>1 DEF FramesOK, BufOf
  <2>3. Len(fl1) <= 2 /\ Len(fl1) # 2
    BY <1>3, <1>5
  <2> QED
    BY <2>2, <2>3 DEF FramesOK
<1>16. BuffersOK(v, fl1, {s})
  <2> SUFFICES ASSUME NEW t \in Stages, NEW b \in 0..1, v[t].buf[b].queue # <<>>
               PROVE  Filled(v, fl1, t, b) \/ (t \in {s} /\ b = v[t].cmd)
    BY DEF BuffersOK
  <2>1. CASE t = s /\ b = f.buf
    BY <1>0, <1>9, <2>1 DEF Emptied
  <2>2. CASE t = s /\ b = 1 - f.buf
    <3>1. b = st[s].cmd
      BY <1>4, <2>2
    <3> QED
      BY <1>9, <2>2, <3>1
  <2>3. CASE t # s
    <3>1. Filled(st, fl, t, b)
      BY <1>1, <1>9, <2>3 DEF BuffersOK
    <3>2. t = Main /\ InFlush(fl, Main) => InFlush(fl1, Main)
      <4> SUFFICES ASSUME t = Main, InFlush(fl, Main) PROVE InFlush(fl1, Main)
        OBVIOUS
      <4>1. PICK i \in DOMAIN fl : fl[i].stage = Main
        BY DEF InFlush
      <4>2. i # n
        BY <1>0, <2>3, <4>1 DEF n
      <4>3. i \in DOMAIN fl1 /\ fl1[i].stage = Main
        BY <1>5, <4>1, <4>2
      <4> QED
        BY <4>3 DEF InFlush
    <3> QED
      BY <1>9, <1>12, <2>3, <3>1, <3>2 DEF Filled
  <2> QED
    BY <1>10, <2>1, <2>2, <2>3
<1>17. EntriesOK(v, fl1)
  <2> SUFFICES ASSUME NEW t \in Stages, NEW b \in 0..1, NEW sl \in Slots, v[t].buf[b].entry[sl].first # 0
               PROVE  HeadAhead(v[t].buf[b].queue, fl1, t, b, sl)
    BY DEF EntriesOK
  <2>1. CASE t = s /\ b = f.buf
    <3> DEFINE q == BufOf(st, f).queue
    <3>1. st[t].buf[b].entry[sl].first # 0 /\ st[t].buf[b].queue = q
      BY <1>0, <1>9, <2>1 DEF Emptied, BufOf
    <3>2. HeadAhead(q, fl, t, b, sl)
      BY <1>1, <3>1 DEF EntriesOK
    <3>3. PICK k \in DOMAIN q : \A i \in DOMAIN fl : fl[i].stage = t /\ fl[i].buf = b => Ahead(fl[i], k)
      BY <3>2 DEF HeadAhead
    <3>4. Ahead(f, k)
      BY <1>0, <1>3, <2>1, <3>3 DEF n
    <3>5. BufOf(st, f) \in BufType
      BY <1>2, <1>4, StageIs DEF BufOf
    <3>6. k \in 1..Len(q) /\ Len(q) \in Nat /\ f.pos \in Nat /\ f.pos > Len(q) /\ k >= f.pos
      BY <1>0, <1>4, <3>4, <3>5, BufIs DEF Ahead
    <3> HIDE DEF q
    <3>7. FALSE
      BY <3>6
    <3> QED
      BY <3>7
  <2>2. CASE ~ (t = s /\ b = f.buf)
    <3> DEFINE q == v[t].buf[b].queue
    <3>1. v[t].buf[b] = st[t].buf[b]
      BY <1>11, <2>2
    <3>2. HeadAhead(q, fl, t, b, sl)
      BY <1>1, <3>1 DEF EntriesOK
    <3> HIDE DEF q
    <3>3. HeadAhead(q, fl1, t, b, sl)
      BY <1>5, <3>2 DEF HeadAhead
    <3> QED
      BY <3>3 DEF q
  <2> QED
    BY <2>1, <2>2
<1>18. LinksOK(w, v, fl1)
  <2> SUFFICES ASSUME NEW t \in Stages, NEW b \in 0..1
               PROVE  Ordered(v[t].buf[b].queue) /\ (~ Flushed(fl1, t, b) => Chained(w.ent, v[t].buf[b]))
    BY DEF LinksOK
  <2>1. CASE t = s /\ b = f.buf
    <3>1. v[t].buf[b].queue = <<>>
      BY <1>0, <1>9, <2>1 DEF Emptied
    <3>2. DOMAIN v[t].buf[b].queue = {} /\ Links(v[t].buf[b].queue) = {}
      BY <3>1, Empty DEF Links
    <3> QED
      BY <3>2 DEF Ordered, Chained
  <2>2. CASE ~ (t = s /\ b = f.buf)
    BY <1>1, <1>11, <1>12, <2>2 DEF LinksOK
  <2> QED
    BY <2>1, <2>2
<1> QED
  BY <1>7, <1>8, <1>14, <1>15, <1>16, <1>17, <1>18 DEF SoundBut, Released

LEMMA FrontIs ==
  ASSUME NEW fl \in Seq(FrameType), fl # <<>>
  PROVE  Over(fl, Front(fl))
<1> DEFINE n == Len(fl)
           g == Front(fl)
<1>1. n \in Nat /\ n # 0 /\ DOMAIN fl = 1..n /\ \A i \in 1..n : fl[i] \in FrameType
  BY FramesAre
<1>2. g = [i \in 1..n - 1 |-> fl[i]]
  BY DEF Front
<1> HIDE DEF n, g
<1>3. n - 1 \in Nat /\ \A i \in 1..n - 1 : fl[i] \in FrameType
  BY <1>1
<1>4. g \in [1..n - 1 -> FrameType] /\ DOMAIN g = 1..n - 1
  BY <1>2, <1>3
<1>5. g \in Seq(FrameType) /\ Len(g) = n - 1
  <2> DEFINE m == n - 1
  <2>1. m \in Nat /\ g \in [1..m -> FrameType]
    BY <1>3, <1>4
  <2> HIDE DEF m
  <2>2. g \in Seq(FrameType)
    BY <2>1, SeqDef
  <2>3. Len(g) = m
    BY <2>1, <2>2, LenProperties
  <2> QED
    BY <2>2, <2>3 DEF m
<1> QED
  BY <1>2, <1>5 DEF Over, n, g

LEMMA FinishBufferIs ==
  ASSUME QueueInv, FinishBuffer
  PROVE  /\ QueueInv' /\ flush # <<>> /\ Top.pos > Len(Buf.queue) /\ world' = world
         /\ \E st, nb, fl1 : /\ PutBuf(stage, st, Top.stage, Top.buf, nb) /\ Emptied(Buf, nb)
                             /\ Over(flush, fl1) /\ SwapTo(st, fl1, Top.stage, stage', flush')
<1> DEFINE nb == [Buf EXCEPT !.queue = <<>>]
           st == [stage EXCEPT ![Top.stage].buf[Top.buf].queue = <<>>]
           fl1 == Front(flush)
<1>1. Sound(world, stage, flush) /\ DeferOK /\ hooks \in 0..HookBudget
  BY DEF QueueInv
<1>2. /\ flush # <<>> /\ Top.pos > Len(Buf.queue)
      /\ BecomesNext(Swapped(st, fl1, world, Top.stage)) /\ UNCHANGED <<world, readonly, merging, hooks>>
  BY DEF FinishBuffer
<1>3. /\ Top = flush[Len(flush)] /\ flush \in Seq(FrameType) /\ Top.stage \in Stages /\ Top.buf \in 0..1
      /\ Buf = BufOf(stage, Top) /\ Buf \in BufType /\ Buf = stage[Top.stage].buf[Top.buf]
      /\ stage \in [Stages -> StageType]
  BY <1>1, <1>2, TopIs DEF Sound, SoundBut, Typed
<1>4. Emptied(Buf, nb)
  <2>1. Buf \in [queue : {Buf.queue}, entry : {Buf.entry}] /\ Buf.entry \in [Slots -> Entry]
    BY <1>3, BufIs
  <2>2. nb.queue = <<>> /\ nb.entry = Buf.entry /\ nb \in [queue : {nb.queue}, entry : {nb.entry}]
    BY <2>1
  <2>3. nb.queue \in Seq(Cmds)
    BY <2>2, Empty
  <2> HIDE DEF nb
  <2> QED
    BY <2>1, <2>2, <2>3 DEF BufType, Emptied
<1>5. PutBuf(stage, st, Top.stage, Top.buf, nb)
  <2>1. st = [stage EXCEPT ![Top.stage].buf[Top.buf] = nb]
    BY <1>3
  <2> HIDE DEF nb, st
  <2> QED
    BY <1>3, <1>4, <2>1, PutBufIs DEF Emptied
<1> HIDE DEF nb, st
<1>6. Over(flush, fl1)
  BY <1>2, <1>3, FrontIs
<1> HIDE DEF fl1
<1>7. SwapTo(st, fl1, Top.stage, stage', flush')
  <2> DEFINE r == Swapped(st, fl1, world, Top.stage)
  <2>1. st \in [Stages -> StageType] /\ fl1 \in Seq(FrameType)
    BY <1>5, <1>6 DEF PutBuf, Except, Over
  <2>2. stage' = r.stage /\ flush' = r.flush
    BY <1>2 DEF BecomesNext
  <2>3. SwapTo(st, fl1, Top.stage, r.stage, r.flush)
    BY <1>3, <2>1, SwappedIs
  <2> HIDE DEF r
  <2> QED
    BY <2>2, <2>3
<1>8. Released(world, st, fl1, Top.stage)
  <2>1. SpentFlush(stage, flush, Top, st, nb)
    BY <1>2, <1>3, <1>4, <1>5 DEF SpentFlush
  <2> QED
    BY ONLY <1>1, <1>6, <2>1, OverSound
<1>9. Sound(world, stage', flush')
  BY <1>3, <1>7, <1>8, SwapSound
<1>10. \A t \in Stages : stage'[t].defer = stage[t].defer
  <2>1. \A t \in Stages : st[t].defer = stage[t].defer
    BY <1>5 DEF PutBuf, Except
  <2>2. \A t \in Stages : stage'[t].defer = st[t].defer
    BY <1>7 DEF SwapTo, Flip, Except
  <2> QED
    BY <2>1, <2>2
<1>11. DeferOK'
  BY <1>1, <1>2, <1>10, DeferKept
<1>12. QueueInv'
  BY <1>1, <1>2, <1>9, <1>11 DEF QueueInv
<1> QED
  BY <1>2, <1>4, <1>5, <1>6, <1>7, <1>12

-----------------------------------------------------------------------------
(* The application and the queues.                                         *)

\* Stages that differ only in how deep they are deferred.
Nested(st, v) ==
  v \in [Stages -> StageType] /\ \A t \in Stages : v[t].cmd = st[t].cmd /\ v[t].buf = st[t].buf

LEMMA DeferSound ==
  ASSUME NEW w, NEW st, NEW fl, Sound(w, st, fl), NEW v, Nested(st, v), NEW X,
         \A t \in Stages : v[t].defer # 0 \/ v[t].defer = st[t].defer \/ t \in X
  PROVE  SoundBut(w, v, fl, X)
<1>1. /\ Typed(w, st, fl) /\ FramesOK(st, fl) /\ BuffersOK(st, fl, {}) /\ EntriesOK(st, fl)
      /\ LinksOK(w, st, fl)
  BY DEF Sound, SoundBut
<1>2. v \in [Stages -> StageType] /\ \A t \in Stages : v[t].cmd = st[t].cmd /\ v[t].buf = st[t].buf
  BY DEF Nested
<1>3. Typed(w, v, fl)
  BY <1>1, <1>2 DEF Typed
<1>4. FramesOK(v, fl)
  <2>1. \A i \in DOMAIN fl : fl[i].stage \in Stages
    BY <1>1, FramesAre DEF Typed
  <2>2. \A i \in DOMAIN fl : /\ v[fl[i].stage].cmd = st[fl[i].stage].cmd
                             /\ BufOf(v, fl[i]) = BufOf(st, fl[i])
    BY <1>2, <2>1 DEF BufOf
  <2> QED
    BY <1>1, <2>2 DEF FramesOK
<1>5. BuffersOK(v, fl, X)
  BY <1>1, <1>2 DEF BuffersOK, Filled
<1>6. EntriesOK(v, fl)
  BY <1>1, <1>2 DEF EntriesOK
<1>7. LinksOK(w, v, fl)
  BY <1>1, <1>2 DEF LinksOK
<1> QED
  BY <1>3, <1>4, <1>5, <1>6, <1>7 DEF SoundBut

LEMMA DeferOKSame ==
  ASSUME DeferOK, \A t \in Stages : stage'[t].defer = stage[t].defer,
         UNCHANGED <<flush, readonly, merging>>
  PROVE  DeferOK'
<1>1. Main \in Stages
  BY Consts
<1>2. readonly' = readonly /\ merging' = merging /\ flush' = flush /\ (Idle' <=> Idle)
  BY DEF Idle
<1>3. /\ readonly => Idle /\ \A s \in Stages : stage'[s].defer = 1
      /\ ~ readonly => \A s \in Stages \ {Main} :
                         stage'[s].defer = IF s \in ToSet(merging) THEN 1 ELSE 0
      /\ ~ Idle => stage'[Main].defer = IF Main \in ToSet(merging) THEN 1 ELSE 0
  BY <1>1 DEF DeferOK
<1>4. /\ readonly \in BOOLEAN /\ merging \in Seq(Stages) /\ IsInjective(merging)
      /\ \A i \in DOMAIN merging : i # 1 => merging[i] # Main
      /\ flush # <<>> => Main \notin ToSet(merging)
  BY DEF DeferOK
<1> QED
  BY <1>2, <1>3, <1>4 DEF DeferOK

\* A step that leaves the queues alone.
LEMMA AgedStep ==
  ASSUME QueueInv, Aged(world, world'), UNCHANGED <<stage, flush, readonly, merging, hooks>>
  PROVE  QueueInv'
<1>1. Sound(world, stage, flush) /\ DeferOK /\ hooks \in 0..HookBudget
  BY DEF QueueInv
<1>2. Sound(world', stage', flush')
  BY <1>1, AgedSound DEF Sound
<1>3. DeferOK'
  BY <1>1, DeferOKSame
<1> QED
  BY <1>1, <1>2, <1>3 DEF QueueInv

\* A new entity is one of the slots that were free, without components.
Born(w, v, s) ==
  /\ v \in WorldType /\ v.belief = w.belief /\ v.held = w.held
  /\ v.ent[s].alive /\ v.ent[s].gen = w.ent[s].gen + 1
  /\ \A sl \in Slots : v.ent[sl].val = w.ent[sl].val
  /\ \A sl \in Slots \ {s} : v.ent[sl] = w.ent[sl]

LEMMA NewIs ==
  ASSUME QueueInv, NEW s \in Slots, New(s)
  PROVE  QueueInv' /\ ~ world.ent[s].alive /\ Born(world, world', s)
<1> DEFINE n == world.ent[s].gen + 1
           x == [world.ent[s] EXCEPT !.alive = TRUE, !.gen = n]
           ent == [world.ent EXCEPT ![s] = x]
<1>1. /\ world \in WorldType
      /\ ~ world.ent[s].alive /\ world.ent[s].gen < MaxGen
      /\ world' = [world EXCEPT !.ent = ent]
      /\ UNCHANGED <<stage, flush, readonly, merging, hooks, want>>
  <2>1. /\ ~ world.ent[s].alive /\ world.ent[s].gen < MaxGen
        /\ world' = [world EXCEPT !.ent[s].alive = TRUE, !.ent[s].gen = @ + 1]
        /\ UNCHANGED <<stage, flush, readonly, merging, hooks, want>>
    BY DEF New
  <2>2. world \in WorldType
    BY DEF QueueInv, Sound, SoundBut, Typed
  <2>3. world' = [world EXCEPT !.ent = ent]
    BY ONLY <2>1
  <2> QED
    BY ONLY <2>1, <2>2, <2>3
<1>2. /\ world \in [ent : {world.ent}, belief : {world.belief}, held : {world.held}]
      /\ world.ent \in [Slots -> EntType] /\ world.belief \in [Slots -> SUBSET Comps]
      /\ world.held \in Int /\ world.ent[s].gen \in Nat /\ world.ent[s] \in EntType
      /\ \A sl \in Slots : world.ent[sl].gen \in Nat
  BY <1>1, WorldIs
<1>3. n \in 0..MaxGen /\ n >= world.ent[s].gen
  <2>1. MaxGen \in Nat
    BY Consts
  <2> QED
    BY <1>1, <1>2, <2>1
<1> HIDE DEF n
<1>4. x \in EntType /\ x.alive /\ x.gen = n /\ x.val = world.ent[s].val
  BY <1>2, <1>3 DEF EntType
<1> HIDE DEF x
<1>5. ent \in [Slots -> EntType] /\ ent[s] = x /\ \A sl \in Slots \ {s} : ent[sl] = world.ent[sl]
  BY <1>2, <1>4
<1> HIDE DEF ent
<1>6. world' \in WorldType /\ world'.ent = ent /\ world'.belief = world.belief /\ world'.held = world.held
  BY <1>1, <1>2, <1>5 DEF WorldType
<1>7. Born(world, world', s)
  BY <1>4, <1>5, <1>6 DEF Born, n
<1>8. Aged(world, world')
  <2>1. \A sl \in Slots : ent[sl].gen >= world.ent[sl].gen
    <3> SUFFICES ASSUME NEW sl \in Slots PROVE ent[sl].gen >= world.ent[sl].gen
      OBVIOUS
    <3>1. CASE sl = s
      BY <1>3, <1>4, <1>5, <3>1
    <3>2. CASE sl # s
      BY <1>2, <1>5, <3>2
    <3> QED
      BY <3>1, <3>2
  <2> QED
    BY <1>6, <2>1 DEF Aged
<1> QED
  BY <1>1, <1>7, <1>8, AgedStep

LEMMA DeferIs ==
  ASSUME QueueInv, NEW s \in Stages, NEW o \in Operations(Ops), Defer(s, o)
  PROVE  /\ QueueInv' /\ Idle /\ Alive(world.ent, o.ent) /\ world' = WrittenThrough(world, o)
         /\ RecordedAs(stage, stage', world.ent, s, o) /\ UNCHANGED <<flush, merging>>
<1>1. Sound(world, stage, flush) /\ DeferOK /\ hooks \in 0..HookBudget /\ world \in WorldType
      /\ stage \in [Stages -> StageType]
  BY DEF QueueInv, Sound, SoundBut, Typed
<1>2. /\ Idle /\ stage[s].defer > 0 /\ Alive(world.ent, o.ent)
      /\ stage' = Recorded(stage, world.ent, s, o) /\ world' = WrittenThrough(world, o)
      /\ UNCHANGED <<flush, readonly, merging, hooks, want>>
  BY DEF Defer
<1>3. o \in AllOps
  BY OperationSub DEF AllOps
<1>4. stage[s].defer # 0
  BY <1>1, <1>2, StageIs
<1>5. world.ent[o.ent[1]].gen = o.ent[2]
  BY <1>2 DEF Alive
<1>6. /\ SoundBut(world, Recorded(stage, world.ent, s, o), flush, {})
      /\ RecordedAs(stage, Recorded(stage, world.ent, s, o), world.ent, s, o)
  BY <1>1, <1>3, <1>4, <1>5, RecordSound DEF Sound
<1>7. Aged(world, world')
  BY <1>1, <1>2, WrittenThroughIs, SameLifeAged
<1>8. Sound(world', stage', flush')
  BY <1>2, <1>6, <1>7, AgedSound DEF Sound
<1>9. \A t \in Stages : stage'[t].defer = stage[t].defer
  BY <1>2, <1>6 DEF RecordedAs, PutBuf, Except
<1>10. DeferOK'
  BY <1>1, <1>2, <1>9, DeferOKSame
<1> QED
  BY <1>1, <1>2, <1>6, <1>8, <1>10 DEF QueueInv

LEMMA RunNowIs ==
  ASSUME QueueInv, NEW o \in Operations(Ops), RunNow(o)
  PROVE  QueueInv'
<1>1. world \in WorldType
  BY DEF QueueInv, Sound, SoundBut, Typed
<1>2. world' = Direct(world, o) /\ UNCHANGED <<stage, flush, readonly, merging, hooks>>
  BY DEF RunNow
<1>3. Aged(world, world')
  BY <1>1, <1>2, DirectIs
<1> QED
  BY <1>2, <1>3, AgedStep

\* A step that changes only how deep the stages are deferred.
LEMMA NestedStep ==
  ASSUME QueueInv, Nested(stage, stage'),
         \A t \in Stages : stage'[t].defer # 0 \/ stage'[t].defer = stage[t].defer,
         UNCHANGED <<world, flush, hooks>>, DeferOK'
  PROVE  QueueInv'
<1>1. Sound(world, stage, flush) /\ hooks \in 0..HookBudget
  BY DEF QueueInv
<1>2. SoundBut(world, stage', flush, {})
  BY <1>1, DeferSound
<1> QED
  BY <1>1, <1>2 DEF QueueInv, Sound

\* While the application runs and readonly mode is off, only Main is deferred.
LEMMA MainDefer ==
  ASSUME DeferOK, Idle, ~ readonly, NEW n, PutDefer(stage, stage', Main, n),
         flush' # <<>> => n = 0, UNCHANGED <<readonly, merging>>
  PROVE  DeferOK'
<1>1. merging = <<>> /\ flush = <<>> /\ DOMAIN merging = {} /\ ToSet(merging) = {}
  <2>1. merging = <<>> /\ flush = <<>>
    BY DEF Idle
  <2>2. DOMAIN merging = {}
    BY <2>1, Empty
  <2>3. ToSet(merging) = {}
    BY <2>2 DEF ToSet
  <2> QED
    BY <2>1, <2>2, <2>3
<1>2. \A t \in Stages \ {Main} : stage'[t].defer = stage[t].defer
  BY DEF PutDefer, Except
<1>3. stage'[Main].defer = n
  BY DEF PutDefer
<1>4. /\ readonly \in BOOLEAN /\ merging \in Seq(Stages) /\ IsInjective(merging)
      /\ \A t \in Stages \ {Main} : stage[t].defer = 0
  BY <1>1 DEF DeferOK
<1>5. readonly' = FALSE /\ merging' = merging
  BY <1>4
<1> QED
  BY <1>1, <1>2, <1>3, <1>4, <1>5 DEF DeferOK, Idle

LEMMA PutDeferNested ==
  ASSUME NEW st \in [Stages -> StageType], NEW v, NEW s \in Stages, NEW n, PutDefer(st, v, s, n)
  PROVE  Nested(st, v) /\ \A t \in Stages \ {s} : v[t].defer = st[t].defer
BY DEF PutDefer, Except, Nested

LEMMA NestIs ==
  ASSUME QueueInv, DeferBegin \/ Suspend \/ Resume
  PROVE  QueueInv' /\ UNCHANGED <<world, flush, merging>> /\ Nested(stage, stage')
<1>1. /\ Sound(world, stage, flush) /\ DeferOK /\ stage \in [Stages -> StageType]
      /\ Main \in Stages /\ stage[Main].defer \in -MaxDefer .. MaxDefer /\ MaxDefer \in Nat
  <2>1. stage \in [Stages -> StageType] /\ Main \in Stages
    BY Consts DEF QueueInv, Sound, SoundBut, Typed
  <2> QED
    BY <2>1, StageIs, Consts DEF QueueInv
<1>2. Idle /\ ~ readonly /\ UNCHANGED <<world, flush, readonly, merging, hooks, want>>
  BY DEF DeferBegin, Suspend, Resume
<1>3. \E n \in -MaxDefer .. MaxDefer : n # 0 /\ stage' = [stage EXCEPT ![Main].defer = n]
  <2> DEFINE d == stage[Main].defer
  <2>1. CASE DeferBegin
    <3>1. d \in 0 .. MaxDefer - 1 /\ stage' = [stage EXCEPT ![Main].defer = d + 1]
      BY <2>1 DEF DeferBegin
    <3> HIDE DEF d
    <3>2. d + 1 \in -MaxDefer .. MaxDefer /\ d + 1 # 0
      BY <1>1, <3>1
    <3> QED
      BY <3>1, <3>2
  <2>2. CASE Suspend \/ Resume
    <3>1. d # 0 /\ stage' = [stage EXCEPT ![Main].defer = - d]
      BY <1>1, <2>2 DEF Suspend, Resume
    <3>2. d \in -MaxDefer .. MaxDefer
      BY <1>1
    <3> HIDE DEF d
    <3>3. - d \in -MaxDefer .. MaxDefer /\ - d # 0
      BY <1>1, <3>1, <3>2
    <3> QED
      BY <3>1, <3>3
  <2> QED
    BY <2>1, <2>2
<1>4. PICK n \in -MaxDefer .. MaxDefer : n # 0 /\ stage' = [stage EXCEPT ![Main].defer = n]
  BY <1>3
<1>5. PutDefer(stage, stage', Main, n)
  BY <1>1, <1>4, PutDeferIs
<1>6. Nested(stage, stage') /\ \A t \in Stages \ {Main} : stage'[t].defer = stage[t].defer
  BY <1>1, <1>5, PutDeferNested
<1>7. DeferOK'
  <2>1. flush' # <<>> => n = 0
    BY <1>2 DEF Idle
  <2> QED
    BY <1>1, <1>2, <1>5, <2>1, MainDefer
<1>8. \A t \in Stages : stage'[t].defer # 0 \/ stage'[t].defer = stage[t].defer
  BY <1>4, <1>5, <1>6 DEF PutDefer
<1>9. QueueInv'
  BY <1>2, <1>6, <1>7, <1>8, NestedStep
<1> QED
  BY <1>2, <1>6, <1>9

\* Stage s is deferred one level less, and may start a flush.
Lowered(s) ==
  \E st : /\ PutDefer(stage, st, s, stage[s].defer - 1) /\ Nested(stage, st)
          /\ \/ stage' = st /\ flush' = flush
             \/ st[s].defer = 0 /\ SwapTo(st, flush, s, stage', flush')

LEMMA DeferEndOfIs ==
  ASSUME Sound(world, stage, flush), flush = <<>>, NEW s \in Stages, stage[s].defer > 0,
         DeferEndOf(s)
  PROVE  /\ Sound(world, stage', flush') /\ Lowered(s)
         /\ stage'[s].defer = stage[s].defer - 1
         /\ \A t \in Stages \ {s} : stage'[t].defer = stage[t].defer
         /\ flush' # <<>> => stage'[s].defer = 0
<1> DEFINE n == stage[s].defer - 1
           st == [stage EXCEPT ![s].defer = n]
           r == Ended(st, flush, world, s)
<1>1. stage \in [Stages -> StageType] /\ flush \in Seq(FrameType)
  BY DEF Sound, SoundBut, Typed
<1>2. n \in -MaxDefer .. MaxDefer /\ n \in Int
  <2>1. stage[s].defer \in -MaxDefer .. MaxDefer /\ MaxDefer \in Nat
    BY <1>1, StageIs, Consts
  <2> QED
    BY <2>1
<1>3. \/ st[s].defer = 0 /\ stage' = r.stage /\ flush' = r.flush
      \/ st[s].defer # 0 /\ stage' = st /\ flush' = flush
  <2>1. CASE st[s].defer = 0
    BY <2>1 DEF DeferEndOf, BecomesNext
  <2>2. CASE st[s].defer # 0
    BY <2>2 DEF DeferEndOf, BecomesNext
  <2> QED
    BY <2>1, <2>2
<1> HIDE DEF n
<1>4. PutDefer(stage, st, s, n)
  BY <1>1, <1>2, PutDeferIs
<1>5. Nested(stage, st) /\ \A t \in Stages \ {s} : st[t].defer = stage[t].defer
  <2> HIDE DEF st
  <2> QED
    BY <1>1, <1>4, PutDeferNested
<1>6. st \in [Stages -> StageType] /\ st[s].defer = n
  <2> HIDE DEF st
  <2> QED
    BY <1>4, <1>5 DEF PutDefer, Nested
<1>7. ~ InFlush(flush, s)
  BY Empty DEF InFlush
<1> HIDE DEF st
<1>8. SwapTo(st, flush, s, r.stage, r.flush)
  <2>1. EndTo(st, flush, s, r.stage, r.flush)
    BY <1>1, <1>6, EndedIs
  <2> HIDE DEF r
  <2> QED
    BY <1>7, <2>1 DEF EndTo
<1> HIDE DEF r
<1>9. CASE st[s].defer = 0 /\ stage' = r.stage /\ flush' = r.flush
  <2>1. SwapTo(st, flush, s, stage', flush')
    BY <1>8, <1>9
  <2>2. SoundBut(world, st, flush, {s})
    <3>1. \A t \in Stages : st[t].defer # 0 \/ st[t].defer = stage[t].defer \/ t \in {s}
      BY <1>5
    <3> QED
      BY <1>5, <3>1, DeferSound
  <2>3. Sound(world, stage', flush')
    <3>1. Released(world, st, flush, s)
      BY <1>7, <2>2 DEF Released
    <3> QED
      BY <1>1, <2>1, <3>1, SwapSound
  <2>4. \A t \in Stages : stage'[t].defer = st[t].defer
    BY <2>1 DEF SwapTo, Flip, Except
  <2>5. Lowered(s)
    BY <1>4, <1>5, <1>9, <2>1 DEF Lowered, n
  <2> QED
    BY <1>5, <1>6, <1>9, <2>3, <2>4, <2>5 DEF n
<1>10. CASE st[s].defer # 0 /\ stage' = st /\ flush' = flush
  <2>1. \A t \in Stages : st[t].defer # 0 \/ st[t].defer = stage[t].defer \/ t \in {}
    BY <1>5, <1>10
  <2>2. Sound(world, stage', flush')
    BY <1>5, <1>10, <2>1, DeferSound DEF Sound
  <2>3. Lowered(s)
    BY <1>4, <1>5, <1>10 DEF Lowered, n
  <2> QED
    BY <1>5, <1>6, <1>10, <2>2, <2>3 DEF n
<1> QED
  BY <1>3, <1>9, <1>10

LEMMA DeferEndIs ==
  ASSUME QueueInv, DeferEnd
  PROVE  QueueInv' /\ Lowered(Main) /\ Idle /\ UNCHANGED <<world, merging>>
<1>1. Sound(world, stage, flush) /\ DeferOK /\ hooks \in 0..HookBudget /\ stage \in [Stages -> StageType]
  BY DEF QueueInv, Sound, SoundBut, Typed
<1>2. /\ Idle /\ flush = <<>> /\ ~ readonly /\ stage[Main].defer > 0 /\ DeferEndOf(Main)
      /\ UNCHANGED <<world, readonly, merging, hooks>>
  BY DEF DeferEnd, Idle
<1>3. Main \in Stages
  BY Consts
<1> DEFINE n == stage[Main].defer - 1
<1>4. /\ Sound(world, stage', flush') /\ Lowered(Main)
      /\ stage'[Main].defer = n
      /\ \A t \in Stages \ {Main} : stage'[t].defer = stage[t].defer
      /\ flush' # <<>> => stage'[Main].defer = 0
  BY <1>1, <1>2, <1>3, DeferEndOfIs
<1> HIDE DEF n
<1>5. DeferOK'
  <2>1. merging = <<>> /\ ToSet(merging) = {} /\ DOMAIN merging = {}
    <3>1. merging = <<>> /\ DOMAIN merging = {}
      BY <1>2, Empty DEF Idle
    <3> QED
      BY <3>1 DEF ToSet
  <2>2. /\ readonly \in BOOLEAN /\ merging \in Seq(Stages) /\ IsInjective(merging)
        /\ \A t \in Stages \ {Main} : stage[t].defer = 0
    BY <1>1, <1>2, <2>1 DEF DeferOK
  <2>3. readonly' = FALSE /\ merging' = merging
    BY <1>2, <2>2
  <2>4. ~ Idle' => flush' # <<>>
    BY <2>1, <2>3 DEF Idle
  <2> QED
    BY <1>4, <2>1, <2>2, <2>3, <2>4 DEF DeferOK
<1> QED
  BY <1>1, <1>2, <1>4, <1>5 DEF QueueInv

LEMMA ReadonlyBeginIs ==
  ASSUME QueueInv, ReadonlyBegin
  PROVE  QueueInv' /\ Nested(stage, stage') /\ UNCHANGED <<world, flush, merging>>
<1>1. Sound(world, stage, flush) /\ DeferOK /\ stage \in [Stages -> StageType]
  BY DEF QueueInv, Sound, SoundBut, Typed
<1>2. /\ Idle /\ readonly' = TRUE /\ stage' = [s \in Stages |-> [stage[s] EXCEPT !.defer = 1]]
      /\ UNCHANGED <<world, flush, merging, hooks, want>>
  BY DEF ReadonlyBegin
<1>3. ASSUME NEW s \in Stages
      PROVE  stage'[s] \in StageType /\ stage'[s].defer = 1 /\ stage'[s].cmd = stage[s].cmd
             /\ stage'[s].buf = stage[s].buf
  <2> DEFINE x == [stage[s] EXCEPT !.defer = 1]
  <2>1. /\ stage[s] \in [defer : {stage[s].defer}, cmd : {stage[s].cmd}, buf : {stage[s].buf}]
        /\ stage[s].cmd \in 0..1 /\ stage[s].buf \in [0..1 -> BufType]
    BY <1>1, StageIs
  <2>2. stage'[s] = x
    BY <1>2
  <2>3. /\ x.defer = 1 /\ x.cmd = stage[s].cmd /\ x.buf = stage[s].buf
        /\ x \in [defer : {x.defer}, cmd : {x.cmd}, buf : {x.buf}]
    BY <2>1
  <2>4. 1 \in -MaxDefer .. MaxDefer
    BY Consts
  <2> HIDE DEF x
  <2>5. x \in StageType
    BY <2>1, <2>3, <2>4 DEF StageType
  <2> QED
    BY <2>2, <2>3, <2>5
<1>4. Nested(stage, stage')
  BY <1>2, <1>3 DEF Nested
<1>5. DeferOK'
  <2>1. flush' = <<>> /\ merging' = merging /\ merging = <<>> /\ Idle'
    BY <1>2 DEF Idle
  <2>2. /\ merging \in Seq(Stages) /\ IsInjective(merging)
        /\ \A i \in DOMAIN merging : i # 1 => merging[i] # Main
    BY <1>1 DEF DeferOK
  <2> QED
    BY <1>2, <1>3, <2>1, <2>2 DEF DeferOK
<1>6. \A t \in Stages : stage'[t].defer # 0
  BY <1>3
<1> QED
  BY <1>2, <1>4, <1>5, <1>6, NestedStep

LEMMA ReadonlyEndIs ==
  ASSUME QueueInv, ReadonlyEnd
  PROVE  QueueInv' /\ UNCHANGED <<world, stage, flush>> /\ Idle /\ ~ Idle'
<1>1. Sound(world, stage, flush) /\ DeferOK /\ hooks \in 0..HookBudget
  BY DEF QueueInv
<1>2. /\ Idle /\ readonly /\ readonly' = FALSE /\ merging' = StageOrder
      /\ UNCHANGED <<world, stage, flush, hooks, want>>
  BY DEF ReadonlyEnd
<1>3. \A s \in Stages : stage[s].defer = 1
  BY <1>1, <1>2 DEF DeferOK
<1>4. /\ StageOrder \in Seq(Stages) /\ IsInjective(StageOrder) /\ StageOrder # <<>> /\ Main \in Stages
      /\ Stages = ToSet(StageOrder)
  BY Consts DEF Stages
<1>5. \A i \in DOMAIN StageOrder : i # 1 => StageOrder[i] # Main
  <2>1. 1 \in DOMAIN StageOrder
    BY <1>4, EmptySeq, LenProperties
  <2> QED
    BY <1>4, <2>1 DEF IsInjective, Main
<1>6. DeferOK'
  <2>1. flush' = <<>>
    BY <1>2 DEF Idle
  <2> QED
    BY <1>2, <1>3, <1>4, <1>5, <2>1 DEF DeferOK
<1>7. Sound(world', stage', flush')
  BY <1>1, <1>2
<1>8. ~ Idle'
  BY <1>2, <1>4 DEF Idle
<1> QED
  BY <1>1, <1>2, <1>6, <1>7, <1>8 DEF QueueInv

LEMMA TailIs ==
  ASSUME NEW q \in Seq(Stages), q # <<>>, IsInjective(q)
  PROVE  /\ Head(q) \in Stages /\ Head(q) = q[1] /\ Tail(q) \in Seq(Stages) /\ IsInjective(Tail(q))
         /\ Head(q) \in ToSet(q) /\ ToSet(Tail(q)) = ToSet(q) \ {Head(q)}
<1> DEFINE n == Len(q)
           r == Tail(q)
<1>1. /\ n \in Nat /\ n # 0 /\ DOMAIN q = 1..n /\ \A i \in 1..n : q[i] \in Stages
      /\ Head(q) = q[1] /\ r \in Seq(Stages) /\ Len(r) = n - 1
      /\ \A i \in 1..n - 1 : r[i] = q[i + 1]
  BY EmptySeq, LenProperties, ElementOfSeq, HeadTailProperties
<1>2. DOMAIN r = 1..n - 1
  BY <1>1, LenProperties
<1> HIDE DEF n, r
<1>3. 1 \in 1..n /\ \A i \in 1..n - 1 : i + 1 \in 1..n /\ i + 1 # 1
  BY <1>1
<1>4. \A i \in 1..n : i = 1 \/ i - 1 \in 1..n - 1
  BY <1>1
<1>5. \A i \in 1..n : i = (i - 1) + 1
  BY <1>1
<1>6. \A i, j \in 1..n - 1 : i + 1 = j + 1 => i = j
  BY <1>1
<1>7. \A i, j \in 1..n : q[i] = q[j] => i = j
  BY <1>1 DEF IsInjective
<1>8. IsInjective(r)
  BY <1>1, <1>2, <1>3, <1>6, <1>7 DEF IsInjective
<1>9. ASSUME NEW x \in ToSet(r) PROVE x \in ToSet(q) \ {q[1]}
  <2>1. PICK i \in 1..n - 1 : x = r[i]
    BY <1>2, <1>9 DEF ToSet
  <2>2. x = q[i + 1] /\ i + 1 \in 1..n /\ i + 1 # 1
    BY <1>1, <1>3, <2>1
  <2> QED
    BY <1>1, <1>3, <1>7, <2>2 DEF ToSet
<1>10. ASSUME NEW x \in ToSet(q), x # q[1] PROVE x \in ToSet(r)
  <2>1. PICK i \in 1..n : x = q[i]
    BY <1>1 DEF ToSet
  <2>2. i - 1 \in 1..n - 1
    BY <1>4, <1>10, <2>1
  <2>3. x = r[i - 1]
    BY <1>1, <1>5, <2>1, <2>2
  <2> QED
    BY <1>2, <2>2, <2>3 DEF ToSet
<1>11. q[1] \in ToSet(q) /\ q[1] \in Stages
  BY <1>1, <1>3 DEF ToSet
<1> QED
  BY <1>1, <1>8, <1>9, <1>10, <1>11 DEF r

LEMMA MergeStageIs ==
  ASSUME QueueInv, MergeStage
  PROVE  /\ QueueInv' /\ flush = <<>> /\ ~ Idle /\ UNCHANGED world
         /\ Head(merging) \in Stages /\ Lowered(Head(merging))
<1> DEFINE s == Head(merging)
<1>1. Sound(world, stage, flush) /\ DeferOK /\ hooks \in 0..HookBudget /\ stage \in [Stages -> StageType]
  BY DEF QueueInv, Sound, SoundBut, Typed
<1>2. /\ flush = <<>> /\ merging # <<>> /\ ~ Idle /\ DeferEndOf(s) /\ merging' = Tail(merging)
      /\ UNCHANGED <<world, readonly, hooks>>
  BY DEF MergeStage, Idle
<1>3. /\ s \in Stages /\ s = merging[1] /\ Tail(merging) \in Seq(Stages) /\ IsInjective(Tail(merging))
      /\ s \in ToSet(merging) /\ ToSet(Tail(merging)) = ToSet(merging) \ {s}
  BY <1>1, <1>2, TailIs DEF DeferOK
<1> HIDE DEF s
<1>4. ~ readonly /\ Main \in Stages
  BY <1>1, <1>2, Consts DEF DeferOK
<1>5. stage[s].defer = 1
  BY <1>1, <1>2, <1>3, <1>4 DEF DeferOK
<1>6. Main \in ToSet(merging) => s = Main
  BY <1>1, <1>3 DEF DeferOK, ToSet
<1>7. /\ Sound(world, stage', flush') /\ Lowered(s)
      /\ stage'[s].defer = 0
      /\ \A t \in Stages \ {s} : stage'[t].defer = stage[t].defer
  <2>1. stage[s].defer > 0 /\ stage[s].defer - 1 = 0
    BY <1>5
  <2> QED
    BY <1>1, <1>2, <1>3, <2>1, DeferEndOfIs DEF s
<1>8. Main \notin ToSet(Tail(merging))
  BY <1>3, <1>6
<1>9. stage'[Main].defer = 0
  <2>1. CASE s = Main
    BY <1>7, <2>1
  <2>2. CASE s # Main
    BY <1>1, <1>2, <1>4, <1>6, <1>7, <2>2 DEF DeferOK
  <2> QED
    BY <2>1, <2>2
<1>10. ASSUME NEW t \in Stages \ {Main}
       PROVE  stage'[t].defer = IF t \in ToSet(Tail(merging)) THEN 1 ELSE 0
  <2>1. CASE t = s
    BY <1>3, <1>7, <2>1
  <2>2. CASE t # s
    <3>1. stage'[t].defer = IF t \in ToSet(merging) THEN 1 ELSE 0
      BY <1>1, <1>4, <1>7, <1>10, <2>2 DEF DeferOK
    <3> QED
      BY <1>3, <2>2, <3>1
  <2> QED
    BY <2>1, <2>2
<1>11. DeferOK'
  <2>1. merging' = Tail(merging) /\ readonly' = readonly /\ readonly' \in BOOLEAN
    BY <1>1, <1>2 DEF DeferOK
  <2>2. \A i \in DOMAIN merging' : merging'[i] # Main
    BY <1>8, <2>1 DEF ToSet
  <2> QED
    BY <1>3, <1>4, <1>8, <1>9, <1>10, <2>1, <2>2 DEF DeferOK
<1> QED
  BY <1>1, <1>2, <1>3, <1>7, <1>11 DEF QueueInv, s

LEMMA InitIs ==
  ASSUME Init
  PROVE  /\ QueueInv /\ flush = <<>> /\ merging = <<>>
         /\ \A s \in Stages, b \in 0..1 : stage[s].buf[b].queue = <<>>
         /\ \A sl \in Slots : world.belief[sl] = {} /\ \A c \in Comps : world.ent[sl].val[c] = None
         /\ world.held = 0
<1> DEFINE zero == [first |-> 0, last |-> 0]
           empty == [queue |-> <<>>, entry |-> [s \in Slots |-> zero]]
           idle == [defer |-> 0, cmd |-> 0, buf |-> [b \in 0..1 |-> empty]]
           nobody == [alive |-> FALSE, gen |-> 0, val |-> [c \in Comps |-> None]]
           w == [ent |-> [s \in Slots |-> nobody], belief |-> [s \in Slots |-> {}], held |-> 0]
<1>1. /\ world = w /\ stage = [s \in Stages |-> idle]
      /\ flush = <<>> /\ readonly = FALSE /\ merging = <<>> /\ hooks = HookBudget
  BY DEF Init, NoEntities, EmptyBuffer
<1>2. empty.queue = <<>> /\ (\A sl \in Slots : empty.entry[sl].first = 0) /\ empty \in BufType
  <2>1. zero \in Entry
    BY DEF Entry
  <2>2. <<>> \in Seq(Cmds)
    BY Empty
  <2>3. empty \in BufType
    BY <2>1, <2>2 DEF BufType
  <2> QED
    BY <2>3
<1> HIDE DEF empty
<1>3. idle \in StageType /\ idle.defer = 0 /\ idle.cmd = 0 /\ \A b \in 0..1 : idle.buf[b] = empty
  <2>1. 0 \in -MaxDefer .. MaxDefer /\ 0 \in 0..1
    BY Consts
  <2> QED
    BY <1>2, <2>1 DEF StageType
<1> HIDE DEF idle
<1>4. nobody \in EntType /\ \A c \in Comps : nobody.val[c] = None
  BY Consts DEF EntType, Vals
<1> HIDE DEF nobody
<1>5. w \in WorldType /\ w.held = 0 /\ \A sl \in Slots : w.belief[sl] = {} /\ w.ent[sl] = nobody
  BY <1>4 DEF WorldType
<1> HIDE DEF w
<1>6. /\ stage \in [Stages -> StageType] /\ \A s \in Stages : stage[s] = idle
      /\ \A s \in Stages, b \in 0..1 : stage[s].buf[b] = empty /\ stage[s].defer = 0
  BY <1>1, <1>3
<1>7. flush \in Seq(FrameType) /\ DOMAIN flush = {} /\ Len(flush) = 0
  BY <1>1, Empty
<1>8. Typed(world, stage, flush) /\ FramesOK(stage, flush)
  BY <1>1, <1>5, <1>6, <1>7 DEF Typed, FramesOK
<1>9. BuffersOK(stage, flush, {}) /\ EntriesOK(stage, flush)
  BY <1>2, <1>6 DEF BuffersOK, EntriesOK
<1>10. LinksOK(world, stage, flush)
  <2>1. DOMAIN empty.queue = {}
    BY <1>2, Empty
  <2>2. Links(empty.queue) = {}
    BY <2>1 DEF Links
  <2>3. Ordered(empty.queue) /\ Chained(world.ent, empty)
    BY <2>1, <2>2 DEF Ordered, Chained
  <2> QED
    BY <1>6, <2>3 DEF LinksOK
<1>11. DeferOK
  <2>1. DOMAIN merging = {} /\ merging \in Seq(Stages)
    BY <1>1, Empty
  <2>2. IsInjective(merging)
    BY <2>1 DEF IsInjective
  <2>3. ToSet(merging) = {}
    BY <2>1 DEF ToSet
  <2>4. Idle /\ readonly \in BOOLEAN /\ ~ readonly
    BY <1>1 DEF Idle
  <2> QED
    BY <1>1, <1>6, <2>1, <2>2, <2>3, <2>4 DEF DeferOK
<1>12. hooks \in 0..HookBudget
  BY <1>1, Consts
<1>13. QueueInv
  BY <1>8, <1>9, <1>10, <1>11, <1>12 DEF QueueInv, Sound, SoundBut
<1> QED
  BY <1>1, <1>2, <1>4, <1>5, <1>6, <1>13

-----------------------------------------------------------------------------
(* What a step leaves of the flushes in progress.                          *)

\* The flush at the top goes on at (pos, step) in the buffer nb, those under it
\* have not moved, and one that was started on top of it is at its beginning.
After(nb, pos, step, added) ==
  LET n == Len(flush)
      g == flush'[n] IN
  /\ DOMAIN flush \subseteq DOMAIN flush' /\ n \in DOMAIN flush
  /\ \A i \in DOMAIN flush \ {n} : /\ flush'[i] = flush[i]
                                   /\ BufOf(stage', flush[i]) = BufOf(stage, flush[i])
  /\ g.stage = Top.stage /\ g.buf = Top.buf /\ g.pos = pos /\ g.step = step /\ g.added = added
  /\ BufOf(stage', g) = nb
  /\ \A i \in DOMAIN flush' \ DOMAIN flush : flush'[i].step = "batch"

\* The other flushes empty buffers of other stages.
LEMMA UnderTop ==
  ASSUME NEW w, NEW st, NEW fl, Sound(w, st, fl), fl # <<>>
  PROVE  \A i \in DOMAIN fl \ {Len(fl)} : fl[i].stage # fl[Len(fl)].stage /\ fl[i].stage \in Stages
                                          /\ fl[i].stage # Main
<1>1. FramesOK(st, fl) /\ fl \in Seq(FrameType)
  BY DEF Sound, SoundBut, Typed
<1>2. DOMAIN fl = 1..Len(fl) /\ Len(fl) \in Nat /\ Len(fl) <= 2
  BY <1>1, FramesAre DEF FramesOK
<1> SUFFICES ASSUME NEW i \in DOMAIN fl \ {Len(fl)}
             PROVE  fl[i].stage # fl[Len(fl)].stage /\ fl[i].stage \in Stages /\ fl[i].stage # Main
  OBVIOUS
<1>3. i = 1 /\ Len(fl) = 2
  BY <1>2
<1> QED
  BY <1>1, <1>3, FramesAre DEF FramesOK

\* What the observers record leaves the buffers that are being flushed alone.
LEMMA FlushedKept ==
  ASSUME NEW st \in [Stages -> StageType], NEW st1, NEW ent, NEW e, Observed(st, st1, ent, e),
         NEW fl, NEW v, NEW fl2, EndTo(st1, fl, Main, v, fl2),
         NEW t \in Stages, NEW b \in 0..1, b = 1 - st[t].cmd
  PROVE  v[t].buf[b] = st[t].buf[b]
<1>1. st1[t].buf[b] = st[t].buf[b]
  <2>1. CASE st1 = st
    BY <2>1
  <2>2. ASSUME NEW o, RecordedAs(st, st1, ent, Main, o) PROVE st1[t].buf[b] = st[t].buf[b]
    BY <2>2 DEF RecordedAs, PutBuf, Except
  <2> QED
    BY <2>1, <2>2 DEF Observed
<1>2. v[t].buf = st1[t].buf
  BY DEF EndTo, SwapTo, Flip, Except
<1> QED
  BY <1>1, <1>2

LEMMA AfterStep ==
  ASSUME Sound(world, stage, flush), flush # <<>>, NEW pos, NEW step, NEW added,
         NEW fl, Moved(flush, fl, pos, step, added),
         NEW e, NEW w, NEW st, NEW nb, NEW st1, Stepped(e, w, st, nb, fl, st1)
  PROVE  After(nb, pos, step, added)
<1> DEFINE n == Len(flush)
<1>1. /\ FramesOK(stage, flush) /\ flush \in Seq(FrameType) /\ stage \in [Stages -> StageType]
      /\ Top = flush[n] /\ n \in DOMAIN flush /\ DOMAIN flush = 1..n /\ n \in Nat
      /\ Top.stage \in Stages /\ Top.buf \in 0..1
  BY TopIs, FramesAre DEF Sound, SoundBut, Typed
<1>2. /\ fl \in Seq(FrameType) /\ Len(fl) = n /\ DOMAIN fl = 1..n
      /\ \A i \in DOMAIN flush \ {n} : fl[i] = flush[i]
      /\ LET g == fl[n] IN
         g.stage = Top.stage /\ g.buf = Top.buf /\ g.pos = pos /\ g.step = step /\ g.added = added
  BY <1>1, FramesAre DEF Moved
<1>3. /\ PutBuf(stage, st, Top.stage, Top.buf, nb) /\ st \in [Stages -> StageType]
      /\ Observed(st, st1, w.ent, e) /\ EndTo(st1, fl, Main, stage', flush')
  BY DEF Stepped, PutBuf, Except
<1> HIDE DEF n
<1>4. /\ DOMAIN fl \subseteq DOMAIN flush' /\ \A i \in DOMAIN fl : flush'[i] = fl[i]
      /\ \A i \in DOMAIN flush' \ DOMAIN fl : flush'[i].step = "batch"
  <2>1. CASE flush' = fl
    BY <2>1
  <2>2. CASE NewFrame(fl, flush', Main, st1[Main].cmd)
    <3>1. DOMAIN flush' = 1..n + 1 /\ \A i \in 1..n : flush'[i] = fl[i]
      BY <1>2, <2>2, FramesAre DEF NewFrame
    <3>2. flush'[n + 1].step = "batch"
      BY <1>2, <2>2 DEF NewFrame
    <3>3. \A i \in 1..n + 1 : i \in 1..n \/ i = n + 1
      BY <1>1
    <3>4. \A i \in 1..n : i \in 1..n + 1
      BY <1>1
    <3> QED
      BY <1>2, <3>1, <3>2, <3>3, <3>4
  <2> QED
    BY <1>3, <2>1, <2>2 DEF EndTo, SwapTo
<1>5. \A i \in DOMAIN flush : fl[i].stage = flush[i].stage /\ fl[i].buf = flush[i].buf
  BY <1>1, <1>2
<1>6. ASSUME NEW i \in DOMAIN flush PROVE BufOf(stage', flush[i]) = BufOf(st, flush[i])
  <2>1. /\ flush[i].stage \in Stages /\ flush[i].buf \in 0..1
        /\ flush[i].buf = 1 - stage[flush[i].stage].cmd
    BY <1>1, FramesAre DEF FramesOK
  <2>2. st[flush[i].stage].cmd = stage[flush[i].stage].cmd
    BY <1>3, <2>1 DEF PutBuf, Except
  <2> QED
    BY <1>3, <2>1, <2>2, FlushedKept DEF BufOf
<1>7. \A i \in DOMAIN flush \ {n} : BufOf(st, flush[i]) = BufOf(stage, flush[i])
  <2>1. \A i \in DOMAIN flush \ {n} : flush[i].stage # Top.stage /\ flush[i].stage \in Stages
    BY <1>1, UnderTop DEF n
  <2> QED
    BY <1>3, <2>1 DEF PutBuf, Except, BufOf
<1>8. BufOf(st, Top) = nb
  BY <1>3 DEF PutBuf, BufOf
<1>9. BufOf(stage', flush'[n]) = nb
  BY <1>1, <1>2, <1>4, <1>6, <1>8 DEF BufOf
<1> QED
  BY <1>1, <1>2, <1>4, <1>6, <1>7, <1>9 DEF After, n

LEMMA AfterQuiet ==
  ASSUME Sound(world, stage, flush), flush # <<>>, NEW pos, NEW step, NEW added,
         Moved(flush, flush', pos, step, added),
         NEW nb, PutBuf(stage, stage', Top.stage, Top.buf, nb)
  PROVE  After(nb, pos, step, added)
<1> DEFINE n == Len(flush)
<1>1. Top = flush[n] /\ n \in DOMAIN flush /\ DOMAIN flush = 1..n /\ flush \in Seq(FrameType)
  BY TopIs, FramesAre
<1>2. /\ DOMAIN flush' = 1..n
      /\ \A i \in DOMAIN flush \ {n} : flush'[i] = flush[i]
      /\ LET g == flush'[n] IN
         g.stage = Top.stage /\ g.buf = Top.buf /\ g.pos = pos /\ g.step = step /\ g.added = added
  <2>1. flush' \in Seq(FrameType) /\ Len(flush') = n
    BY DEF Moved
  <2>2. DOMAIN flush' = 1..n
    BY <2>1, LenProperties
  <2> QED
    BY <1>1, <2>2 DEF Moved
<1>3. \A i \in DOMAIN flush \ {n} : flush[i].stage # Top.stage /\ flush[i].stage \in Stages
  BY <1>1, UnderTop
<1> HIDE DEF n
<1>4. \A i \in DOMAIN flush \ {n} : BufOf(stage', flush[i]) = BufOf(stage, flush[i])
  BY <1>3 DEF PutBuf, Except, BufOf
<1>5. BufOf(stage', flush'[n]) = nb
  BY <1>2 DEF PutBuf, BufOf
<1> QED
  BY <1>1, <1>2, <1>4, <1>5 DEF After, n

\* The flush at the top is over.
Under ==
  /\ \A i \in DOMAIN flush \ {Len(flush)} : /\ i \in DOMAIN flush' /\ flush'[i] = flush[i]
                                            /\ BufOf(stage', flush[i]) = BufOf(stage, flush[i])
  /\ \A i \in DOMAIN flush' : i \in DOMAIN flush \ {Len(flush)} \/ flush'[i].step = "batch"

\* No flush is in the middle of a command.
AllBatch(fl) == \A i \in DOMAIN fl : fl[i].step = "batch"

\* A swap keeps the frames there are.
Kept(fl, fl2) ==
  /\ \A i \in DOMAIN fl : i \in DOMAIN fl2 /\ fl2[i] = fl[i]
  /\ \A i \in DOMAIN fl2 : i \in DOMAIN fl \/ fl2[i].step = "batch"

LEMMA SwapFrames ==
  ASSUME NEW st, NEW fl \in Seq(FrameType), NEW s, NEW v, NEW fl2, SwapTo(st, fl, s, v, fl2)
  PROVE  /\ Kept(fl, fl2)
         /\ \A t \in Stages : v[t].buf = st[t].buf
<1>1. \A t \in Stages : v[t].buf = st[t].buf
  BY DEF SwapTo, Flip, Except
<1>2. CASE fl2 = fl
  BY <1>1, <1>2 DEF Kept
<1>3. CASE NewFrame(fl, fl2, s, st[s].cmd)
  <2> DEFINE n == Len(fl)
  <2>1. n \in Nat /\ DOMAIN fl = 1..n
    BY FramesAre
  <2>2. DOMAIN fl2 = 1..n + 1 /\ (\A i \in 1..n : fl2[i] = fl[i]) /\ fl2[n + 1].step = "batch"
    BY <1>3, FramesAre DEF NewFrame
  <2> HIDE DEF n
  <2>3. /\ \A i \in 1..n + 1 : i \in 1..n \/ i = n + 1
        /\ \A i \in 1..n : i \in 1..n + 1
    BY <2>1
  <2> QED
    BY <1>1, <2>1, <2>2, <2>3 DEF Kept
<1> QED
  BY <1>2, <1>3 DEF SwapTo

LEMMA UnderFinish ==
  ASSUME QueueInv, FinishBuffer
  PROVE  Under
<1>1. /\ Sound(world, stage, flush) /\ flush \in Seq(FrameType)
      /\ flush # <<>> /\ Top = flush[Len(flush)] /\ DOMAIN flush = 1..Len(flush) /\ Len(flush) \in Nat
  BY FinishBufferIs, FramesAre DEF QueueInv, Sound, SoundBut, Typed, Top
<1>2. PICK st, nb, fl1 : /\ PutBuf(stage, st, Top.stage, Top.buf, nb)
                         /\ Over(flush, fl1) /\ SwapTo(st, fl1, Top.stage, stage', flush')
  BY FinishBufferIs
<1>3. /\ \A i \in DOMAIN fl1 : i \in DOMAIN flush' /\ flush'[i] = fl1[i]
      /\ \A i \in DOMAIN flush' : i \in DOMAIN fl1 \/ flush'[i].step = "batch"
      /\ \A t \in Stages : stage'[t].buf = st[t].buf
  <2>1. fl1 \in Seq(FrameType) /\ SwapTo(st, fl1, Top.stage, stage', flush')
    BY <1>2 DEF Over
  <2>2. Kept(fl1, flush') /\ \A t \in Stages : stage'[t].buf = st[t].buf
    BY <2>1, SwapFrames
  <2> QED
    BY <2>2 DEF Kept
<1>4. /\ \A i \in DOMAIN fl1 : i \in DOMAIN flush \ {Len(flush)} /\ fl1[i] = flush[i]
      /\ \A i \in DOMAIN flush \ {Len(flush)} : i \in DOMAIN fl1
  <2> DEFINE n == Len(flush)
  <2>1. DOMAIN fl1 = 1..n - 1 /\ \A i \in 1..n - 1 : fl1[i] = flush[i]
    BY <1>2, FramesAre DEF Over
  <2> HIDE DEF n
  <2>2. n \in Nat => \A i \in 1..n - 1 : i \in 1..n /\ i # n
    OBVIOUS
  <2>3. n \in Nat => \A i \in 1..n : i = n \/ i \in 1..n - 1
    OBVIOUS
  <2> QED
    BY <1>1, <2>1, <2>2, <2>3 DEF n
<1>5. \A i \in DOMAIN flush \ {Len(flush)} : BufOf(stage', flush[i]) = BufOf(stage, flush[i])
  <2>1. \A i \in DOMAIN flush \ {Len(flush)} : flush[i].stage # Top.stage /\ flush[i].stage \in Stages
    BY <1>1, UnderTop
  <2> QED
    BY <1>2, <1>3, <2>1 DEF PutBuf, Except, BufOf
<1> QED
  BY <1>3, <1>4, <1>5 DEF Under

LEMMA SwapQuiet ==
  ASSUME NEW st, NEW fl, Len(fl) = 0, DOMAIN fl = {}, NEW s, NEW v, NEW fl2, SwapTo(st, fl, s, v, fl2)
  PROVE  AllBatch(fl2)
<1>1. CASE fl2 = fl
  BY <1>1 DEF AllBatch
<1>2. CASE NewFrame(fl, fl2, s, st[s].cmd)
  <2>1. fl2 \in Seq(FrameType) /\ Len(fl2) = 1 /\ fl2[1].step = "batch"
    BY <1>2 DEF NewFrame
  <2>2. DOMAIN fl2 = 1..1
    BY <2>1, FramesAre
  <2> QED
    BY <2>1, <2>2 DEF AllBatch
<1> QED
  BY <1>1, <1>2 DEF SwapTo

\* The application leaves no flush in the middle of a command.
LEMMA QuietFrames ==
  ASSUME NEW s \in Stages, Lowered(s), flush = <<>>
  PROVE  AllBatch(flush')
<1>1. Len(flush) = 0 /\ DOMAIN flush = {}
  BY Empty
<1>2. PICK st : \/ flush' = flush
                \/ SwapTo(st, flush, s, stage', flush')
  BY DEF Lowered
<1>3. AllBatch(flush)
  BY <1>1 DEF AllBatch
<1>4. CASE flush' = flush
  BY <1>3, <1>4
<1>5. CASE SwapTo(st, flush, s, stage', flush')
  BY <1>1, <1>5, SwapQuiet
<1> QED
  BY <1>2, <1>4, <1>5

\* The steps of a flush, seen from the flushes.
LEMMA SteppedAfter ==
  ASSUME QueueInv, flush # <<>>, NEW pos \in Nat \ {0},
         NEW step \in {"batch", "moves", "exec", "write"}, NEW added \in SUBSET Comps,
         NEW e, NEW w, NEW st, NEW nb, \E st1 : Stepped(e, w, st, nb, At(pos, step, added), st1)
  PROVE  After(nb, pos, step, added)
<1> DEFINE fl == At(pos, step, added)
<1>1. Sound(world, stage, flush) /\ flush \in Seq(FrameType)
  BY DEF QueueInv, Sound, SoundBut, Typed
<1>2. Moved(flush, fl, pos, step, added)
  BY <1>1, AtIs
<1> HIDE DEF fl
<1>3. PICK st1 : Stepped(e, w, st, nb, fl, st1)
  BY DEF fl
<1> QED
  BY <1>1, <1>2, <1>3, AfterStep

LEMMA CommitBatchAfter ==
  ASSUME QueueInv, CommitBatch
  PROVE  LET ch == Chain(Buf.queue, Top.pos)
             p == Plan(Buf.queue, ch, Has(world.ent, Cmd.of.ent)) IN
         /\ flush # <<>> /\ Top.step = "batch" /\ Top.pos <= Len(Buf.queue)
         /\ After([Buf EXCEPT !.queue = AfterFirst(Buf.queue, ch)], Top.pos, "moves", p.added)
<1> DEFINE e == Cmd.of.ent
           ch == Chain(Buf.queue, Top.pos)
           p == Plan(Buf.queue, ch, Has(world.ent, e))
           q2 == AfterFirst(Buf.queue, ch)
           nb == [Buf EXCEPT !.queue = q2]
           st == [stage EXCEPT ![Top.stage].buf[Top.buf].queue = q2]
<1>1. flush # <<>> /\ Top.step = "batch" /\ Top.pos <= Len(Buf.queue)
  BY DEF CommitBatch
<1>2. \E st1 : Stepped(e, world', st, nb, At(Top.pos, "moves", p.added), st1)
  BY CommitBatchIs
<1>3. p.added \in SUBSET Comps
  BY PlanIs, HasIs
<1>4. Top.pos \in Nat \ {0}
  BY <1>1, TopIs DEF QueueInv
<1> HIDE DEF e, p, st, nb
<1>5. After(nb, Top.pos, "moves", p.added)
  BY <1>1, <1>2, <1>3, <1>4, SteppedAfter
<1> QED
  BY <1>1, <1>5 DEF nb, p, e

LEMMA MoveValuesAfter ==
  ASSUME QueueInv, MoveValues
  PROVE  LET m == SecondPass(world, Cmd.of.ent, Buf.queue, Chain(Buf.queue, Top.pos)) IN
         /\ flush # <<>> /\ Top.step = "moves" /\ Top.pos <= Len(Buf.queue)
         /\ After([Buf EXCEPT !.queue = m.q], Top.pos, "exec", {})
<1> DEFINE e == Cmd.of.ent
           m == SecondPass(world, e, Buf.queue, Chain(Buf.queue, Top.pos))
           nb == [Buf EXCEPT !.queue = m.q]
           st == [stage EXCEPT ![Top.stage].buf[Top.buf].queue = m.q]
           none == {}
<1>1. flush # <<>> /\ Top.step = "moves"
  BY DEF MoveValues
<1>2. \E st1 : Stepped(e, world', st, nb, At(Top.pos, "exec", none), st1)
  BY MoveValuesIs
<1>3. Top.pos \in Nat \ {0} /\ Top.pos <= Len(Buf.queue)
  BY <1>1, TopIs DEF QueueInv
<1>4. none \in SUBSET Comps
  OBVIOUS
<1> HIDE DEF e, m, st, nb, none
<1>5. After(nb, Top.pos, "exec", none)
  BY <1>1, <1>2, <1>3, <1>4, SteppedAfter
<1> QED
  BY <1>1, <1>3, <1>5 DEF nb, m, e, none

LEMMA DiscardCmdAfter ==
  ASSUME QueueInv, DiscardCmd
  PROVE  After(Unused(Buf, Cmd), Top.pos + 1, "batch", {})
BY DiscardCmdIs, AfterQuiet DEF QueueInv

LEMMA ExecuteCmdAfter ==
  ASSUME QueueInv, ExecuteCmd
  PROVE  After(Unused(Buf, Cmd), Top.pos + 1, "batch", {})
<1> DEFINE e == Cmd.of.ent
           nb == Unused(Buf, Cmd)
           st == Invalidated
           none == {}
<1>1. flush # <<>> /\ \E st1 : Stepped(e, world', st, nb, At(Top.pos + 1, "batch", none), st1)
  BY ExecuteCmdIs
<1>2. Top.pos + 1 \in Nat \ {0}
  BY <1>1, TopIs DEF QueueInv
<1>3. none \in SUBSET Comps
  OBVIOUS
<1> HIDE DEF e, st, nb, none
<1>4. After(nb, Top.pos + 1, "batch", none)
  BY <1>1, <1>2, <1>3, SteppedAfter
<1> QED
  BY <1>4 DEF nb, none

LEMMA EnsureCmdAfter ==
  ASSUME QueueInv, EnsureCmd
  PROVE  After(Unused(Buf, Cmd), Top.pos, "write", {})
<1> DEFINE e == Cmd.of.ent
           nb == Unused(Buf, Cmd)
           st == Invalidated
           none == {}
<1>1. flush # <<>> /\ \E st1 : Stepped(e, world', st, nb, At(Top.pos, "write", none), st1)
  BY EnsureCmdIs
<1>2. Top.pos \in Nat \ {0}
  BY <1>1, TopIs DEF QueueInv
<1>3. none \in SUBSET Comps
  OBVIOUS
<1> HIDE DEF e, st, nb, none
<1>4. After(nb, Top.pos, "write", none)
  BY <1>1, <1>2, <1>3, SteppedAfter
<1> QED
  BY <1>4 DEF nb, none

LEMMA WriteCmdAfter ==
  ASSUME QueueInv, WriteOK(stage, flush), WriteCmd
  PROVE  After(Buf, Top.pos + 1, "batch", {})
<1>1. /\ flush # <<>> /\ stage' = stage /\ Moved(flush, flush', Top.pos + 1, "batch", {})
  BY WriteCmdIs
<1>2. Sound(world, stage, flush) /\ stage \in [Stages -> StageType]
  BY DEF QueueInv, Sound, SoundBut, Typed
<1>3. PutBuf(stage, stage', Top.stage, Top.buf, Buf)
  BY <1>1, <1>2, TopIs DEF PutBuf, Except
<1> QED
  BY <1>1, <1>2, <1>3, AfterQuiet

\* A command with a value stays one until the value is moved in.
LEMMA WriteAfter ==
  ASSUME WriteOK(stage, flush), NEW nb, NEW pos, NEW step, NEW added, After(nb, pos, step, added),
         step = "write" => nb.queue[pos].kind \in HasValue
  PROVE  WriteOK(stage', flush')
<1> DEFINE n == Len(flush)
<1> SUFFICES ASSUME NEW i \in DOMAIN flush', flush'[i].step = "write"
             PROVE  CmdAt(stage', flush'[i]).kind \in HasValue
  BY DEF WriteOK
<1>1. CASE i = n
  BY <1>1 DEF After, CmdAt
<1>2. CASE i \in DOMAIN flush \ {n}
  <2>1. flush'[i] = flush[i] /\ BufOf(stage', flush[i]) = BufOf(stage, flush[i])
    BY <1>2 DEF After
  <2> QED
    BY <1>2, <2>1 DEF WriteOK, CmdAt
<1>3. CASE i \notin DOMAIN flush
  BY <1>3 DEF After
<1> QED
  BY <1>1, <1>2, <1>3

LEMMA WriteBatch ==
  ASSUME AllBatch(flush')
  PROVE  WriteOK(stage', flush')
BY DEF AllBatch, WriteOK

WriteInv == WriteOK(stage, flush)

LEMMA CoreStep ==
  ASSUME QueueInv, WriteInv, [Next]_vars
  PROVE  QueueInv' /\ WriteInv'
<1>1. WriteOK(stage, flush)
  BY DEF WriteInv
<1>2. ASSUME NEW s \in Slots, New(s) PROVE QueueInv' /\ WriteInv'
  <2>1. UNCHANGED <<stage, flush>>
    BY <1>2 DEF New
  <2> QED
    BY <1>2, <2>1, NewIs DEF WriteInv
<1>3. ASSUME NEW s \in Stages, NEW o \in Operations(Ops), Defer(s, o) PROVE QueueInv' /\ WriteInv'
  <2>1. QueueInv' /\ flush' = flush /\ flush = <<>>
    BY <1>3, DeferIs DEF Idle
  <2>2. DOMAIN flush' = {}
    BY <2>1, Empty
  <2> QED
    BY <2>1, <2>2, WriteBatch DEF WriteInv, AllBatch
<1>4. ASSUME NEW o \in Operations(Ops), RunNow(o) PROVE QueueInv' /\ WriteInv'
  <2>1. UNCHANGED <<stage, flush>>
    BY <1>4 DEF RunNow
  <2> QED
    BY <1>4, <2>1, RunNowIs DEF WriteInv
<1>5. CASE DeferBegin \/ Suspend \/ Resume
  <2>1. QueueInv' /\ flush' = flush /\ flush = <<>>
    BY <1>5, NestIs DEF Idle, DeferBegin, Suspend, Resume
  <2>2. DOMAIN flush' = {}
    BY <2>1, Empty
  <2> QED
    BY <2>1, <2>2, WriteBatch DEF WriteInv, AllBatch
<1>6. CASE DeferEnd
  <2>1. QueueInv' /\ AllBatch(flush')
    BY <1>6, DeferEndIs, QuietFrames, Consts DEF Idle
  <2> QED
    BY <2>1, WriteBatch DEF WriteInv
<1>7. CASE ReadonlyBegin
  <2>1. QueueInv' /\ flush' = flush /\ flush = <<>>
    BY <1>7, ReadonlyBeginIs DEF Idle, ReadonlyBegin
  <2>2. DOMAIN flush' = {}
    BY <2>1, Empty
  <2> QED
    BY <2>1, <2>2, WriteBatch DEF WriteInv, AllBatch
<1>8. CASE ReadonlyEnd
  BY <1>8, ReadonlyEndIs DEF WriteInv
<1>9. CASE MergeStage
  <2>1. QueueInv' /\ AllBatch(flush')
    BY <1>9, MergeStageIs, QuietFrames
  <2> QED
    BY <2>1, WriteBatch DEF WriteInv
<1>10. CASE CommitBatch
  <2> DEFINE ch == Chain(Buf.queue, Top.pos)
             nb == [Buf EXCEPT !.queue = AfterFirst(Buf.queue, ch)]
             a == Plan(Buf.queue, ch, Has(world.ent, Cmd.of.ent)).added
  <2>1. QueueInv' /\ After(nb, Top.pos, "moves", a)
    BY <1>10, CommitBatchIs, CommitBatchAfter
  <2> HIDE DEF nb, a
  <2> QED
    BY <1>1, <2>1, WriteAfter DEF WriteInv
<1>11. CASE MoveValues
  <2> DEFINE nb == [Buf EXCEPT !.queue = SecondPass(world, Cmd.of.ent, Buf.queue, Chain(Buf.queue, Top.pos)).q]
  <2>1. QueueInv' /\ After(nb, Top.pos, "exec", {})
    BY <1>11, MoveValuesIs, MoveValuesAfter
  <2> HIDE DEF nb
  <2> QED
    BY <1>1, <2>1, WriteAfter DEF WriteInv
<1>12. CASE DiscardCmd
  <2>1. QueueInv' /\ After(Unused(Buf, Cmd), Top.pos + 1, "batch", {})
    BY <1>12, DiscardCmdIs, DiscardCmdAfter
  <2> QED
    BY <1>1, <2>1, WriteAfter DEF WriteInv
<1>13. CASE ExecuteCmd
  <2>1. QueueInv' /\ After(Unused(Buf, Cmd), Top.pos + 1, "batch", {})
    BY <1>13, ExecuteCmdIs, ExecuteCmdAfter
  <2> QED
    BY <1>1, <2>1, WriteAfter DEF WriteInv
<1>14. CASE EnsureCmd
  <2>1. /\ QueueInv' /\ After(Unused(Buf, Cmd), Top.pos, "write", {})
        /\ Cmd.kind \in HasValue /\ Top.pos <= Len(Buf.queue) /\ flush # <<>>
    BY <1>14, EnsureCmdIs, EnsureCmdAfter
  <2>2. Unused(Buf, Cmd).queue[Top.pos].kind \in HasValue
    <3>1. Unused(Buf, Cmd).queue = Buf.queue
      BY <2>1, InvalidatedIs DEF QueueInv
    <3> QED
      BY <2>1, <3>1 DEF Cmd
  <2> QED
    BY <1>1, <2>1, <2>2, WriteAfter DEF WriteInv
<1>15. CASE WriteCmd
  <2>1. QueueInv' /\ After(Buf, Top.pos + 1, "batch", {})
    BY <1>1, <1>15, WriteCmdIs, WriteCmdAfter
  <2> QED
    BY <1>1, <2>1, WriteAfter DEF WriteInv
<1>16. CASE FinishBuffer
  <2>1. QueueInv' /\ Under
    BY <1>16, FinishBufferIs, UnderFinish
  <2>2. WriteOK(stage', flush')
    BY <1>1, <2>1 DEF Under, WriteOK, CmdAt
  <2> QED
    BY <2>1, <2>2 DEF WriteInv
<1>17. CASE UNCHANGED vars
  <2>1. UNCHANGED <<world, stage, flush, readonly, merging, hooks>>
    BY <1>17 DEF vars
  <2>2. WriteInv'
    BY <2>1 DEF WriteInv
  <2>3. QueueInv'
    BY <2>1 DEF QueueInv, DeferOK, Idle
  <2> QED
    BY <2>2, <2>3
<1> QED
  BY <1>2, <1>3, <1>4, <1>5, <1>6, <1>7, <1>8, <1>9, <1>10, <1>11, <1>12, <1>13, <1>14, <1>15,
     <1>16, <1>17 DEF Next

\* In every reachable state the buffers, their links and entries, and the
\* flushes in progress are in order.
THEOREM QueuesStayInOrder == Spec => [](QueueInv /\ WriteInv)
<1>1. Init => QueueInv /\ WriteInv
  <2>1. SUFFICES ASSUME Init PROVE QueueInv /\ WriteInv
    OBVIOUS
  <2>2. QueueInv /\ flush = <<>>
    BY <2>1, InitIs
  <2>3. DOMAIN flush = {}
    BY <2>2, Empty
  <2>4. WriteInv
    BY <2>3 DEF WriteInv, WriteOK
  <2> QED
    BY <2>2, <2>4
<1>2. QueueInv /\ WriteInv /\ [Next]_vars => QueueInv' /\ WriteInv'
  BY CoreStep
<1> QED
  BY <1>1, <1>2, PTL DEF Spec

-----------------------------------------------------------------------------
(* What follows from the invariant of the queues.                          *)

LEMMA OrderedLinked ==
  ASSUME NEW q \in Seq(Cmds), Ordered(q)
  PROVE  Linked(q)
<1> DEFINE B == {i \in DOMAIN q : q[i].of.op # "none"}
           before(i) == {j \in B : j < i /\ q[j].of.ent = q[i].of.ent}
           after(i) == {j \in B : j > i /\ q[j].of.ent = q[i].of.ent}
<1>1. B = Links(q) /\ DOMAIN q = 1..Len(q) /\ Len(q) \in Nat /\ B \subseteq DOMAIN q
  BY LenProperties DEF Links
<1>2. \A i \in DOMAIN q : q[i].head \in BOOLEAN /\ i \in Nat
  BY <1>1, CmdIs, ElementOfSeq
<1> SUFFICES ASSUME NEW i \in DOMAIN q
             PROVE  IF i \notin B THEN q[i].next = 0 /\ ~ q[i].head
                    ELSE /\ q[i].head = (before(i) = {})
                         /\ IF after(i) = {} THEN q[i].next = 0
                            ELSE q[i].next = (IF before(i) = {} THEN -1 ELSE 1) * Min(after(i))
  BY DEF Linked
<1>3. /\ i \notin B => q[i].next = 0 /\ ~ q[i].head
      /\ i \in B => /\ q[i].head <=> First(q, i)
                    /\ \/ q[i].next = 0 /\ Final(q, i)
                       \/ \E j \in Links(q) : Follows(q, i, j) /\ q[i].next = IF First(q, i) THEN -j ELSE j
  BY <1>1 DEF Ordered
<1>4. before(i) = {} <=> First(q, i)
  BY <1>1 DEF First
<1>5. Final(q, i) => after(i) = {}
  BY <1>1 DEF Final
<1>6. ASSUME NEW j \in Links(q), Follows(q, i, j)
      PROVE  after(i) # {} /\ Min(after(i)) = j
  <2> DEFINE S == after(i)
  <2>1. S \in SUBSET Nat
    BY <1>1, <1>2
  <2>2. j \in S
    BY <1>1, <1>2, <1>6 DEF Follows
  <2>3. ASSUME NEW k \in S PROVE j <= k
    <3>1. k \in Links(q) /\ i < k /\ q[k].of.ent = q[i].of.ent /\ k \in Nat /\ j \in Nat /\ i \in Nat
      BY <1>1, <1>2
    <3>2. ~ (k < j)
      BY <1>6, <3>1 DEF Follows
    <3> QED
      BY <3>1, <3>2
  <2> HIDE DEF S
  <2>4. Min(S) = j /\ S # {}
    BY <2>1, <2>2, <2>3, MinIs
  <2> QED
    BY <2>4 DEF S
<1> HIDE DEF B, before, after
<1>7. CASE i \notin B
  BY <1>3, <1>7
<1>8. CASE i \in B
  <2>1. q[i].head = (before(i) = {})
    <3>1. q[i].head <=> before(i) = {}
      BY <1>3, <1>4, <1>8
    <3>2. q[i].head \in BOOLEAN
      BY <1>2
    <3> QED
      BY <3>1, <3>2
  <2>2. CASE q[i].next = 0 /\ Final(q, i)
    BY <1>5, <1>8, <2>1, <2>2
  <2>3. CASE \E j \in Links(q) : Follows(q, i, j) /\ q[i].next = IF First(q, i) THEN -j ELSE j
    <3>1. PICK j \in Links(q) : Follows(q, i, j) /\ q[i].next = IF First(q, i) THEN -j ELSE j
      BY <2>3
    <3>2. after(i) # {} /\ Min(after(i)) = j
      BY <1>6, <3>1
    <3>3. j \in Nat
      BY <1>1, <1>2
    <3>4. q[i].next = (IF before(i) = {} THEN -1 ELSE 1) * Min(after(i))
      BY <1>4, <3>1, <3>2, <3>3
    <3> QED
      BY <1>8, <2>1, <3>2, <3>4
  <2> QED
    BY <1>3, <1>8, <2>2, <2>3
<1> QED
  BY <1>7, <1>8

LEMMA TypesHold ==
  ASSUME QueueInv
  PROVE  TypeOK
<1>1. /\ world \in WorldType /\ stage \in [Stages -> StageType] /\ flush \in Seq(FrameType)
      /\ readonly \in BOOLEAN /\ merging \in Seq(Stages) /\ hooks \in 0..HookBudget
  BY DEF QueueInv, Sound, SoundBut, Typed, DeferOK
<1>2. /\ world.ent \in [Slots -> [alive : BOOLEAN, gen : 0..MaxGen,
                                  val : [Comps -> Values \cup {Default, None}]]]
      /\ world.belief \in [Slots -> SUBSET Comps] /\ world.held \in Int
  BY <1>1, WorldIs DEF EntType, Vals
<1>3. ASSUME NEW s \in Stages
      PROVE  /\ stage[s].defer \in -MaxDefer .. MaxDefer /\ stage[s].cmd \in 0..1
             /\ \A b \in 0..1 :
                  LET buf == stage[s].buf[b] IN
                  /\ \A i \in DOMAIN buf.queue : buf.queue[i] \in CommandType
                  /\ buf.entry \in [Slots -> [first : Nat, last : Nat]]
  <2>1. stage[s].defer \in -MaxDefer .. MaxDefer /\ stage[s].cmd \in 0..1
    BY <1>1, StageIs
  <2>2. ASSUME NEW b \in 0..1
        PROVE  /\ \A i \in DOMAIN stage[s].buf[b].queue : stage[s].buf[b].queue[i] \in CommandType
               /\ stage[s].buf[b].entry \in [Slots -> [first : Nat, last : Nat]]
    <3>1. stage[s].buf[b] \in BufType
      BY <1>1, StageIs
    <3>2. /\ \A i \in DOMAIN stage[s].buf[b].queue : stage[s].buf[b].queue[i] \in Cmds
          /\ stage[s].buf[b].entry \in [Slots -> Entry]
      BY <3>1, BufIs
    <3> QED
      BY <3>2 DEF Cmds, Entry
  <2> QED
    BY <2>1, <2>2
<1>4. \A i \in DOMAIN flush :
        flush[i] \in [stage : Stages, buf : 0..1, pos : Nat \ {0},
                      step : {"batch", "moves", "exec", "write"}, added : SUBSET Comps]
  BY <1>1, FramesAre DEF FrameType
<1>5. DOMAIN stage = Stages
  BY <1>1
<1> QED
  BY <1>1, <1>2, <1>3, <1>4, <1>5 DEF TypeOK

\* The buffers are well formed, and the commands of one entity in one buffer
\* are linked in the order they were issued (flecs_cmd_batch_for_entity walks
\* these links).
THEOREM ChainsStayLinked == Spec => []ChainsOK
<1>1. QueueInv => ChainsOK
  <2> SUFFICES ASSUME QueueInv PROVE ChainsOK
    OBVIOUS
  <2>1. TypeOK
    BY TypesHold
  <2>2. ASSUME NEW s \in Stages, NEW b \in 0..1 PROVE Linked(stage[s].buf[b].queue)
    <3>1. /\ LinksOK(world, stage, flush) /\ stage \in [Stages -> StageType]
      BY DEF QueueInv, Sound, SoundBut, Typed
    <3>2. stage[s].buf[b].queue \in Seq(Cmds) /\ Ordered(stage[s].buf[b].queue)
      BY <3>1, StageIs, BufIs DEF LinksOK
    <3> QED
      BY <3>2, OrderedLinked
  <2> QED
    BY <2>1, <2>2 DEF ChainsOK
<1> QED
  BY <1>1, QueuesStayInOrder, PTL

\* Between flushes there is no command left in a buffer nobody fills or flushes,
\* and no entry that the next command could be linked to by mistake.
THEOREM NothingIsLeftBehind == Spec => []NothingLeftBehind
<1>1. QueueInv => NothingLeftBehind
  <2> SUFFICES ASSUME QueueInv, Idle, NEW s \in Stages, NEW b \in 0..1
               PROVE  LET buf == stage[s].buf[b] IN
                      /\ (stage[s].defer = 0 \/ b # stage[s].cmd) => buf.queue = <<>>
                      /\ buf.queue = <<>> => \A sl \in Slots : buf.entry[sl].first = 0
    BY DEF NothingLeftBehind
  <2>1. BuffersOK(stage, flush, {}) /\ EntriesOK(stage, flush)
    BY DEF QueueInv, Sound, SoundBut
  <2>2. DOMAIN flush = {}
    BY Empty DEF Idle
  <2>3. ~ Flushed(flush, s, b) /\ ~ InFlush(flush, Main)
    BY <2>2 DEF Flushed, InFlush
  <2>4. stage[s].buf[b].queue # <<>> => b = stage[s].cmd /\ stage[s].defer # 0
    BY <2>1, <2>3 DEF BuffersOK, Filled
  <2>5. ASSUME stage[s].buf[b].queue = <<>>, NEW sl \in Slots
        PROVE  stage[s].buf[b].entry[sl].first = 0
    <3>1. DOMAIN stage[s].buf[b].queue = {}
      BY <2>5, Empty
    <3>2. ~ HeadAhead(stage[s].buf[b].queue, flush, s, b, sl)
      BY <3>1 DEF HeadAhead
    <3> QED
      BY <2>1, <3>2 DEF EntriesOK
  <2> QED
    BY <2>4, <2>5
<1> QED
  BY <1>1, QueuesStayInOrder, PTL

-----------------------------------------------------------------------------
(* What the observers know.                                                *)

\* A batch in slot sl has added c and is still to emit the event.
Pending(st, fl, sl, c) ==
  \E i \in DOMAIN fl : fl[i].step = "moves" /\ SlotAt(st, fl[i]) = sl /\ c \in fl[i].added

LEMMA KnownIs ==
  ASSUME NEW w, NEW st, NEW fl
  PROVE  KnownBut(w, st, fl) <=>
           \A sl \in Slots : /\ w.belief[sl] \subseteq Holds(w, sl)
                             /\ \A c \in Holds(w, sl) \ w.belief[sl] : Pending(st, fl, sl, c)
BY DEF KnownBut, Holds, Pending

LEMMA PendingAfter ==
  ASSUME NEW nb, NEW pos, NEW step, NEW added, After(nb, pos, step, added),
         NEW sl, NEW c, Pending(stage, flush, sl, c),
         ~ (Top.step = "moves" /\ SlotAt(stage, Top) = sl /\ c \in Top.added)
  PROVE  Pending(stage', flush', sl, c)
<1>1. PICK i \in DOMAIN flush : flush[i].step = "moves" /\ SlotAt(stage, flush[i]) = sl /\ c \in flush[i].added
  BY DEF Pending
<1>2. i # Len(flush)
  BY <1>1 DEF Top
<1>3. i \in DOMAIN flush' /\ flush'[i] = flush[i] /\ BufOf(stage', flush[i]) = BufOf(stage, flush[i])
  BY <1>1, <1>2 DEF After
<1> QED
  BY <1>1, <1>3 DEF Pending, SlotAt

LEMMA KnownAfter ==
  ASSUME KnownBut(world, stage, flush), Told(world, world'), Top.step # "moves",
         NEW nb, NEW pos, NEW step, NEW added, After(nb, pos, step, added)
  PROVE  KnownBut(world', stage', flush')
<1> SUFFICES ASSUME NEW sl \in Slots
             PROVE  /\ world'.belief[sl] \subseteq Holds(world', sl)
                    /\ \A c \in Holds(world', sl) \ world'.belief[sl] : Pending(stage', flush', sl, c)
  BY KnownIs
<1>1. /\ world.belief[sl] \subseteq Holds(world, sl)
      /\ \A c \in Holds(world, sl) \ world.belief[sl] : Pending(stage, flush, sl, c)
  BY KnownIs
<1>2. /\ world'.belief[sl] \subseteq Holds(world', sl)
      /\ Holds(world', sl) \ world'.belief[sl] \subseteq Holds(world, sl) \ world.belief[sl]
  BY <1>1 DEF Told
<1>3. \A c : Pending(stage, flush, sl, c) => Pending(stage', flush', sl, c)
  BY PendingAfter
<1> QED
  BY <1>1, <1>2, <1>3

LEMMA KnownUnder ==
  ASSUME KnownBut(world, stage, flush), world' = world, Top.step # "moves", Under
  PROVE  KnownBut(world', stage', flush')
<1> SUFFICES ASSUME NEW sl \in Slots
             PROVE  /\ world'.belief[sl] \subseteq Holds(world', sl)
                    /\ \A c \in Holds(world', sl) \ world'.belief[sl] : Pending(stage', flush', sl, c)
  BY KnownIs
<1>1. /\ world.belief[sl] \subseteq Holds(world, sl)
      /\ \A c \in Holds(world, sl) \ world.belief[sl] : Pending(stage, flush, sl, c)
  BY KnownIs
<1>2. ASSUME NEW c, Pending(stage, flush, sl, c) PROVE Pending(stage', flush', sl, c)
  <2>1. PICK i \in DOMAIN flush : flush[i].step = "moves" /\ SlotAt(stage, flush[i]) = sl /\ c \in flush[i].added
    BY <1>2 DEF Pending
  <2>2. i # Len(flush)
    BY <2>1 DEF Top
  <2>3. i \in DOMAIN flush' /\ flush'[i] = flush[i] /\ BufOf(stage', flush[i]) = BufOf(stage, flush[i])
    BY <2>1, <2>2 DEF Under
  <2> QED
    BY <2>1, <2>3 DEF Pending, SlotAt
<1> QED
  BY <1>1, <1>2

LEMMA KnownQuiet ==
  ASSUME KnownBut(world, stage, flush), Told(world, world'), DOMAIN flush = {}
  PROVE  KnownBut(world', stage', flush')
<1> SUFFICES ASSUME NEW sl \in Slots
             PROVE  /\ world'.belief[sl] \subseteq Holds(world', sl)
                    /\ \A c \in Holds(world', sl) \ world'.belief[sl] : Pending(stage', flush', sl, c)
  BY KnownIs
<1>1. /\ world.belief[sl] \subseteq Holds(world, sl)
      /\ \A c \in Holds(world, sl) \ world.belief[sl] : Pending(stage, flush, sl, c)
  BY KnownIs
<1>2. \A c : ~ Pending(stage, flush, sl, c)
  BY DEF Pending
<1>3. /\ world'.belief[sl] \subseteq Holds(world', sl)
      /\ Holds(world', sl) \ world'.belief[sl] \subseteq Holds(world, sl) \ world.belief[sl]
  BY <1>1 DEF Told
<1> QED
  BY <1>1, <1>2, <1>3

LEMMA OverwrittenTold ==
  ASSUME NEW w \in WorldType, NEW v, NEW e \in Entities, NEW c \in Has(w.ent, e), NEW dropped,
         Overwritten(w, v, e, c, dropped)
  PROVE  Told(w, v)
<1>1. v.belief = w.belief /\ Has(v.ent, e) = Has(w.ent, e) /\ e[1] \in Slots
  BY EntityIs DEF Overwritten
<1>2. \A sl \in Slots \ {e[1]} : v.ent[sl] = w.ent[sl]
  BY DEF Overwritten, Others
<1>3. Holds(v, e[1]) = Holds(w, e[1])
  BY <1>1 DEF Has, Holds
<1>4. \A sl \in Slots : Holds(v, sl) = Holds(w, sl)
  BY <1>2, <1>3 DEF Holds
<1> QED
  BY <1>1, <1>4 DEF Told

LEMMA WroteTold ==
  ASSUME NEW w \in WorldType, NEW v, NEW e \in Entities, NEW c \in Comps, NEW cmd,
         Wrote(w, v, e, c, cmd)
  PROVE  Told(w, v)
<1>1. CASE c \in Has(w.ent, e) /\ Overwritten(w, v, e, c, TRUE)
  BY <1>1, OverwrittenTold
<1>2. CASE v = w
  BY <1>2, SameEnt
<1>3. CASE \E m \in WorldType, dropped \in BOOLEAN :
             Committed(w, m, e, Has(w.ent, e) \cup {c}) /\ Overwritten(m, v, e, c, dropped)
  <2> DEFINE T == Has(w.ent, e) \cup {c}
  <2>1. PICK m \in WorldType, dropped \in BOOLEAN : Committed(w, m, e, T) /\ Overwritten(m, v, e, c, dropped)
    BY <1>3
  <2>2. T \in SUBSET Comps /\ c \in T
    BY HasIs
  <2> HIDE DEF T
  <2>3. Told(w, m) /\ c \in Has(m.ent, e)
    BY <2>1, <2>2, CommittedIs DEF Committed
  <2>4. Told(m, v)
    BY <2>1, <2>3, OverwrittenTold
  <2> QED
    BY <2>3, <2>4, ToldTwice
<1> QED
  BY <1>1, <1>2, <1>3 DEF Wrote

\* A batch tells the observers what it removed, and leaves what it added for
\* after the second pass.
LEMMA CommitKnown ==
  ASSUME QueueInv, BeliefInv, CommitBatch
  PROVE  BeliefInv'
<1> DEFINE e == Cmd.of.ent
           ch == Chain(Buf.queue, Top.pos)
           had == Has(world.ent, e)
           p == Plan(Buf.queue, ch, had)
           q2 == AfterFirst(Buf.queue, ch)
           nb == [Buf EXCEPT !.queue = q2]
           sl == e[1]
           n == Len(flush)
<1>1. /\ Batched2(e, world', p) /\ flush # <<>> /\ Top.step = "batch" /\ Top.pos <= Len(Buf.queue)
      /\ After(nb, Top.pos, "moves", p.added)
  BY CommitBatchIs, CommitBatchAfter
<1>2. /\ Cmd \in Cmds /\ e \in Entities /\ sl \in Slots /\ Top.pos \in 1..Len(Buf.queue)
      /\ Cmd = Buf.queue[Top.pos]
  <2>1. /\ Top.pos \in DOMAIN Buf.queue /\ Cmd \in Cmds /\ e \in Entities /\ sl \in Slots
        /\ Buf \in BufType /\ Cmd = Buf.queue[Top.pos]
    BY <1>1, TopIs DEF QueueInv
  <2> QED
    BY <2>1, BufIs
<1>3. /\ p.table \in SUBSET Comps /\ had \ p.removed \subseteq p.table
      /\ p.table \subseteq (had \ p.removed) \cup p.added
  BY PlanIs, HasIs
<1>4. nb.queue[Top.pos].of.ent = e
  <2>1. Spent(Buf.queue, q2)
    <3>1. Buf.queue \in Seq(Cmds)
      BY <1>1, TopIs, BufIs DEF QueueInv
    <3> QED
      BY <3>1, AfterFirstIs
  <2>2. nb.queue = q2
    <3>1. Buf \in [queue : {Buf.queue}, entry : {Buf.entry}]
      BY <1>1, TopIs, BufIs DEF QueueInv
    <3> QED
      BY <3>1
  <2> HIDE DEF q2, nb
  <2> QED
    BY <1>2, <2>1, <2>2 DEF Spent
<1> HIDE DEF p, q2, nb, e, ch
<1>5. KnownBut(world, stage, flush)
  BY DEF BeliefInv
<1>7. \A t, c : Pending(stage, flush, t, c) => Pending(stage', flush', t, c)
  BY <1>1, PendingAfter
<1>8. \A c \in p.added : Pending(stage', flush', sl, c)
  <2> DEFINE g == flush'[n]
  <2>1. n \in DOMAIN flush' /\ g.step = "moves" /\ g.added = p.added /\ g.pos = Top.pos /\ BufOf(stage', g) = nb
    BY <1>1 DEF After
  <2>2. SlotAt(stage', g) = sl
    BY <1>4, <2>1 DEF SlotAt
  <2> QED
    BY <2>1, <2>2 DEF Pending
<1> SUFFICES ASSUME NEW t \in Slots
             PROVE  /\ world'.belief[t] \subseteq Holds(world', t)
                    /\ \A c \in Holds(world', t) \ world'.belief[t] : Pending(stage', flush', t, c)
  BY KnownIs DEF BeliefInv
<1>9. /\ world.belief[t] \subseteq Holds(world, t)
      /\ \A c \in Holds(world, t) \ world.belief[t] : Pending(stage, flush, t, c)
  BY <1>5, KnownIs
<1>10. CASE t # sl
  <2>1. world'.ent[t] = world.ent[t] /\ world'.belief[t] = world.belief[t]
    BY <1>1, <1>10 DEF Batched2, Others
  <2>2. Holds(world', t) = Holds(world, t)
    BY <2>1 DEF Holds
  <2> QED
    BY <1>7, <1>9, <2>1, <2>2
<1>11. CASE t = sl
  <2> DEFINE gone == IF p.table # had THEN p.removed ELSE {}
  <2>1. Holds(world', sl) = p.table /\ Holds(world, sl) = had
    BY <1>1 DEF Batched2, Has, Holds
  <2>2. world'.belief[sl] = world.belief[sl] \ gone
    BY <1>1 DEF Batched2
  <2>3. had \ gone \subseteq p.table
    BY <1>3
  <2>4. \A c \in p.table : c \in p.added \/ (c \in had /\ c \notin gone)
    BY <1>3
  <2> HIDE DEF gone, had
  <2> QED
    BY <1>7, <1>8, <1>9, <1>11, <2>1, <2>2, <2>3, <2>4
<1> QED
  BY <1>10, <1>11

\* The second pass ends with the events for what the batch added.
LEMMA MoveKnown ==
  ASSUME QueueInv, BeliefInv, MoveValues
  PROVE  BeliefInv'
<1> DEFINE e == Cmd.of.ent
           m == SecondPass(world, e, Buf.queue, Chain(Buf.queue, Top.pos))
           nb == [Buf EXCEPT !.queue = m.q]
           sl == e[1]
           none == {}
<1>1. /\ Told2(e, world', Top.added) /\ flush # <<>> /\ Top.step = "moves" /\ Top.pos <= Len(Buf.queue)
      /\ After(nb, Top.pos, "exec", none)
  BY MoveValuesIs, MoveValuesAfter
<1>2. /\ e \in Entities /\ sl \in Slots /\ Cmd = Buf.queue[Top.pos] /\ Buf = BufOf(stage, Top)
  BY <1>1, TopIs DEF QueueInv
<1>3. SlotAt(stage, Top) = sl
  BY <1>2 DEF SlotAt
<1> HIDE DEF nb, e, none
<1>4. KnownBut(world, stage, flush)
  BY DEF BeliefInv
<1>5. \A t, c : Pending(stage, flush, t, c) /\ ~ (t = sl /\ c \in Top.added) => Pending(stage', flush', t, c)
  BY <1>1, <1>3, PendingAfter
<1> SUFFICES ASSUME NEW t \in Slots
             PROVE  /\ world'.belief[t] \subseteq Holds(world', t)
                    /\ \A c \in Holds(world', t) \ world'.belief[t] : Pending(stage', flush', t, c)
  BY KnownIs DEF BeliefInv
<1>6. /\ world.belief[t] \subseteq Holds(world, t)
      /\ \A c \in Holds(world, t) \ world.belief[t] : Pending(stage, flush, t, c)
  BY <1>4, KnownIs
<1>7. CASE t # sl
  <2>1. world'.ent[t] = world.ent[t] /\ world'.belief[t] = world.belief[t]
    BY <1>1, <1>7 DEF Told2, Others
  <2>2. Holds(world', t) = Holds(world, t)
    BY <2>1 DEF Holds
  <2> QED
    BY <1>5, <1>6, <1>7, <2>1, <2>2
<1>8. CASE t = sl
  <2>1. Holds(world', sl) = Holds(world, sl) /\ Holds(world, sl) = Has(world.ent, e)
    BY <1>1 DEF Told2, Has, Holds
  <2>2. world'.belief[sl] = world.belief[sl] \cup (Top.added \cap Has(world.ent, e))
    BY <1>1 DEF Told2
  <2> QED
    BY <1>5, <1>6, <1>8, <2>1, <2>2
<1> QED
  BY <1>7, <1>8

LEMMA BeliefStep ==
  ASSUME QueueInv, WriteInv, BeliefInv, [Next]_vars
  PROVE  BeliefInv'
<1>1. WriteOK(stage, flush) /\ KnownBut(world, stage, flush) /\ world \in WorldType /\ Sound(world, stage, flush)
  BY DEF WriteInv, BeliefInv, QueueInv, Sound, SoundBut, Typed
<1>2. ASSUME flush = <<>>, Told(world, world') PROVE BeliefInv'
  <2>1. DOMAIN flush = {}
    BY <1>2, Empty
  <2> QED
    BY <1>1, <1>2, <2>1, KnownQuiet DEF BeliefInv
<1>3. ASSUME world' = world PROVE Told(world, world')
  BY <1>1, <1>3, SameEnt
<1>4. ASSUME NEW s \in Slots, New(s) PROVE BeliefInv'
  <2>1. flush = <<>> /\ Born(world, world', s)
    BY <1>4, NewIs DEF New, Idle
  <2>2. \A sl \in Slots : Holds(world', sl) = Holds(world, sl) /\ world'.belief[sl] = world.belief[sl]
    BY <2>1 DEF Born, Holds
  <2>3. Told(world, world')
    BY <2>2 DEF Told
  <2> QED
    BY <1>2, <2>1, <2>3
<1>5. ASSUME NEW s \in Stages, NEW o \in Operations(Ops), Defer(s, o) PROVE BeliefInv'
  <2>1. flush = <<>> /\ world' = WrittenThrough(world, o)
    BY <1>5 DEF Defer, Idle
  <2>2. Told(world, world')
    BY <1>1, <2>1, WrittenThroughIs
  <2> QED
    BY <1>2, <2>1, <2>2
<1>6. ASSUME NEW o \in Operations(Ops), RunNow(o) PROVE BeliefInv'
  <2>1. flush = <<>> /\ world' = Direct(world, o)
    BY <1>6 DEF RunNow, Idle
  <2>2. Told(world, world')
    BY <1>1, <2>1, DirectIs
  <2> QED
    BY <1>2, <2>1, <2>2
<1>7. CASE DeferBegin \/ Suspend \/ Resume \/ DeferEnd \/ ReadonlyBegin \/ ReadonlyEnd \/ MergeStage
  <2>1. flush = <<>> /\ world' = world
    BY <1>7 DEF DeferBegin, Suspend, Resume, DeferEnd, ReadonlyBegin, ReadonlyEnd, MergeStage, Idle
  <2> QED
    BY <1>2, <1>3, <2>1
<1>8. CASE CommitBatch
  BY <1>8, CommitKnown
<1>9. CASE MoveValues
  BY <1>9, MoveKnown
<1>10. CASE DiscardCmd
  <2>1. /\ Top.step # "moves" /\ After(Unused(Buf, Cmd), Top.pos + 1, "batch", {})
        /\ world' \in WorldType /\ world'.ent = world.ent /\ world'.belief = world.belief
    BY <1>10, DiscardCmdIs, DiscardCmdAfter
  <2>2. Told(world, world')
    BY <1>1, <2>1, SameEnt
  <2> QED
    BY <1>1, <2>1, <2>2, KnownAfter DEF BeliefInv
<1>11. CASE ExecuteCmd
  <2>1. /\ Top.step # "moves" /\ After(Unused(Buf, Cmd), Top.pos + 1, "batch", {})
        /\ world' = Effect(Cmd) /\ Cmd.kind \notin HasValue \cup {"Skip"}
        /\ flush # <<>> /\ Top.pos <= Len(Buf.queue)
    BY <1>11, ExecuteCmdIs, ExecuteCmdAfter
  <2>2. Cmd \in Cmds
    BY <1>1, <2>1, TopIs
  <2>3. Told(world, world')
    BY <1>1, <2>1, <2>2, EffectIs
  <2> QED
    BY <1>1, <2>1, <2>3, KnownAfter DEF BeliefInv
<1>12. CASE EnsureCmd
  <2> DEFINE T == Has(world.ent, Cmd.of.ent) \cup {Cmd.of.comp}
             e == Cmd.of.ent
  <2>1. /\ Top.step # "moves" /\ After(Unused(Buf, Cmd), Top.pos, "write", {})
        /\ Committed(world, world', e, T) /\ Cmd.of.comp \in Comps
        /\ flush # <<>> /\ Top.pos <= Len(Buf.queue)
    BY <1>12, EnsureCmdIs, EnsureCmdAfter
  <2>2. e \in Entities
    BY <1>1, <2>1, TopIs
  <2>3. T \in SUBSET Comps
    BY <2>1, HasIs
  <2> HIDE DEF T, e
  <2>4. Told(world, world')
    BY <1>1, <2>1, <2>2, <2>3, CommittedIs
  <2> QED
    BY <1>1, <2>1, <2>4, KnownAfter DEF BeliefInv
<1>13. CASE WriteCmd
  <2> DEFINE e == Cmd.of.ent
             c == Cmd.of.comp
             cmd == Cmd
  <2>1. /\ flush # <<>> /\ Top.step = "write" /\ Top.pos <= Len(Buf.queue) /\ c \in Comps
        /\ After(Buf, Top.pos + 1, "batch", {}) /\ Wrote(world, world', e, c, cmd)
    BY <1>1, <1>13, WriteCmdIs, WriteCmdAfter
  <2>2. e \in Entities
    BY <1>1, <2>1, TopIs
  <2> HIDE DEF e, c, cmd
  <2>3. Told(world, world')
    BY <1>1, <2>1, <2>2, WroteTold
  <2> QED
    BY <1>1, <2>1, <2>3, KnownAfter DEF BeliefInv
<1>14. CASE FinishBuffer
  <2>1. Under /\ world' = world /\ flush # <<>> /\ Top.pos > Len(Buf.queue)
    BY <1>14, UnderFinish, FinishBufferIs
  <2>2. Top.step # "moves"
    <3>1. /\ Top.pos \in Nat \ {0} /\ Buf \in BufType
          /\ Top.step # "batch" => Top.pos <= Len(Buf.queue)
      BY <1>1, <2>1, TopIs
    <3>2. Len(Buf.queue) \in Nat /\ Top.pos \in Nat
      BY <3>1, BufIs
    <3> QED
      BY <2>1, <3>1, <3>2
  <2> QED
    BY <1>1, <2>1, <2>2, KnownUnder DEF BeliefInv
<1>15. CASE UNCHANGED vars
  <2>1. UNCHANGED <<world, stage, flush>>
    BY <1>15 DEF vars
  <2> QED
    BY <2>1 DEF BeliefInv
<1> QED
  BY <1>4, <1>5, <1>6, <1>7, <1>8, <1>9, <1>10, <1>11, <1>12, <1>13, <1>14, <1>15 DEF Next

\* In every state the application can see, an observer that adds up the OnAdd
\* and OnRemove events of an entity has exactly its components.
THEOREM ObserversKeepUp == Spec => []ObserversAgree
<1>1. Init => BeliefInv
  <2>1. SUFFICES ASSUME Init PROVE BeliefInv
    OBVIOUS
  <2>2. \A sl \in Slots : world.belief[sl] = {} /\ \A c \in Comps : world.ent[sl].val[c] = None
    BY <2>1, InitIs
  <2> QED
    BY <2>2 DEF BeliefInv, KnownBut
<1>2. QueueInv /\ WriteInv /\ BeliefInv /\ [Next]_vars => BeliefInv'
  BY BeliefStep
<1>3. BeliefInv => ObserversAgree
  <2> SUFFICES ASSUME BeliefInv, Idle, NEW sl \in Slots
               PROVE  world.belief[sl] = {c \in Comps : world.ent[sl].val[c] # None}
    BY DEF ObserversAgree
  <2>1. DOMAIN flush = {}
    BY Empty DEF Idle
  <2>2. /\ world.belief[sl] \subseteq Holds(world, sl)
        /\ \A c \in Holds(world, sl) \ world.belief[sl] : Pending(stage, flush, sl, c)
    BY KnownIs DEF BeliefInv
  <2>3. \A c : ~ Pending(stage, flush, sl, c)
    BY <2>1 DEF Pending
  <2> QED
    BY <2>2, <2>3 DEF Holds
<1> QED
  BY <1>1, <1>2, <1>3, QueuesStayInOrder, PTL DEF Spec

-----------------------------------------------------------------------------
(* What a flush finds when it comes back to a command.                     *)

TargetsAlive(w, st, fl) ==
  \A i \in DOMAIN fl : fl[i].step \in {"moves", "write"} => Alive(w.ent, CmdAt(st, fl[i]).of.ent)

\* Main is not given deletes.
NoDelete(st) ==
  \A b \in 0..1 : \A k \in DOMAIN st[Main].buf[b].queue : st[Main].buf[b].queue[k].kind # "Delete"
SparesOuter(st, fl) == fl # <<>> /\ fl[1].stage # Main => NoDelete(st)

LEMMA TargetIs == TargetInv <=> TargetsAlive(world, stage, flush) /\ SparesOuter(stage, flush)
BY DEF TargetInv, TargetsAlive, CmdAt, SparesOuter, NoDelete

LEMMA SameAlive ==
  ASSUME NEW w, NEW v, SameLife(w, v), NEW e, e[1] \in Slots, Alive(w.ent, e)
  PROVE  Alive(v.ent, e)
BY DEF SameLife, Alive

\* The command a flush is in the middle of is there.
LEMMA CmdAtIs ==
  ASSUME NEW w, NEW st, NEW fl, Sound(w, st, fl), NEW i \in DOMAIN fl, fl[i].step # "batch"
  PROVE  CmdAt(st, fl[i]) \in Cmds /\ CmdAt(st, fl[i]).of.ent \in Entities /\ CmdAt(st, fl[i]).of.ent[1] \in Slots
<1>1. FramesOK(st, fl) /\ fl \in Seq(FrameType) /\ st \in [Stages -> StageType]
  BY DEF Sound, SoundBut, Typed
<1>2. /\ fl[i].stage \in Stages /\ fl[i].buf \in 0..1 /\ fl[i].pos \in Nat \ {0}
      /\ fl[i].pos <= Len(BufOf(st, fl[i]).queue)
  BY <1>1, FramesAre DEF FramesOK
<1>3. BufOf(st, fl[i]) \in BufType
  BY <1>1, <1>2, StageIs DEF BufOf
<1>4. CmdAt(st, fl[i]) \in Cmds
  <2> DEFINE n == Len(BufOf(st, fl[i]).queue)
             k == fl[i].pos
  <2>1. n \in Nat /\ \A j \in 1..n : BufOf(st, fl[i]).queue[j] \in Cmds
    BY <1>3, BufIs
  <2>2. k \in Nat \ {0} /\ k <= n
    BY <1>2
  <2> HIDE DEF n, k
  <2>3. k \in 1..n
    BY <2>1, <2>2
  <2>4. BufOf(st, fl[i]).queue[k] \in Cmds
    BY <2>1, <2>3
  <2> QED
    BY <2>4 DEF CmdAt, k
<1> QED
  BY <1>4, CmdIs, EntityIs

\* The entities of the flushes under the top stay alive.
LEMMA TargetsAfter ==
  ASSUME Sound(world, stage, flush), TargetsAlive(world, stage, flush),
         NEW nb, NEW pos, NEW step, NEW added, After(nb, pos, step, added),
         SameLife(world, world') \/ Len(flush) = 1,
         step \in {"moves", "write"} => Alive(world'.ent, nb.queue[pos].of.ent)
  PROVE  TargetsAlive(world', stage', flush')
<1> DEFINE n == Len(flush)
<1> SUFFICES ASSUME NEW i \in DOMAIN flush', flush'[i].step \in {"moves", "write"}
             PROVE  Alive(world'.ent, CmdAt(stage', flush'[i]).of.ent)
  BY DEF TargetsAlive
<1>1. CASE i = n
  BY <1>1 DEF After, CmdAt
<1>2. CASE i \in DOMAIN flush \ {n}
  <2>1. flush'[i] = flush[i] /\ CmdAt(stage', flush'[i]) = CmdAt(stage, flush[i])
    BY <1>2 DEF After, CmdAt
  <2>2. Len(flush) # 1
    <3>1. DOMAIN flush = 1..Len(flush)
      BY FramesAre DEF Sound, SoundBut, Typed
    <3> QED
      BY <1>2, <3>1
  <2>3. Alive(world.ent, CmdAt(stage, flush[i]).of.ent)
    BY <1>2, <2>1 DEF TargetsAlive
  <2>4. CmdAt(stage, flush[i]).of.ent[1] \in Slots
    BY <1>2, <2>1, CmdAtIs
  <2> QED
    BY <2>1, <2>2, <2>3, <2>4, SameAlive
<1>3. CASE i \notin DOMAIN flush
  BY <1>3 DEF After
<1> QED
  BY <1>1, <1>2, <1>3

LEMMA NoDeletePut ==
  ASSUME NEW st, NoDelete(st), NEW t \in Stages, NEW b \in 0..1, NEW nb, NEW v,
         PutBuf(st, v, t, b, nb),
         t = Main => \A k \in DOMAIN nb.queue : nb.queue[k].kind # "Delete"
  PROVE  NoDelete(v)
<1>1. Main \in Stages
  BY Consts
<1> SUFFICES ASSUME NEW c \in 0..1, NEW k \in DOMAIN v[Main].buf[c].queue
             PROVE  v[Main].buf[c].queue[k].kind # "Delete"
  BY DEF NoDelete
<1>2. CASE t # Main
  <2>1. v[Main] = st[Main]
    BY <1>1, <1>2 DEF PutBuf, Except
  <2> QED
    BY <2>1 DEF NoDelete
<1>3. CASE t = Main
  <2>1. c = b \/ c = 1 - b
    OBVIOUS
  <2>2. v[Main].buf[b] = nb /\ v[Main].buf[1 - b] = st[Main].buf[1 - b]
    BY <1>3 DEF PutBuf
  <2>3. CASE c = b
    BY <1>3, <2>2, <2>3
  <2>4. CASE c = 1 - b
    BY <2>2, <2>4 DEF NoDelete
  <2> QED
    BY <2>1, <2>3, <2>4
<1> QED
  BY <1>2, <1>3

LEMMA NoDeleteObserved ==
  ASSUME "delete" \notin HookOps, NEW st \in [Stages -> StageType], NoDelete(st), NEW st1, NEW ent, NEW e,
         Observed(st, st1, ent, e)
  PROVE  NoDelete(st1)
<1>1. CASE st1 = st
  BY <1>1
<1>2. ASSUME NEW o \in Operations(HookOps), RecordedAs(st, st1, ent, Main, o)
      PROVE  NoDelete(st1)
  <2> DEFINE b == st[Main].cmd
             old == st[Main].buf[b]
             nb == st1[Main].buf[b]
             n == Len(old.queue)
             cmd == Command(CmdKind(ent, o), o)
  <2>1. Main \in Stages /\ b \in 0..1 /\ old \in BufType
    BY Consts, StageIs
  <2>2. PutBuf(st, st1, Main, b, nb) /\ Grown(old, cmd, nb)
    BY <1>2 DEF RecordedAs
  <2>3. o.op # "delete" /\ o \in AllOps
    BY OperationIs, OperationSub DEF AllOps
  <2>4. cmd.kind # "Delete"
    <3>1. cmd \in Cmds /\ cmd.of = o
      BY <2>3, CommandIs
    <3> QED
      BY <2>3, <3>1, CmdIs DEF Consistent
  <2>5. n \in Nat /\ DOMAIN old.queue = 1..n /\ \A k \in 1..n : old.queue[k].kind # "Delete"
    <3>1. n \in Nat /\ DOMAIN old.queue = 1..n
      BY <2>1, BufIs
    <3> QED
      BY <2>1, <3>1 DEF NoDelete
  <2> HIDE DEF cmd, old, nb, b, n
  <2>6. ASSUME NEW k \in DOMAIN nb.queue PROVE nb.queue[k].kind # "Delete"
    <3>1. k \in 1..Len(nb.queue) /\ Len(nb.queue) \in Nat
      BY <2>2, BufIs DEF Grown
    <3>2. k \in 1..n \/ k = n + 1 \/ k \in n + 2 .. Len(nb.queue)
      BY <2>5, <3>1
    <3>3. /\ \A j \in 1..n : nb.queue[j].kind = old.queue[j].kind
          /\ nb.queue[n + 1].kind = cmd.kind
          /\ \A j \in n + 2 .. Len(nb.queue) : nb.queue[j].kind = "Modified"
      BY <2>2 DEF Grown, Alike, n
    <3> QED
      BY <2>4, <2>5, <3>2, <3>3
  <2> QED
    BY <2>1, <2>2, <2>6, NoDeletePut
<1> QED
  BY <1>1, <1>2 DEF Observed

LEMMA NoDeleteEnd ==
  ASSUME NEW st, NoDelete(st), NEW fl, NEW v, NEW fl2, NEW s,
         EndTo(st, fl, s, v, fl2) \/ SwapTo(st, fl, s, v, fl2)
  PROVE  NoDelete(v)
<1>1. \A t \in Stages : v[t].buf = st[t].buf
  BY DEF EndTo, SwapTo, Flip, Except
<1>2. Main \in Stages
  BY Consts
<1> QED
  BY <1>1, <1>2 DEF NoDelete

\* While another stage is flushed at the bottom, Main has no deletes.
LEMMA OuterIs ==
  ASSUME QueueInv, HooksSpare, SparesOuter(stage, flush), flush # <<>>, flush[1].stage # Main
  PROVE  /\ "delete" \notin HookOps /\ NoDelete(stage) /\ stage \in [Stages -> StageType]
         /\ Top.stage = Main => \A k \in DOMAIN Buf.queue : Buf.queue[k].kind # "Delete"
<1>1. /\ flush \in Seq(FrameType) /\ stage \in [Stages -> StageType] /\ Sound(world, stage, flush)
  BY DEF QueueInv, Sound, SoundBut, Typed
<1>2. flush[1].stage \in Stages
  <2>1. 1 \in DOMAIN flush
    BY <1>1, FramesAre
  <2> QED
    BY <1>1, <2>1, FramesAre
<1>3. "delete" \notin HookOps
  BY <1>2 DEF HooksSpare
<1>4. NoDelete(stage)
  BY DEF SparesOuter
<1>5. Top.buf \in 0..1 /\ Buf = stage[Top.stage].buf[Top.buf]
  BY <1>1, TopIs
<1> QED
  BY <1>1, <1>3, <1>4, <1>5 DEF NoDelete

LEMMA FirstStage ==
  ASSUME QueueInv, flush # <<>>, NEW nb, NEW pos, NEW step, NEW added, After(nb, pos, step, added)
  PROVE  flush'[1].stage = flush[1].stage
<1>1. flush \in Seq(FrameType)
  BY DEF QueueInv, Sound, SoundBut, Typed
<1>2. 1 \in DOMAIN flush
  BY <1>1, FramesAre
<1>3. CASE Len(flush) = 1
  BY <1>3 DEF After, Top
<1>4. CASE Len(flush) # 1
  BY <1>2, <1>4 DEF After
<1> QED
  BY <1>3, <1>4

LEMMA SparesStepped ==
  ASSUME QueueInv, HooksSpare, SparesOuter(stage, flush), flush # <<>>,
         NEW nb, NEW pos, NEW step, NEW added, After(nb, pos, step, added),
         NEW e, NEW w, NEW st, NEW fl, NEW st1, Stepped(e, w, st, nb, fl, st1),
         \A k \in 1..Len(Buf.queue) : nb.queue[k].kind = Buf.queue[k].kind \/ nb.queue[k].kind # "Delete"
  PROVE  SparesOuter(stage', flush')
<1> SUFFICES ASSUME flush'[1].stage # Main PROVE NoDelete(stage')
  BY DEF SparesOuter
<1>1. flush[1].stage # Main
  BY FirstStage
<1>2. /\ "delete" \notin HookOps /\ NoDelete(stage) /\ stage \in [Stages -> StageType]
      /\ Top.stage = Main => \A k \in DOMAIN Buf.queue : Buf.queue[k].kind # "Delete"
  BY <1>1, OuterIs
<1>3. /\ PutBuf(stage, st, Top.stage, Top.buf, nb) /\ Worn(Buf, nb) /\ Observed(st, st1, w.ent, e)
      /\ EndTo(st1, fl, Main, stage', flush') /\ st \in [Stages -> StageType]
  BY DEF Stepped, PutBuf, Except
<1>4. Top.stage \in Stages /\ Top.buf \in 0..1 /\ Buf \in BufType
  BY TopIs DEF QueueInv
<1>5. DOMAIN nb.queue = 1..Len(Buf.queue) /\ DOMAIN Buf.queue = 1..Len(Buf.queue)
  BY <1>3, <1>4, BufIs DEF Worn
<1>6. Top.stage = Main => \A k \in DOMAIN nb.queue : nb.queue[k].kind # "Delete"
  BY <1>2, <1>5
<1>7. NoDelete(st)
  BY <1>2, <1>3, <1>4, <1>6, NoDeletePut
<1>8. NoDelete(st1)
  BY <1>2, <1>3, <1>7, NoDeleteObserved
<1> QED
  BY <1>3, <1>8, NoDeleteEnd

LEMMA SparesQuiet ==
  ASSUME QueueInv, HooksSpare, SparesOuter(stage, flush), flush # <<>>,
         NEW nb, NEW pos, NEW step, NEW added, After(nb, pos, step, added),
         PutBuf(stage, stage', Top.stage, Top.buf, nb), nb.queue = Buf.queue
  PROVE  SparesOuter(stage', flush')
<1> SUFFICES ASSUME flush'[1].stage # Main PROVE NoDelete(stage')
  BY DEF SparesOuter
<1>1. flush[1].stage # Main
  BY FirstStage
<1>2. /\ NoDelete(stage)
      /\ Top.stage = Main => \A k \in DOMAIN Buf.queue : Buf.queue[k].kind # "Delete"
  BY <1>1, OuterIs
<1>3. Top.stage \in Stages /\ Top.buf \in 0..1
  BY TopIs DEF QueueInv
<1> QED
  BY <1>2, <1>3, NoDeletePut

LEMMA SparesFinish ==
  ASSUME QueueInv, HooksSpare, SparesOuter(stage, flush), FinishBuffer
  PROVE  SparesOuter(stage', flush')
<1> SUFFICES ASSUME flush' # <<>>, flush'[1].stage # Main PROVE NoDelete(stage')
  BY DEF SparesOuter
<1>1. /\ flush # <<>> /\ flush \in Seq(FrameType) /\ FramesOK(stage, flush) /\ Sound(world, stage, flush)
  BY FinishBufferIs DEF QueueInv, Sound, SoundBut, Typed
<1>2. PICK st, nb, fl1 : /\ PutBuf(stage, st, Top.stage, Top.buf, nb) /\ Emptied(Buf, nb)
                         /\ Over(flush, fl1) /\ SwapTo(st, fl1, Top.stage, stage', flush')
  BY FinishBufferIs
<1>3. /\ Top.stage \in Stages /\ Top.buf \in 0..1 /\ Top = flush[Len(flush)]
      /\ fl1 \in Seq(FrameType) /\ Len(fl1) = Len(flush) - 1 /\ \A i \in 1..Len(flush) - 1 : fl1[i] = flush[i]
  BY <1>1, <1>2, TopIs DEF Over
<1>4. Len(flush) = 1 \/ Len(flush) = 2
  <2> DEFINE n == Len(flush)
  <2>1. n \in Nat /\ n # 0 /\ n <= 2
    BY <1>1, FramesAre DEF FramesOK
  <2> HIDE DEF n
  <2>2. n = 1 \/ n = 2
    BY <2>1
  <2> QED
    BY <2>2 DEF n
<1>5. flush[1].stage # Main
  <2>1. CASE Len(flush) = 1
    <3>1. Len(fl1) = 0
      BY <1>3, <2>1
    <3>2. fl1 = <<>>
      BY <1>3, <3>1, FramesAre
    <3>3. flush' # fl1
      BY <3>2
    <3>4. NewFrame(fl1, flush', Top.stage, st[Top.stage].cmd)
      BY <1>2, <3>3 DEF SwapTo
    <3>5. flush'[1].stage = Top.stage
      BY <3>1, <3>4 DEF NewFrame
    <3> QED
      BY <1>3, <2>1, <3>5
  <2>2. CASE Len(flush) = 2
    BY <1>1, <2>2 DEF FramesOK
  <2> QED
    BY <1>4, <2>1, <2>2
<1>6. NoDelete(stage)
  BY <1>1, <1>5, OuterIs
<1>7. DOMAIN nb.queue = {}
  BY <1>2, Empty DEF Emptied
<1>8. NoDelete(st)
  BY <1>2, <1>3, <1>6, <1>7, NoDeletePut
<1> QED
  BY <1>2, <1>8, NoDeleteEnd

\* A merge of another stage starts when Main has nothing left.
LEMMA SparesLowered ==
  ASSUME QueueInv, flush = <<>>, NEW s \in Stages, Lowered(s),
         s # Main => stage[Main].defer = 0
  PROVE  SparesOuter(stage', flush')
<1> SUFFICES ASSUME flush' # <<>>, flush'[1].stage # Main PROVE NoDelete(stage')
  BY DEF SparesOuter
<1>1. BuffersOK(stage, flush, {}) /\ Main \in Stages /\ Len(flush) = 0 /\ DOMAIN flush = {}
  BY Consts, Empty DEF QueueInv, Sound, SoundBut
<1>2. PICK st : Nested(stage, st) /\ SwapTo(st, flush, s, stage', flush')
  BY DEF Lowered
<1>3. NewFrame(flush, flush', s, st[s].cmd)
  BY <1>2 DEF SwapTo
<1>4. flush'[1].stage = s
  BY <1>1, <1>3 DEF NewFrame
<1>5. \A b \in 0..1 : ~ Filled(stage, flush, Main, b)
  BY <1>1, <1>4 DEF Filled, Flushed, InFlush
<1>6. \A b \in 0..1 : stage[Main].buf[b].queue = <<>>
  BY <1>1, <1>5 DEF BuffersOK
<1>7. \A b \in 0..1 : DOMAIN stage[Main].buf[b].queue = {}
  BY <1>6, Empty
<1>8. NoDelete(stage)
  BY <1>7 DEF NoDelete
<1>9. NoDelete(st)
  BY <1>1, <1>2, <1>8 DEF Nested, NoDelete
<1> QED
  BY <1>2, <1>9, NoDeleteEnd

LEMMA TargetQuiet ==
  ASSUME AllBatch(flush'), SparesOuter(stage', flush')
  PROVE  TargetInv'
<1>1. TargetsAlive(world', stage', flush')
  BY DEF AllBatch, TargetsAlive
<1>2. (TargetInv <=> TargetsAlive(world, stage, flush) /\ SparesOuter(stage, flush))'
  BY TargetIs, PTL
<1> QED
  BY <1>1, <1>2

LEMMA TargetNext ==
  ASSUME TargetsAlive(world', stage', flush'), SparesOuter(stage', flush')
  PROVE  TargetInv'
<1>1. (TargetInv <=> TargetsAlive(world, stage, flush) /\ SparesOuter(stage, flush))'
  BY TargetIs, PTL
<1> QED
  BY <1>1

LEMMA TargetStep ==
  ASSUME QueueInv, WriteInv, HooksSpare, TargetInv, [Next]_vars
  PROVE  TargetInv'
<1>1. /\ Sound(world, stage, flush) /\ world \in WorldType /\ WriteOK(stage, flush)
      /\ TargetsAlive(world, stage, flush) /\ SparesOuter(stage, flush) /\ DeferOK
  BY TargetIs DEF QueueInv, Sound, SoundBut, Typed, WriteInv
<1>2. ASSUME flush' = <<>> PROVE TargetInv'
  <2>1. DOMAIN flush' = {}
    BY <1>2, Empty
  <2>2. TargetsAlive(world', stage', flush')
    BY <2>1 DEF TargetsAlive
  <2>3. SparesOuter(stage', flush')
    BY <1>2 DEF SparesOuter
  <2> QED
    BY <2>2, <2>3, TargetNext
<1>3. ASSUME Idle, flush' = flush PROVE TargetInv'
  BY <1>2, <1>3 DEF Idle
<1>4. ASSUME NEW s \in Slots, New(s) PROVE TargetInv'
  BY <1>3, <1>4 DEF New
<1>5. ASSUME NEW s \in Stages, NEW o \in Operations(Ops), Defer(s, o) PROVE TargetInv'
  BY <1>3, <1>5 DEF Defer
<1>6. ASSUME NEW o \in Operations(Ops), RunNow(o) PROVE TargetInv'
  BY <1>3, <1>6 DEF RunNow
<1>7. CASE DeferBegin \/ Suspend \/ Resume \/ ReadonlyBegin \/ ReadonlyEnd
  BY <1>3, <1>7 DEF DeferBegin, Suspend, Resume, ReadonlyBegin, ReadonlyEnd
<1>8. CASE DeferEnd
  <2>1. Main \in Stages /\ flush = <<>> /\ Lowered(Main)
    BY <1>8, DeferEndIs, Consts DEF Idle
  <2>2. AllBatch(flush') /\ SparesOuter(stage', flush')
    BY <2>1, QuietFrames, SparesLowered
  <2> QED
    BY <2>2, TargetQuiet
<1>9. CASE MergeStage
  <2> DEFINE s == Head(merging)
  <2>1. s \in Stages /\ flush = <<>> /\ ~ Idle /\ Lowered(s) /\ merging # <<>>
    BY <1>9, MergeStageIs DEF MergeStage
  <2>2. s # Main => stage[Main].defer = 0
    <3>1. merging \in Seq(Stages) /\ IsInjective(merging)
      BY <1>1 DEF DeferOK
    <3>2. s = merging[1]
      BY <2>1, <3>1, TailIs
    <3>3. s # Main => Main \notin ToSet(merging)
      BY <1>1, <3>2 DEF DeferOK, ToSet
    <3> QED
      BY <1>1, <2>1, <3>3 DEF DeferOK
  <2> HIDE DEF s
  <2>3. AllBatch(flush') /\ SparesOuter(stage', flush')
    BY <2>1, <2>2, QuietFrames, SparesLowered
  <2> QED
    BY <2>3, TargetQuiet
<1>10. CASE CommitBatch
  <2> DEFINE e == Cmd.of.ent
             p == Plan(Buf.queue, Chain(Buf.queue, Top.pos), Has(world.ent, e))
             q2 == AfterFirst(Buf.queue, Chain(Buf.queue, Top.pos))
             nb == [Buf EXCEPT !.queue = q2]
             st == [stage EXCEPT ![Top.stage].buf[Top.buf].queue = q2]
  <2>1. /\ flush # <<>> /\ Top.step = "batch" /\ Top.pos <= Len(Buf.queue)
        /\ Alive(world.ent, e) /\ Batched2(e, world', p)
        /\ After(nb, Top.pos, "moves", p.added)
        /\ \E st1 : Stepped(e, world', st, nb, At(Top.pos, "moves", p.added), st1)
    BY <1>10, CommitBatchIs, CommitBatchAfter
  <2>2. /\ e \in Entities /\ e[1] \in Slots /\ Buf \in BufType /\ Cmd = Buf.queue[Top.pos]
        /\ Top.pos \in DOMAIN Buf.queue
    BY <1>1, <2>1, TopIs
  <2>3. Spent(Buf.queue, q2) /\ nb.queue = q2 /\ DOMAIN Buf.queue = 1..Len(Buf.queue)
    <3>1. Buf \in [queue : {Buf.queue}, entry : {Buf.entry}] /\ Buf.queue \in Seq(Cmds)
          /\ DOMAIN Buf.queue = 1..Len(Buf.queue)
      BY <2>2, BufIs
    <3> QED
      BY <3>1, AfterFirstIs
  <2> HIDE DEF e, p, q2, nb, st
  <2>4. SameLife(world, world')
    BY <2>1 DEF Batched2
  <2>5. nb.queue[Top.pos].of.ent = e
    BY <2>2, <2>3 DEF Spent, e
  <2>6. Alive(world'.ent, e)
    BY <2>1, <2>2, <2>4, SameAlive
  <2>7. TargetsAlive(world', stage', flush')
    BY <1>1, <2>1, <2>4, <2>5, <2>6, TargetsAfter
  <2>8. \A k \in 1..Len(Buf.queue) : nb.queue[k].kind = Buf.queue[k].kind \/ nb.queue[k].kind # "Delete"
    BY <2>3 DEF Spent
  <2>9. SparesOuter(stage', flush')
    BY <1>1, <2>1, <2>8, SparesStepped
  <2> QED
    BY <2>7, <2>9, TargetNext
<1>11. CASE MoveValues
  <2> DEFINE e == Cmd.of.ent
             m == SecondPass(world, e, Buf.queue, Chain(Buf.queue, Top.pos))
             nb == [Buf EXCEPT !.queue = m.q]
             st == [stage EXCEPT ![Top.stage].buf[Top.buf].queue = m.q]
             none == {}
  <2>1. /\ flush # <<>> /\ Top.pos <= Len(Buf.queue)
        /\ Told2(e, world', Top.added) /\ Second(world, e, Buf.queue, m)
        /\ After(nb, Top.pos, "exec", none)
        /\ \E st1 : Stepped(e, world', st, nb, At(Top.pos, "exec", none), st1)
    BY <1>11, MoveValuesIs, MoveValuesAfter
  <2>2. nb.queue = m.q
    <3>1. Buf \in [queue : {Buf.queue}, entry : {Buf.entry}]
      BY <1>1, <2>1, TopIs, BufIs
    <3> QED
      BY <3>1
  <2> HIDE DEF e, m, nb, st, none
  <2>3. SameLife(world, world')
    BY <2>1 DEF Told2
  <2>4. TargetsAlive(world', stage', flush')
    BY <1>1, <2>1, <2>3, TargetsAfter
  <2>5. \A k \in 1..Len(Buf.queue) : nb.queue[k].kind = Buf.queue[k].kind \/ nb.queue[k].kind # "Delete"
    BY <2>1, <2>2 DEF Spent, Second
  <2>6. SparesOuter(stage', flush')
    BY <1>1, <2>1, <2>5, SparesStepped
  <2> QED
    BY <2>4, <2>6, TargetNext
<1>12. CASE DiscardCmd
  <2> DEFINE nb == Unused(Buf, Cmd)
  <2>1. /\ flush # <<>> /\ Top.pos <= Len(Buf.queue)
        /\ PutBuf(stage, stage', Top.stage, Top.buf, nb)
        /\ After(nb, Top.pos + 1, "batch", {})
        /\ world' \in WorldType /\ world'.ent = world.ent /\ world'.belief = world.belief
    BY <1>12, DiscardCmdIs, DiscardCmdAfter
  <2>2. nb.queue = Buf.queue
    BY <1>1, <2>1, InvalidatedIs
  <2> HIDE DEF nb
  <2>3. SameLife(world, world')
    BY <1>1, <2>1, SameEnt
  <2>4. TargetsAlive(world', stage', flush')
    BY <1>1, <2>1, <2>3, TargetsAfter
  <2>5. SparesOuter(stage', flush')
    BY <1>1, <2>1, <2>2, SparesQuiet
  <2> QED
    BY <2>4, <2>5, TargetNext
<1>13. CASE ExecuteCmd
  <2> DEFINE e == Cmd.of.ent
             nb == Unused(Buf, Cmd)
             st == Invalidated
             none == {}
  <2>1. /\ flush # <<>> /\ Top.pos <= Len(Buf.queue)
        /\ world' = Effect(Cmd) /\ Cmd.kind \notin HasValue \cup {"Skip"}
        /\ After(nb, Top.pos + 1, "batch", none)
        /\ \E st1 : Stepped(e, world', st, nb, At(Top.pos + 1, "batch", none), st1)
    BY <1>13, ExecuteCmdIs, ExecuteCmdAfter
  <2>2. nb.queue = Buf.queue
    BY <1>1, <2>1, InvalidatedIs
  <2> HIDE DEF e, nb, st, none
  <2>3. Cmd \in Cmds /\ Top.pos \in DOMAIN Buf.queue /\ Cmd = Buf.queue[Top.pos]
    BY <1>1, <2>1, TopIs
  <2>4. Cmd.kind # "Delete" => SameLife(world, world')
    BY <1>1, <2>1, <2>3, EffectIs
  <2>5. Cmd.kind = "Delete" => Len(flush) = 1
    <3>1. SUFFICES ASSUME Cmd.kind = "Delete", Len(flush) # 1 PROVE FALSE
      OBVIOUS
    <3>2. FramesOK(stage, flush) /\ flush \in Seq(FrameType) /\ Top = flush[Len(flush)]
      BY <1>1, <2>1, TopIs DEF Sound, SoundBut
    <3>3. Len(flush) = 2
      <4> DEFINE n == Len(flush)
      <4>1. n \in Nat /\ n # 0 /\ n <= 2 /\ n # 1
        BY <2>1, <3>1, <3>2, FramesAre DEF FramesOK
      <4> HIDE DEF n
      <4>2. n = 2
        BY <4>1
      <4> QED
        BY <4>2 DEF n
    <3>4. flush[1].stage # Main /\ Top.stage = Main
      BY <3>2, <3>3 DEF FramesOK
    <3>5. \A k \in DOMAIN Buf.queue : Buf.queue[k].kind # "Delete"
      BY <1>1, <2>1, <3>4, OuterIs
    <3> QED
      BY <2>3, <3>1, <3>5
  <2>6. TargetsAlive(world', stage', flush')
    BY <1>1, <2>1, <2>4, <2>5, TargetsAfter
  <2>7. SparesOuter(stage', flush')
    BY <1>1, <2>1, <2>2, SparesStepped
  <2> QED
    BY <2>6, <2>7, TargetNext
<1>14. CASE EnsureCmd
  <2> DEFINE e == Cmd.of.ent
             nb == Unused(Buf, Cmd)
             st == Invalidated
             none == {}
             T == Has(world.ent, e) \cup {Cmd.of.comp}
  <2>1. /\ flush # <<>> /\ Top.pos <= Len(Buf.queue) /\ Alive(world.ent, e)
        /\ Committed(world, world', e, T)
        /\ After(nb, Top.pos, "write", none)
        /\ \E st1 : Stepped(e, world', st, nb, At(Top.pos, "write", none), st1)
    BY <1>14, EnsureCmdIs, EnsureCmdAfter
  <2>2. nb.queue = Buf.queue
    BY <1>1, <2>1, InvalidatedIs
  <2>3. e[1] \in Slots /\ Cmd = Buf.queue[Top.pos]
    BY <1>1, <2>1, TopIs
  <2>4. nb.queue[Top.pos].of.ent = e
    BY <2>2, <2>3
  <2> HIDE DEF e, nb, st, none, T
  <2>5. SameLife(world, world')
    BY <2>1 DEF Committed
  <2>6. Alive(world'.ent, e)
    BY <2>1, <2>3, <2>5, SameAlive
  <2>7. TargetsAlive(world', stage', flush')
    BY <1>1, <2>1, <2>4, <2>5, <2>6, TargetsAfter
  <2>8. SparesOuter(stage', flush')
    BY <1>1, <2>1, <2>2, SparesStepped
  <2> QED
    BY <2>7, <2>8, TargetNext
<1>15. CASE WriteCmd
  <2> DEFINE e == Cmd.of.ent
             c == Cmd.of.comp
             cmd == Cmd
  <2>1. /\ flush # <<>> /\ Top.pos <= Len(Buf.queue) /\ stage' = stage /\ c \in Comps
        /\ After(Buf, Top.pos + 1, "batch", {}) /\ Wrote(world, world', e, c, cmd)
    BY <1>1, <1>15, WriteCmdIs, WriteCmdAfter
  <2>2. e \in Entities /\ Top.stage \in Stages /\ Top.buf \in 0..1 /\ Buf = stage[Top.stage].buf[Top.buf]
    BY <1>1, <2>1, TopIs
  <2>3. PutBuf(stage, stage', Top.stage, Top.buf, Buf)
    <3>1. stage \in [Stages -> StageType]
      BY <1>1 DEF Sound, SoundBut, Typed
    <3> QED
      BY <2>1, <2>2, <3>1 DEF PutBuf, Except
  <2> HIDE DEF e, c, cmd
  <2>4. SameLife(world, world')
    BY <1>1, <2>1, <2>2, WroteIs
  <2>5. TargetsAlive(world', stage', flush')
    BY <1>1, <2>1, <2>4, TargetsAfter
  <2>6. SparesOuter(stage', flush')
    BY <1>1, <2>1, <2>3, SparesQuiet
  <2> QED
    BY <2>5, <2>6, TargetNext
<1>16. CASE FinishBuffer
  <2>1. Under /\ world' = world /\ SparesOuter(stage', flush')
    BY <1>1, <1>16, UnderFinish, FinishBufferIs, SparesFinish
  <2>2. TargetsAlive(world', stage', flush')
    BY <1>1, <2>1 DEF Under, TargetsAlive, CmdAt
  <2> QED
    BY <2>1, <2>2, TargetNext
<1>17. CASE UNCHANGED vars
  <2>1. UNCHANGED <<world, stage, flush>>
    BY <1>17 DEF vars
  <2> QED
    BY <2>1 DEF TargetInv
<1> QED
  BY <1>4, <1>5, <1>6, <1>7, <1>8, <1>9, <1>10, <1>11, <1>12, <1>13, <1>14, <1>15, <1>16, <1>17
     DEF Next

\* While no observer deletes entities, or all commands go to one stage, a flush
\* that comes back to a command after a commit finds it in the buffer and its
\* entity alive (the assertions after the second pass and in flecs_ensure).
THEOREM TargetsStayAlive == HooksSpare => (Spec => []BatchTargetAlive)
<1> SUFFICES ASSUME HooksSpare PROVE Spec => []BatchTargetAlive
  OBVIOUS
<1>1. Init => TargetInv
  <2>1. SUFFICES ASSUME Init PROVE TargetInv
    OBVIOUS
  <2>2. flush = <<>>
    BY <2>1, InitIs
  <2>3. DOMAIN flush = {}
    BY <2>2, Empty
  <2> QED
    BY <2>2, <2>3 DEF TargetInv
<1>2. QueueInv /\ WriteInv /\ TargetInv /\ [Next]_vars => TargetInv'
  BY TargetStep
<1>3. QueueInv /\ TargetInv => BatchTargetAlive
  <2> SUFFICES ASSUME QueueInv, TargetInv, flush # <<>>, Top.step \in {"moves", "write"}
               PROVE  Top.pos <= Len(Buf.queue) /\ Alive(world.ent, Cmd.of.ent)
    BY DEF BatchTargetAlive
  <2>1. /\ Len(flush) \in DOMAIN flush /\ Top = flush[Len(flush)] /\ Buf = BufOf(stage, Top)
        /\ Top.pos <= Len(Buf.queue) /\ Cmd = Buf.queue[Top.pos]
    BY TopIs DEF QueueInv
  <2>2. TargetsAlive(world, stage, flush)
    BY TargetIs
  <2>3. Alive(world.ent, CmdAt(stage, Top).of.ent)
    BY <2>1, <2>2 DEF TargetsAlive
  <2> QED
    BY <2>1, <2>3 DEF CmdAt
<1> QED
  BY <1>1, <1>2, <1>3, QueuesStayInOrder, PTL DEF Spec

-----------------------------------------------------------------------------
(* The values that are in the storage, counted.                            *)

StoredIn(w) ==
  {sc \in Slots \X Comps : w.ent[sc[1]].val[sc[2]] # None /\ Kind[sc[2]] # "trivial"}

Solid(cs) == {c \in cs : Kind[c] # "trivial"}

LEMMA DroppableOne ==
  ASSUME NEW c \in Comps
  PROVE  Droppable({c}) = IF Kind[c] # "trivial" THEN 1 ELSE 0
<1>1. Solid({c}) = IF Kind[c] # "trivial" THEN {c} ELSE {}
  BY DEF Solid
<1>2. Droppable({c}) = Cardinality(Solid({c}))
  BY DEF Droppable, Solid
<1> QED
  BY <1>1, <1>2, FS_EmptySet, FS_Singleton

LEMMA SolidIs ==
  ASSUME NEW cs \in SUBSET Comps
  PROVE  /\ IsFiniteSet(Solid(cs)) /\ Cardinality(Solid(cs)) \in Nat
         /\ Droppable(cs) = Cardinality(Solid(cs))
<1>1. Solid(cs) \in SUBSET Comps
  BY DEF Solid
<1>2. IsFiniteSet(Solid(cs))
  BY <1>1, Consts, FS_Subset
<1> QED
  BY <1>2, FS_CardinalityType DEF Droppable, Solid

Cell(sl, D) == {sl} \X D

\* What a slot adds to the components of the other slots.
LEMMA SlotCount ==
  ASSUME NEW sl, NEW D, IsFiniteSet(D), NEW K, IsFiniteSet(K), \A x \in K : x[1] # sl
  PROVE  /\ Cardinality(K \cup Cell(sl, D)) = Cardinality(K) + Cardinality(D)
         /\ IsFiniteSet(K \cup Cell(sl, D))
         /\ Cardinality(K) \in Nat /\ Cardinality(D) \in Nat
<1> DEFINE P == {sl} \X D
<1>1. IsFiniteSet({sl}) /\ Cardinality({sl}) = 1
  BY FS_Singleton
<1>2. IsFiniteSet(P) /\ Cardinality(P) = 1 * Cardinality(D)
  BY <1>1, FS_Product
<1>3. Cardinality(K) \in Nat /\ Cardinality(D) \in Nat
  BY FS_CardinalityType
<1>4. Cardinality(P) = Cardinality(D)
  BY <1>2, <1>3
<1>5. K \cap P = {}
  <2>1. \A x \in P : x[1] = sl
    OBVIOUS
  <2> HIDE DEF P
  <2> QED
    BY <2>1
<1> HIDE DEF P
<1>6. /\ IsFiniteSet(K \cup P)
      /\ Cardinality(K \cup P) = Cardinality(K) + Cardinality(P) - Cardinality(K \cap P)
  BY <1>2, FS_Union
<1>7. Cardinality(K \cap P) = 0
  BY <1>5, FS_EmptySet
<1>8. Cardinality(K \cup P) = Cardinality(K) + Cardinality(D)
  BY <1>3, <1>4, <1>6, <1>7
<1> QED
  BY <1>3, <1>6, <1>8 DEF P, Cell

\* Two sets, by what they do not share.
LEMMA ExchangeCount ==
  ASSUME NEW A, IsFiniteSet(A), NEW B, IsFiniteSet(B)
  PROVE  /\ Cardinality(B) = Cardinality(A) + (Cardinality(B \ A) - Cardinality(A \ B))
         /\ {Cardinality(A), Cardinality(B), Cardinality(B \ A), Cardinality(A \ B)} \subseteq Nat
<1>1. /\ Cardinality(A \ B) = Cardinality(A) - Cardinality(A \cap B)
      /\ Cardinality(B \ A) = Cardinality(B) - Cardinality(B \cap A)
      /\ IsFiniteSet(A \ B) /\ IsFiniteSet(B \ A)
  BY FS_Difference
<1>2. A \cap B = B \cap A
  OBVIOUS
<1>3. IsFiniteSet(A \cap B)
  BY FS_Intersection
<1>4. /\ Cardinality(A) \in Nat /\ Cardinality(B) \in Nat /\ Cardinality(A \cap B) \in Nat
      /\ Cardinality(A \ B) \in Nat /\ Cardinality(B \ A) \in Nat
  BY <1>1, <1>3, FS_CardinalityType
<1> DEFINE a == Cardinality(A)
           b == Cardinality(B)
           c == Cardinality(A \cap B)
<1>5. a \in Nat /\ b \in Nat /\ c \in Nat /\ Cardinality(A \ B) = a - c /\ Cardinality(B \ A) = b - c
  BY <1>1, <1>2, <1>4
<1> HIDE DEF a, b, c
<1>6. b = a + ((b - c) - (a - c))
  BY <1>5
<1> QED
  BY <1>4, <1>5, <1>6 DEF a, b

\* The number of stored values follows the components of the one entity that
\* was changed.
LEMMA StoredMoved ==
  ASSUME NEW w \in WorldType, NEW v \in WorldType, NEW e \in Entities, Others(w, v, e)
  PROVE  /\ Cardinality(StoredIn(v)) = Cardinality(StoredIn(w))
              + (Droppable(Has(v.ent, e) \ Has(w.ent, e)) - Droppable(Has(w.ent, e) \ Has(v.ent, e)))
         /\ Cardinality(StoredIn(w)) \in Nat /\ Cardinality(StoredIn(v)) \in Nat
<1> DEFINE sl == e[1]
           A == Has(w.ent, e)
           B == Has(v.ent, e)
           K == {sc \in StoredIn(w) : sc[1] # sl}
<1>1. sl \in Slots /\ A \in SUBSET Comps /\ B \in SUBSET Comps /\ A \ B \in SUBSET Comps /\ B \ A \in SUBSET Comps
  BY EntityIs, HasIs
<1>2. StoredIn(w) = K \cup Cell(sl, Solid(A))
  BY <1>1, HasIs DEF StoredIn, Solid, Cell
<1>3. StoredIn(v) = K \cup Cell(sl, Solid(B))
  <2>1. \A sc \in Slots \X Comps : sc[1] # sl => v.ent[sc[1]] = w.ent[sc[1]]
    BY DEF Others
  <2>2. {sc \in StoredIn(v) : sc[1] # sl} = K
    BY <2>1 DEF StoredIn
  <2>3. StoredIn(v) = {sc \in StoredIn(v) : sc[1] # sl} \cup Cell(sl, Solid(B))
    BY <1>1, HasIs DEF StoredIn, Solid, Cell
  <2> QED
    BY <2>2, <2>3
<1>4. IsFiniteSet(K)
  <2>1. K \in SUBSET (Slots \X Comps)
    BY DEF StoredIn
  <2>2. IsFiniteSet(Slots \X Comps)
    BY Consts, FS_Product
  <2> HIDE DEF K
  <2> QED
    BY <2>1, <2>2, FS_Subset
<1>5. \A x \in K : x[1] # sl
  OBVIOUS
<1>6. IsFiniteSet(Solid(A)) /\ IsFiniteSet(Solid(B))
  BY <1>1, SolidIs
<1> HIDE DEF sl, A, B, K
<1>7. /\ Cardinality(StoredIn(w)) = Cardinality(K) + Cardinality(Solid(A))
      /\ Cardinality(StoredIn(v)) = Cardinality(K) + Cardinality(Solid(B))
      /\ Cardinality(K) \in Nat
  <2> DEFINE SA == Solid(A)
             SB == Solid(B)
  <2>1. IsFiniteSet(SA) /\ IsFiniteSet(SB) /\ StoredIn(w) = K \cup Cell(sl, SA) /\ StoredIn(v) = K \cup Cell(sl, SB)
    BY <1>2, <1>3, <1>6
  <2> HIDE DEF SA, SB
  <2>2. Cardinality(K \cup Cell(sl, SA)) = Cardinality(K) + Cardinality(SA) /\ Cardinality(K) \in Nat
    BY <1>4, <1>5, <2>1, SlotCount
  <2>3. Cardinality(K \cup Cell(sl, SB)) = Cardinality(K) + Cardinality(SB)
    BY <1>4, <1>5, <2>1, SlotCount
  <2> QED
    BY <2>1, <2>2, <2>3 DEF SA, SB
<1>8. Solid(A \ B) = Solid(A) \ Solid(B) /\ Solid(B \ A) = Solid(B) \ Solid(A)
  BY DEF Solid
<1>9. Droppable(A \ B) = Cardinality(Solid(A) \ Solid(B)) /\ Droppable(B \ A) = Cardinality(Solid(B) \ Solid(A))
  BY <1>1, <1>8, SolidIs
<1>10. /\ Cardinality(Solid(B)) = Cardinality(Solid(A))
             + (Cardinality(Solid(B) \ Solid(A)) - Cardinality(Solid(A) \ Solid(B)))
       /\ {Cardinality(Solid(A)), Cardinality(Solid(B)), Cardinality(Solid(B) \ Solid(A)),
           Cardinality(Solid(A) \ Solid(B))} \subseteq Nat
  BY <1>6, ExchangeCount
<1>11. /\ Cardinality(StoredIn(v)) = Cardinality(StoredIn(w)) + (Droppable(B \ A) - Droppable(A \ B))
       /\ Cardinality(StoredIn(w)) \in Nat /\ Cardinality(StoredIn(v)) \in Nat
  BY <1>7, <1>9, <1>10
<1> QED
  BY <1>11 DEF A, B

-----------------------------------------------------------------------------
(* The values that wait in commands, counted.                              *)

Weighs(cmd) == cmd.val # None /\ Kind[cmd.of.comp] # "trivial"

\* Command k of q has a droppable value, and flushes fl have not passed it.
Heavy(q, k) == k \in DOMAIN q /\ Weighs(q[k])
Unpassed(fl, s, b, k) == \A f \in DOMAIN fl : fl[f].stage = s /\ fl[f].buf = b => k >= fl[f].pos
Waits(st, fl, s, b, k) == Heavy(st[s].buf[b].queue, k) /\ Unpassed(fl, s, b, k)

WaitingIn(st, fl) ==
  UNION {{<<s, b, i>> : i \in {k \in DOMAIN st[s].buf[b].queue : Waits(st, fl, s, b, k)}} :
         s \in Stages, b \in 0..1}

LEMMA WaitingIs == Waiting = WaitingIn(stage, flush) /\ Stored = StoredIn(world)
<1> DEFINE H(s, b) == {k \in DOMAIN stage[s].buf[b].queue :
                         LET cmd == stage[s].buf[b].queue[k] IN
                         /\ cmd.val # None /\ Kind[cmd.of.comp] # "trivial"
                         /\ \A f \in DOMAIN flush :
                              flush[f].stage = s /\ flush[f].buf = b => k >= flush[f].pos}
           G(s, b) == {k \in DOMAIN stage[s].buf[b].queue : Waits(stage, flush, s, b, k)}
<1>1. \A s, b : H(s, b) = G(s, b)
  BY DEF Waits, Heavy, Unpassed, Weighs
<1>2. Waiting = UNION {{<<s, b, i>> : i \in H(s, b)} : s \in Stages, b \in 0..1}
  BY DEF Waiting
<1>3. WaitingIn(stage, flush) = UNION {{<<s, b, i>> : i \in G(s, b)} : s \in Stages, b \in 0..1}
  BY DEF WaitingIn
<1> HIDE DEF H, G
<1>4. Waiting = WaitingIn(stage, flush)
  BY <1>1, <1>2, <1>3
<1> QED
  BY <1>4 DEF Stored, StoredIn

LEMMA WaitsIs ==
  ASSUME NEW st, NEW fl
  PROVE  \A x : x \in WaitingIn(st, fl) <=>
                  \E s \in Stages, b \in 0..1 : \E k :
                    x = <<s, b, k>> /\ Waits(st, fl, s, b, k)
<1> DEFINE G(s, b) == {k \in DOMAIN st[s].buf[b].queue : Waits(st, fl, s, b, k)}
           C(s, b) == {<<s, b, i>> : i \in G(s, b)}
<1>1. WaitingIn(st, fl) = UNION {C(s, b) : s \in Stages, b \in 0..1}
  BY DEF WaitingIn
<1>2. \A s, b, x : x \in C(s, b) <=> \E k : x = <<s, b, k>> /\ Waits(st, fl, s, b, k)
  BY DEF Waits, Heavy
<1> HIDE DEF C
<1> QED
  BY <1>1, <1>2

\* The same commands wait, all but one of them, or one more.
LEMMA WaitingSame ==
  ASSUME NEW st, NEW fl, NEW v, NEW fl2,
         \A s \in Stages, b \in 0..1 : \A k : Waits(v, fl2, s, b, k) <=> Waits(st, fl, s, b, k)
  PROVE  WaitingIn(v, fl2) = WaitingIn(st, fl)
<1>1. \A s \in Stages, b \in 0..1 :
        {k \in DOMAIN v[s].buf[b].queue : Waits(v, fl2, s, b, k)}
          = {k \in DOMAIN st[s].buf[b].queue : Waits(st, fl, s, b, k)}
  BY DEF Waits, Heavy
<1> QED
  BY <1>1 DEF WaitingIn

LEMMA WaitingLess ==
  ASSUME NEW st, NEW fl, NEW v, NEW fl2, IsFiniteSet(WaitingIn(st, fl)),
         NEW s0 \in Stages, NEW b0 \in 0..1, NEW k0,
         \A s \in Stages, b \in 0..1 : \A k :
           Waits(v, fl2, s, b, k) <=> Waits(st, fl, s, b, k) /\ ~ (s = s0 /\ b = b0 /\ k = k0)
  PROVE  /\ IsFiniteSet(WaitingIn(v, fl2))
         /\ Cardinality(WaitingIn(v, fl2))
              = Cardinality(WaitingIn(st, fl)) - (IF Waits(st, fl, s0, b0, k0) THEN 1 ELSE 0)
<1> DEFINE A == WaitingIn(st, fl)
           B == WaitingIn(v, fl2)
           x == <<s0, b0, k0>>
<1>1. B = A \ {x}
  <2>1. ASSUME NEW y \in B PROVE y \in A \ {x}
    <3>0. PICK s \in Stages, b \in 0..1 : \E k : y = <<s, b, k>> /\ Waits(v, fl2, s, b, k)
      BY WaitsIs
    <3>1. PICK k : y = <<s, b, k>> /\ Waits(v, fl2, s, b, k)
      BY <3>0
    <3>2. Waits(st, fl, s, b, k) /\ ~ (s = s0 /\ b = b0 /\ k = k0) /\ k \in DOMAIN st[s].buf[b].queue
      BY <3>1 DEF Waits, Heavy
    <3>3. y \in A
      BY <3>1, <3>2, WaitsIs
    <3> QED
      BY <3>1, <3>2, <3>3
  <2>2. ASSUME NEW y \in A, y # x PROVE y \in B
    <3>0. PICK s \in Stages, b \in 0..1 : \E k : y = <<s, b, k>> /\ Waits(st, fl, s, b, k)
      BY WaitsIs
    <3>1. PICK k : y = <<s, b, k>> /\ Waits(st, fl, s, b, k)
      BY <3>0
    <3>2. ~ (s = s0 /\ b = b0 /\ k = k0)
      BY <2>2, <3>1
    <3>3. Waits(v, fl2, s, b, k)
      BY <3>1, <3>2
    <3>4. k \in DOMAIN v[s].buf[b].queue
      BY <3>3 DEF Waits, Heavy
    <3> QED
      BY <3>1, <3>3, <3>4, WaitsIs
  <2> QED
    BY <2>1, <2>2
<1>2. x \in A <=> Waits(st, fl, s0, b0, k0)
  <2>1. Waits(st, fl, s0, b0, k0) => k0 \in DOMAIN st[s0].buf[b0].queue
    BY DEF Waits, Heavy
  <2>2. ASSUME x \in A PROVE Waits(st, fl, s0, b0, k0)
    <3>0. PICK s \in Stages, b \in 0..1 : \E k : x = <<s, b, k>> /\ Waits(st, fl, s, b, k)
      BY <2>2, WaitsIs
    <3>1. PICK k : x = <<s, b, k>> /\ Waits(st, fl, s, b, k)
      BY <3>0
    <3> QED
      BY <3>1
  <2> QED
    BY <2>1, <2>2, WaitsIs
<1> HIDE DEF A, B, x
<1>3. /\ IsFiniteSet(A \ {x})
      /\ Cardinality(A \ {x}) = IF x \in A THEN Cardinality(A) - 1 ELSE Cardinality(A)
  BY FS_RemoveElement DEF A
<1>4. Cardinality(A) \in Nat
  BY FS_CardinalityType DEF A
<1>5. IsFiniteSet(B) /\ Cardinality(B) = Cardinality(A) - (IF Waits(st, fl, s0, b0, k0) THEN 1 ELSE 0)
  BY <1>1, <1>2, <1>3, <1>4
<1> QED
  BY <1>5 DEF A, B

LEMMA WaitingMore ==
  ASSUME NEW st, NEW fl, NEW v, NEW fl2, IsFiniteSet(WaitingIn(st, fl)),
         NEW s0 \in Stages, NEW b0 \in 0..1, NEW k0, ~ Waits(st, fl, s0, b0, k0),
         Waits(v, fl2, s0, b0, k0),
         \A s \in Stages, b \in 0..1 : \A k :
           Waits(v, fl2, s, b, k) /\ ~ (s = s0 /\ b = b0 /\ k = k0) <=> Waits(st, fl, s, b, k)
  PROVE  /\ IsFiniteSet(WaitingIn(v, fl2))
         /\ Cardinality(WaitingIn(v, fl2)) = Cardinality(WaitingIn(st, fl)) + 1
<1> DEFINE A == WaitingIn(st, fl)
           B == WaitingIn(v, fl2)
           x == <<s0, b0, k0>>
<1>1. B = A \cup {x}
  <2>1. ASSUME NEW y \in B, y # x PROVE y \in A
    <3>0. PICK s \in Stages, b \in 0..1 : \E k : y = <<s, b, k>> /\ Waits(v, fl2, s, b, k)
      BY WaitsIs
    <3>1. PICK k : y = <<s, b, k>> /\ Waits(v, fl2, s, b, k)
      BY <3>0
    <3>2. ~ (s = s0 /\ b = b0 /\ k = k0)
      BY <2>1, <3>1
    <3>3. Waits(st, fl, s, b, k)
      BY <3>1, <3>2
    <3>4. k \in DOMAIN st[s].buf[b].queue
      BY <3>3 DEF Waits, Heavy
    <3> QED
      BY <3>1, <3>3, <3>4, WaitsIs
  <2>2. ASSUME NEW y \in A PROVE y \in B
    <3>0. PICK s \in Stages, b \in 0..1 : \E k : y = <<s, b, k>> /\ Waits(st, fl, s, b, k)
      BY WaitsIs
    <3>1. PICK k : y = <<s, b, k>> /\ Waits(st, fl, s, b, k)
      BY <3>0
    <3>2. Waits(v, fl2, s, b, k)
      BY <3>1
    <3>3. k \in DOMAIN v[s].buf[b].queue
      BY <3>2 DEF Waits, Heavy
    <3> QED
      BY <3>1, <3>2, <3>3, WaitsIs
  <2>3. x \in B
    <3>1. k0 \in DOMAIN v[s0].buf[b0].queue
      BY DEF Waits, Heavy
    <3> QED
      BY <3>1, WaitsIs
  <2> QED
    BY <2>1, <2>2, <2>3
<1>2. x \notin A
  <2> SUFFICES ASSUME x \in A PROVE FALSE
    OBVIOUS
  <2>0. PICK s \in Stages, b \in 0..1 : \E k : x = <<s, b, k>> /\ Waits(st, fl, s, b, k)
    BY WaitsIs
  <2>1. PICK k : x = <<s, b, k>> /\ Waits(st, fl, s, b, k)
    BY <2>0
  <2> QED
    BY <2>1
<1> HIDE DEF A, B, x
<1>3. /\ IsFiniteSet(A \cup {x})
      /\ Cardinality(A \cup {x}) = IF x \in A THEN Cardinality(A) ELSE Cardinality(A) + 1
  BY FS_AddElement DEF A
<1>4. IsFiniteSet(B) /\ Cardinality(B) = Cardinality(A) + 1
  BY <1>1, <1>2, <1>3
<1> QED
  BY <1>4 DEF A, B

-----------------------------------------------------------------------------
(* Every value that was made and not dropped is stored, or is one of n that *)
(* wait.                                                                   *)

Balance(w, n) == n \in Nat /\ w.held = Cardinality(StoredIn(w)) + n

\* e is changed and what it gains or loses is constructed or dropped.
Carried(w, v, e) ==
  LET had == Has(w.ent, e)
      has == Has(v.ent, e) IN
  v \in WorldType /\ Others(w, v, e) /\ v.held = w.held + (Droppable(has \ had) - Droppable(had \ has))

LEMMA CarriedBalance ==
  ASSUME NEW w \in WorldType, NEW v, NEW e \in Entities, Carried(w, v, e), NEW n, Balance(w, n)
  PROVE  Balance(v, n)
<1> DEFINE d == Droppable(Has(v.ent, e) \ Has(w.ent, e)) - Droppable(Has(w.ent, e) \ Has(v.ent, e))
<1>1. v \in WorldType /\ Others(w, v, e) /\ v.held = w.held + d
  BY DEF Carried
<1>2. Has(v.ent, e) \ Has(w.ent, e) \in SUBSET Comps /\ Has(w.ent, e) \ Has(v.ent, e) \in SUBSET Comps
  BY HasIs
<1>3. d \in Int
  BY <1>2, DroppableIs
<1>4. Cardinality(StoredIn(v)) = Cardinality(StoredIn(w)) + d /\ Cardinality(StoredIn(w)) \in Nat
  BY <1>1, StoredMoved
<1> HIDE DEF d
<1> QED
  BY <1>1, <1>3, <1>4 DEF Balance

\* The components are the same, and k values stop waiting.
LEMMA ValueBalance ==
  ASSUME NEW w \in WorldType, NEW v,
         \/ \A sl \in Slots : v.ent[sl].val = w.ent[sl].val
         \/ \E e \in Entities : Others(w, v, e) /\ Has(v.ent, e) = Has(w.ent, e),
         v \in WorldType, NEW n, NEW k, k \in Int, n - k \in Nat, v.held = w.held - k, Balance(w, n)
  PROVE  Balance(v, n - k)
<1>1. Cardinality(StoredIn(v)) = Cardinality(StoredIn(w)) /\ Cardinality(StoredIn(w)) \in Nat
  <2>1. CASE \A sl \in Slots : v.ent[sl].val = w.ent[sl].val
    <3>1. StoredIn(v) = StoredIn(w)
      BY <2>1 DEF StoredIn
    <3>2. StoredIn(w) \in SUBSET (Slots \X Comps)
      BY DEF StoredIn
    <3>3. IsFiniteSet(Slots \X Comps)
      BY Consts, FS_Product
    <3>4. IsFiniteSet(StoredIn(w))
      BY <3>2, <3>3, FS_Subset
    <3> QED
      BY <3>1, <3>4, FS_CardinalityType
  <2>2. CASE \E e \in Entities : Others(w, v, e) /\ Has(v.ent, e) = Has(w.ent, e)
    <3>1. PICK e \in Entities : Others(w, v, e) /\ Has(v.ent, e) = Has(w.ent, e)
      BY <2>2
    <3> DEFINE none == {}
    <3>2. Has(v.ent, e) \ Has(w.ent, e) = none /\ Has(w.ent, e) \ Has(v.ent, e) = none
      BY <3>1
    <3>3. Droppable(none) \in Nat
      BY DroppableIs
    <3> HIDE DEF none
    <3>4. /\ Cardinality(StoredIn(v)) = Cardinality(StoredIn(w))
               + (Droppable(Has(v.ent, e) \ Has(w.ent, e)) - Droppable(Has(w.ent, e) \ Has(v.ent, e)))
          /\ Cardinality(StoredIn(w)) \in Nat
      BY <3>1, StoredMoved
    <3>5. Cardinality(StoredIn(v)) = Cardinality(StoredIn(w)) + (Droppable(none) - Droppable(none))
      BY <3>2, <3>4
    <3> QED
      BY <3>3, <3>4, <3>5
  <2> QED
    BY <2>1, <2>2
<1> QED
  BY <1>1 DEF Balance

LEMMA CommittedCarried ==
  ASSUME NEW w, NEW v, NEW e, NEW T, Committed(w, v, e, T)
  PROVE  Carried(w, v, e)
  BY DEF Committed, Carried, SameLife

LEMMA DestroyCarried ==
  ASSUME NEW w \in WorldType, NEW e \in Entities
  PROVE  Carried(w, Destroy(w, e), e)
<1> DEFINE v == Destroy(w, e)
           had == Has(w.ent, e)
           none == {}
<1>1. Aged(w, v) /\ Others(w, v, e) /\ v.held = w.held + (Droppable(none) - Droppable(had)) /\ Has(v.ent, e) = none
  BY DestroyIs
<1>2. none \ had = none /\ had \ none = had
  OBVIOUS
<1> HIDE DEF v, none, had
<1>3. v.held = w.held + (Droppable(Has(v.ent, e) \ had) - Droppable(had \ Has(v.ent, e)))
  BY <1>1, <1>2
<1> QED
  BY <1>1, <1>3 DEF Carried, Aged, had, v

LEMMA SameCarried ==
  ASSUME NEW w \in WorldType, NEW e
  PROVE  Carried(w, w, e)
<1> DEFINE d == Droppable(Has(w.ent, e) \ Has(w.ent, e))
<1>1. Has(w.ent, e) \ Has(w.ent, e) \in SUBSET Comps
  OBVIOUS
<1>2. d \in Nat
  BY <1>1, DroppableIs
<1>3. w.held \in Int
  BY WorldIs
<1> HIDE DEF d
<1>4. w.held = w.held + (d - d)
  BY <1>2, <1>3
<1> QED
  BY <1>4 DEF Carried, Others, d

LEMMA EffectCarried ==
  ASSUME world \in WorldType, NEW cmd \in Cmds, cmd.kind \notin HasValue \cup {"Skip"}
  PROVE  Carried(world, Effect(cmd), cmd.of.ent)
<1> DEFINE e == cmd.of.ent
           had == Has(world.ent, e)
           v == Effect(cmd)
<1>1. /\ e \in Entities /\ Consistent(cmd)
      /\ cmd.kind \in {"Add", "Remove", "Clear", "Delete", "AddModified", "Modified"}
  BY CmdIs DEF HasValue
<1>2. had \subseteq Comps
  BY HasIs
<1>3. ASSUME NEW T \in SUBSET Comps, v = Commit(world, e, T) PROVE Carried(world, v, e)
  <2> HIDE DEF v, e
  <2>1. Committed(world, v, e, T)
    BY <1>1, <1>3, CommitIs
  <2> QED
    BY <2>1, CommittedCarried
<1>4. CASE cmd.kind \in {"Add", "AddModified"}
  <2>1. v = Commit(world, e, had \cup {cmd.of.comp}) /\ had \cup {cmd.of.comp} \in SUBSET Comps
    BY <1>1, <1>2, <1>4 DEF Effect, Consistent
  <2> HIDE DEF v, e, had
  <2>2. Carried(world, v, e)
    BY <1>3, <2>1
  <2> QED
    BY <2>2 DEF v, e
<1>5. CASE cmd.kind = "Remove"
  <2>1. v = Commit(world, e, had \ {cmd.of.comp}) /\ had \ {cmd.of.comp} \in SUBSET Comps
    BY <1>2, <1>5 DEF Effect
  <2> HIDE DEF v, e, had
  <2>2. Carried(world, v, e)
    BY <1>3, <2>1
  <2> QED
    BY <2>2 DEF v, e
<1>6. CASE cmd.kind = "Clear"
  <2>1. v = Commit(world, e, {}) /\ {} \in SUBSET Comps
    BY <1>6 DEF Effect
  <2> HIDE DEF v, e, had
  <2>2. Carried(world, v, e)
    BY <1>3, <2>1
  <2> QED
    BY <2>2 DEF v, e
<1>7. CASE cmd.kind = "Delete"
  <2>1. v = Destroy(world, e)
    BY <1>7 DEF Effect
  <2> HIDE DEF v, e, had
  <2>2. Carried(world, v, e)
    BY <1>1, <2>1, DestroyCarried
  <2> QED
    BY <2>2 DEF v, e
<1>8. CASE cmd.kind = "Modified"
  <2>1. v = world
    BY <1>8 DEF Effect
  <2> HIDE DEF v, e, had
  <2>2. Carried(world, v, e)
    BY <2>1, SameCarried
  <2> QED
    BY <2>2 DEF v, e
<1> QED
  BY <1>1, <1>4, <1>5, <1>6, <1>7, <1>8

LEMMA DirectCarried ==
  ASSUME NEW w \in WorldType, NEW o \in Operations(Ops)
  PROVE  Carried(w, Direct(w, o), o.ent)
<1> DEFINE e == o.ent
           had == Has(w.ent, e)
           v == Direct(w, o)
<1>1. /\ e \in Entities /\ o.op \in {"add", "remove", "set", "clear", "delete"}
      /\ o.op \in {"add", "remove", "set"} => o.comp \in Comps
      /\ o.op = "set" => o.arg \in Values
  BY OperationIs, ConstantsAssumption
<1>2. had \subseteq Comps
  BY HasIs
<1>3. ASSUME NEW T \in SUBSET Comps, NEW m, m = Commit(w, e, T)
      PROVE  Committed(w, m, e, T) /\ Carried(w, m, e)
  <2> HIDE DEF e
  <2>1. Committed(w, m, e, T)
    BY <1>1, <1>3, CommitIs
  <2> QED
    BY <2>1, CommittedCarried
<1>4. CASE o.op = "add"
  <2>1. v = Commit(w, e, had \cup {o.comp}) /\ had \cup {o.comp} \in SUBSET Comps
    BY <1>1, <1>2, <1>4 DEF Direct
  <2> QED
    BY <1>3, <2>1
<1>5. CASE o.op = "remove"
  <2>1. v = Commit(w, e, had \ {o.comp}) /\ had \ {o.comp} \in SUBSET Comps
    BY <1>1, <1>2, <1>5 DEF Direct
  <2> QED
    BY <1>3, <2>1
<1>6. CASE o.op = "clear"
  <2>1. v = Commit(w, e, {}) /\ {} \in SUBSET Comps
    BY <1>6 DEF Direct
  <2> QED
    BY <1>3, <2>1
<1>7. CASE o.op = "delete"
  <2>1. v = Destroy(w, e)
    BY <1>7 DEF Direct
  <2> QED
    BY <1>1, <2>1, DestroyCarried
<1>8. CASE o.op = "set"
  <2> DEFINE c == o.comp
             T == had \cup {c}
             m == Commit(w, e, T)
             k == MakeValue(m, c)
  <2>1. v = Overwrite(k, e, c, o.arg, TRUE) /\ T \in SUBSET Comps /\ T \cup {c} = T /\ c \in Comps
        /\ o.arg \in Values
    BY <1>1, <1>2, <1>8 DEF Direct
  <2>2. Committed(w, m, e, T) /\ m \in WorldType
    <3> HIDE DEF m, T
    <3>1. Committed(w, m, e, T)
      BY <1>3, <2>1 DEF m
    <3> QED
      BY <3>1 DEF Committed, SameLife
  <2> HIDE DEF m, T, had, c
  <2>3. k \in WorldType /\ k.ent = m.ent /\ k.belief = m.belief /\ k.held = m.held + Droppable({c})
    BY <2>1, <2>2, MakeValueIs
  <2> HIDE DEF k, v, e
  <2>4. Overwritten(k, v, e, c, TRUE)
    BY <1>1, <2>1, <2>3, OverwriteIs
  <2>5. v \in WorldType /\ Others(w, v, e)
    BY <2>2, <2>3, <2>4 DEF Overwritten, Committed, Others, SameLife
  <2>6. Has(v.ent, e) = T
    BY <2>1, <2>2, <2>3, <2>4 DEF Overwritten, Committed
  <2>7. v.held = m.held
    <3>1. Droppable({c}) \in Nat /\ m.held \in Int
      BY <2>1, <2>2, DroppableIs, WorldIs
    <3>2. v.held = k.held - Droppable({c})
      BY <2>4 DEF Overwritten
    <3> QED
      BY <2>3, <3>1, <3>2
  <2>8. Carried(w, v, e)
    BY <2>2, <2>5, <2>6, <2>7 DEF Carried, Committed, had
  <2> QED
    BY <2>8 DEF v, e
<1> QED
  BY <1>1, <1>4, <1>5, <1>6, <1>7, <1>8

-----------------------------------------------------------------------------
(* The values of commands, and the commands that are recorded.             *)

SameHeavy(st, v) ==
  \A s \in Stages, b \in 0..1 : \A k : Heavy(v[s].buf[b].queue, k) <=> Heavy(st[s].buf[b].queue, k)

LEMMA HeavyPut ==
  ASSUME NEW st, NEW v, NEW s \in Stages, NEW b \in 0..1, NEW nb, PutBuf(st, v, s, b, nb),
         \A k : Heavy(nb.queue, k) <=> Heavy(st[s].buf[b].queue, k)
  PROVE  SameHeavy(st, v)
<1> SUFFICES ASSUME NEW t \in Stages, NEW c \in 0..1
             PROVE  \A k : Heavy(v[t].buf[c].queue, k) <=> Heavy(st[t].buf[c].queue, k)
  BY DEF SameHeavy
<1>1. CASE t # s
  BY <1>1 DEF PutBuf, Except
<1>2. CASE t = s /\ c = b
  BY <1>2 DEF PutBuf
<1>3. CASE t = s /\ c # b
  <2>1. c = 1 - b
    BY <1>3
  <2> QED
    BY <1>3, <2>1 DEF PutBuf
<1> QED
  BY <1>1, <1>2, <1>3

LEMMA HeavyKept ==
  ASSUME NEW q \in Seq(Cmds), NEW q2 \in Seq(Cmds), Len(q2) = Len(q),
         \A k \in 1..Len(q) : Weighs(q2[k]) <=> Weighs(q[k])
  PROVE  \A k : Heavy(q2, k) <=> Heavy(q, k)
<1>1. DOMAIN q = 1..Len(q) /\ DOMAIN q2 = 1..Len(q)
  BY LenProperties
<1> QED
  BY <1>1 DEF Heavy

LEMMA HeavyGrown ==
  ASSUME NEW buf \in BufType, NEW cmd, NEW nb, Grown(buf, cmd, nb)
  PROVE  /\ Len(buf.queue) + 1 \in DOMAIN nb.queue /\ ~ Heavy(buf.queue, Len(buf.queue) + 1)
         /\ \A k : Heavy(nb.queue, k) <=> Heavy(buf.queue, k) \/ (k = Len(buf.queue) + 1 /\ Weighs(cmd))
<1> DEFINE q == buf.queue
           q2 == nb.queue
           n == Len(q)
           m == Len(q2)
<1>1. DOMAIN q = 1..n /\ DOMAIN q2 = 1..m /\ n \in Nat /\ m \in Nat /\ n + 1 <= m
  BY BufIs DEF Grown
<1>2. /\ \A k \in 1..n : Weighs(q2[k]) <=> Weighs(q[k])
      /\ Weighs(q2[n + 1]) <=> Weighs(cmd)
      /\ \A k \in n + 2 .. m : ~ Weighs(q2[k])
  BY DEF Grown, Alike, Weighs
<1> HIDE DEF q, q2, n, m
<1>3. n + 1 \in 1..m /\ ~ (n + 1 \in 1..n)
  BY <1>1
<1>4. ASSUME NEW k PROVE Heavy(q2, k) <=> Heavy(q, k) \/ (k = n + 1 /\ Weighs(cmd))
  <2>1. CASE k \in 1..n
    <3>1. k \in 1..m /\ k # n + 1
      BY <1>1, <2>1
    <3> QED
      BY <1>1, <1>2, <2>1, <3>1 DEF Heavy
  <2>2. CASE k = n + 1
    BY <1>1, <1>2, <1>3, <2>2 DEF Heavy
  <2>3. CASE k \notin 1..n /\ k # n + 1
    <3>1. k \in 1..m => k \in n + 2 .. m
      BY <1>1, <2>3
    <3> QED
      BY <1>1, <1>2, <2>3, <3>1 DEF Heavy
  <2> QED
    BY <2>1, <2>2, <2>3
<1> QED
  BY <1>1, <1>3, <1>4 DEF Heavy, q, q2, n, m

\* What observers record has no values.
LEMMA ObservedHeavy ==
  ASSUME NEW st \in [Stages -> StageType], NEW st1, NEW ent, NEW e, Observed(st, st1, ent, e)
  PROVE  SameHeavy(st, st1)
<1>1. CASE st1 = st
  BY <1>1 DEF SameHeavy
<1>2. ASSUME NEW o \in Operations(HookOps), RecordedAs(st, st1, ent, Main, o) PROVE SameHeavy(st, st1)
  <2> DEFINE b == st[Main].cmd
             cmd == Command(CmdKind(ent, o), o)
             nb == st1[Main].buf[b]
             buf == st[Main].buf[b]
  <2>1. b \in 0..1 /\ buf \in BufType /\ Main \in Stages
    BY Consts, StageIs
  <2>2. o \in AllOps /\ o.op # "set"
    <3>1. o.op \in HookOps /\ HookOps \subseteq {"add", "remove", "clear", "delete"}
      BY OperationIs, ConstantsAssumption
    <3>2. HookOps \subseteq Ops \cup HookOps \cup {"set"}
      OBVIOUS
    <3>3. o \in AllOps
      BY <3>2, OperationSub DEF AllOps
    <3> QED
      BY <3>1, <3>3
  <2>3. cmd.val = None
    BY <2>2, CommandIs
  <2>4. PutBuf(st, st1, Main, b, nb) /\ Grown(buf, cmd, nb)
    BY <1>2 DEF RecordedAs
  <2> HIDE DEF cmd, b, nb, buf
  <2>5. \A k : Heavy(nb.queue, k) <=> Heavy(buf.queue, k)
    BY <2>1, <2>3, <2>4, HeavyGrown DEF Weighs
  <2> QED
    BY <2>1, <2>4, <2>5, HeavyPut DEF buf
<1> QED
  BY <1>1, <1>2 DEF Observed

\* A value is made for the storage or for the command.
LEMMA WrittenBalance ==
  ASSUME NEW w \in WorldType, NEW S, NEW o \in Operations(S), NEW n, Balance(w, n)
  PROVE  Balance(WrittenThrough(w, o),
           n + (IF o.op = "set" /\ o.comp \notin Has(w.ent, o.ent) /\ Kind[o.comp] # "trivial" THEN 1 ELSE 0))
<1> DEFINE e == o.ent
           c == o.comp
           k == MakeValue(w, c)
           v == WrittenThrough(w, o)
           d == Droppable({c})
<1>1. n \in Nat
  BY DEF Balance
<1>2. CASE o.op # "set"
  <2>1. v = w
    BY <1>2 DEF WrittenThrough
  <2>2. n + 0 = n
    BY <1>1
  <2> QED
    BY <1>2, <2>1, <2>2
<1>3. CASE o.op = "set"
  <2>1. e \in Entities /\ c \in Comps /\ o.arg \in Values
    BY <1>3, OperationIs
  <2>2. k \in WorldType /\ k.ent = w.ent /\ k.belief = w.belief /\ k.held = w.held + d
    BY <2>1, MakeValueIs
  <2>3. d = (IF Kind[c] # "trivial" THEN 1 ELSE 0)
    BY <2>1, DroppableOne
  <2>4. CASE c \in Has(w.ent, e)
    <3>1. v = Overwrite(k, e, c, o.arg, TRUE)
      BY <1>3, <2>4 DEF WrittenThrough
    <3> HIDE DEF k, v, d
    <3>2. Overwritten(k, v, e, c, TRUE)
      BY <2>1, <2>2, <3>1, OverwriteIs
    <3>3. v \in WorldType /\ Others(w, v, e) /\ Has(v.ent, e) = Has(w.ent, e)
      BY <2>2, <2>4, <3>2 DEF Overwritten, Others, SameLife
    <3>4. v.held = w.held - 0
      <4>1. w.held \in Int
        BY WorldIs
      <4> QED
        BY <2>2, <2>3, <3>2, <4>1 DEF Overwritten, d
    <3>5. Balance(v, n - 0)
      <4>1. 0 \in Int /\ n - 0 \in Nat
        BY <1>1
      <4> QED
        BY <2>1, <3>3, <3>4, <4>1, ValueBalance
    <3>6. n - 0 = n + 0
      BY <1>1
    <3> QED
      BY <2>4, <3>5, <3>6 DEF v
  <2>5. CASE c \notin Has(w.ent, e)
    <3>1. v = k
      BY <1>3, <2>5 DEF WrittenThrough
    <3> HIDE DEF k, v, d
    <3>2. v.held = w.held - (0 - d) /\ 0 - d \in Int /\ n - (0 - d) \in Nat /\ n - (0 - d) = n + d
      <4>1. w.held \in Int
        BY WorldIs
      <4> QED
        BY <1>1, <2>2, <2>3, <3>1, <4>1
    <3>3. Balance(v, n - (0 - d))
      BY <2>2, <3>1, <3>2, ValueBalance
    <3>4. Balance(v, n + d)
      BY <3>2, <3>3
    <3>5. d = IF o.op = "set" /\ o.comp \notin Has(w.ent, o.ent) /\ Kind[o.comp] # "trivial" THEN 1 ELSE 0
      BY <1>3, <2>3, <2>5
    <3> QED
      BY <3>4, <3>5 DEF v
  <2> QED
    BY <2>4, <2>5
<1> QED
  BY <1>2, <1>3

-----------------------------------------------------------------------------
(* What a step of a flush that nothing interrupts leaves waiting.           *)

\* Nothing happens between the two steps of a command with a value: all
\* commands go to one stage, or no observer records any.
Undisturbed == Stages = {Main} \/ HookOps = {}

LEMMA UnpassedOne ==
  ASSUME NEW fl, DOMAIN fl = {1}, NEW s, NEW b, NEW k
  PROVE  Unpassed(fl, s, b, k) <=> (fl[1].stage = s /\ fl[1].buf = b => k >= fl[1].pos)
  BY DEF Unpassed

\* The one flush there is, and the one that it goes on as.
LEMMA OneFrame ==
  ASSUME Sound(world, stage, flush), Len(flush) = 1
  PROVE  /\ flush # <<>> /\ DOMAIN flush = {1} /\ Top = flush[1] /\ flush \in Seq(FrameType)
         /\ Top.stage \in Stages /\ Top.buf \in 0..1 /\ Top.pos \in Nat \ {0}
         /\ Buf = stage[Top.stage].buf[Top.buf] /\ Buf \in BufType
         /\ DOMAIN Buf.queue = 1..Len(Buf.queue) /\ Len(Buf.queue) \in Nat
         /\ \A fl, pos, step, added :
              Moved(flush, fl, pos, step, added) =>
                /\ DOMAIN fl = {1} /\ Len(fl) = 1 /\ fl[1].stage = Top.stage /\ fl[1].buf = Top.buf
                /\ fl[1].pos = pos /\ fl[1].step = step
<1>1. flush \in Seq(FrameType)
  BY DEF Sound, SoundBut, Typed
<1>2. flush # <<>> /\ DOMAIN flush = 1..1
  BY <1>1, FramesAre
<1>3. 1..1 = {1}
  OBVIOUS
<1>4. /\ Top = flush[1] /\ Top.stage \in Stages /\ Top.buf \in 0..1 /\ Top.pos \in Nat \ {0}
      /\ Buf = stage[Top.stage].buf[Top.buf] /\ Buf \in BufType
  BY <1>2, TopIs
<1>5. DOMAIN Buf.queue = 1..Len(Buf.queue) /\ Len(Buf.queue) \in Nat
  BY <1>4, BufIs
<1>6. ASSUME NEW fl, NEW pos, NEW step, NEW added, Moved(flush, fl, pos, step, added)
      PROVE  /\ DOMAIN fl = {1} /\ Len(fl) = 1 /\ fl[1].stage = Top.stage /\ fl[1].buf = Top.buf
             /\ fl[1].pos = pos /\ fl[1].step = step
  <2>1. fl \in Seq(FrameType) /\ Len(fl) = 1
    BY <1>6 DEF Moved
  <2>2. DOMAIN fl = 1..1
    BY <2>1, FramesAre
  <2> QED
    BY <1>3, <1>4, <1>6, <2>1, <2>2 DEF Moved
<1> QED
  BY <1>1, <1>2, <1>3, <1>4, <1>5, <1>6

LEMMA StayWaits ==
  ASSUME Sound(world, stage, flush), Len(flush) = 1, SameHeavy(stage, stage'),
         NEW step, NEW added, Moved(flush, flush', Top.pos, step, added)
  PROVE  WaitingIn(stage', flush') = WaitingIn(stage, flush)
<1>1. /\ DOMAIN flush = {1} /\ Top = flush[1] /\ DOMAIN flush' = {1}
      /\ flush'[1].stage = Top.stage /\ flush'[1].buf = Top.buf /\ flush'[1].pos = Top.pos
  BY OneFrame
<1>2. ASSUME NEW s \in Stages, NEW b \in 0..1, NEW k
      PROVE  Waits(stage', flush', s, b, k) <=> Waits(stage, flush, s, b, k)
  <2>1. Unpassed(flush', s, b, k) <=> Unpassed(flush, s, b, k)
    BY <1>1, UnpassedOne
  <2> QED
    BY <2>1 DEF Waits, SameHeavy
<1> QED
  BY <1>2, WaitingSame

LEMMA PassWaits ==
  ASSUME Sound(world, stage, flush), Len(flush) = 1, SameHeavy(stage, stage'),
         IsFiniteSet(WaitingIn(stage, flush)), Top.pos <= Len(Buf.queue),
         NEW step, NEW added, Moved(flush, flush', Top.pos + 1, step, added)
  PROVE  /\ IsFiniteSet(WaitingIn(stage', flush'))
         /\ Cardinality(WaitingIn(stage', flush'))
              = Cardinality(WaitingIn(stage, flush)) - (IF Weighs(Cmd) THEN 1 ELSE 0)
<1> DEFINE t == Top.stage
           c == Top.buf
           p == Top.pos
<1>1. /\ DOMAIN flush = {1} /\ Top = flush[1] /\ DOMAIN flush' = {1}
      /\ flush'[1].stage = t /\ flush'[1].buf = c /\ flush'[1].pos = p + 1
      /\ t \in Stages /\ c \in 0..1 /\ p \in Nat \ {0} /\ Buf = stage[t].buf[c]
      /\ DOMAIN Buf.queue = 1..Len(Buf.queue) /\ Len(Buf.queue) \in Nat
      /\ flush[1].stage = t /\ flush[1].buf = c /\ flush[1].pos = p
  BY OneFrame
<1>2. p \in DOMAIN Buf.queue /\ Cmd = Buf.queue[p]
  BY <1>1 DEF Cmd
<1> HIDE DEF t, c, p
<1>3. ASSUME NEW s \in Stages, NEW b \in 0..1, NEW k
      PROVE  Waits(stage', flush', s, b, k) <=> Waits(stage, flush, s, b, k) /\ ~ (s = t /\ b = c /\ k = p)
  <2>1. Heavy(stage'[s].buf[b].queue, k) <=> Heavy(stage[s].buf[b].queue, k)
    BY DEF SameHeavy
  <2>2. Unpassed(flush', s, b, k) <=> (t = s /\ c = b => k >= p + 1)
    BY <1>1, UnpassedOne
  <2>3. Unpassed(flush, s, b, k) <=> (t = s /\ c = b => k >= p)
    BY <1>1, UnpassedOne
  <2>4. CASE s = t /\ b = c
    <3>1. CASE k \in 1..Len(Buf.queue)
      <4>1. k >= p + 1 <=> k >= p /\ k # p
        BY <1>1, <3>1
      <4> QED
        BY <2>1, <2>2, <2>3, <2>4, <4>1 DEF Waits
    <3>2. CASE k \notin 1..Len(Buf.queue)
      <4>1. ~ Heavy(stage[s].buf[b].queue, k)
        BY <1>1, <2>4, <3>2 DEF Heavy
      <4> QED
        BY <2>1, <4>1 DEF Waits
    <3> QED
      BY <3>1, <3>2
  <2>5. CASE ~ (s = t /\ b = c)
    BY <2>1, <2>2, <2>3, <2>5 DEF Waits
  <2> QED
    BY <2>4, <2>5
<1>4. Waits(stage, flush, t, c, p) <=> Weighs(Cmd)
  <2>1. Unpassed(flush, t, c, p) <=> (t = t /\ c = c => p >= p)
    BY <1>1, UnpassedOne
  <2>2. p >= p
    BY <1>1
  <2>3. Heavy(stage[t].buf[c].queue, p) <=> Weighs(Cmd)
    BY <1>1, <1>2 DEF Heavy
  <2> QED
    BY <2>1, <2>2, <2>3 DEF Waits
<1>5. t \in Stages /\ c \in 0..1
  BY <1>1
<1>6. /\ IsFiniteSet(WaitingIn(stage', flush'))
      /\ Cardinality(WaitingIn(stage', flush'))
           = Cardinality(WaitingIn(stage, flush)) - (IF Waits(stage, flush, t, c, p) THEN 1 ELSE 0)
  BY <1>3, <1>5, WaitingLess
<1> QED
  BY <1>4, <1>6

\* The observers do not interrupt the flush.
LEMMA QuietStep ==
  ASSUME QueueInv, Undisturbed, Len(flush) = 1,
         NEW pos \in Nat \ {0}, NEW step \in {"batch", "moves", "exec", "write"}, NEW added \in SUBSET Comps,
         NEW e, NEW w, NEW st, NEW nb, NEW st1, Stepped(e, w, st, nb, At(pos, step, added), st1),
         \A k : Heavy(nb.queue, k) <=> Heavy(Buf.queue, k)
  PROVE  Moved(flush, flush', pos, step, added) /\ SameHeavy(stage, stage')
<1> DEFINE fl == At(pos, step, added)
<1>1. Sound(world, stage, flush) /\ DeferOK /\ stage \in [Stages -> StageType]
  BY DEF QueueInv, Sound, SoundBut, Typed
<1>2. /\ flush # <<>> /\ DOMAIN flush = {1} /\ Top = flush[1] /\ flush \in Seq(FrameType)
      /\ Top.stage \in Stages /\ Top.buf \in 0..1 /\ Buf = stage[Top.stage].buf[Top.buf]
  BY <1>1, OneFrame
<1>3. Moved(flush, fl, pos, step, added)
  BY <1>2, AtIs
<1>4. DOMAIN fl = {1} /\ fl[1].stage = Top.stage
  BY <1>1, <1>3, OneFrame
<1>5. InFlush(fl, Main) <=> Top.stage = Main
  BY <1>4 DEF InFlush
<1>6. /\ PutBuf(stage, st, Top.stage, Top.buf, nb) /\ Observed(st, st1, w.ent, e)
      /\ EndTo(st1, fl, Main, stage', flush')
  BY DEF Stepped
<1> HIDE DEF fl
<1>7. st \in [Stages -> StageType]
  BY <1>6 DEF PutBuf, Except
<1>8. SameHeavy(stage, st)
  BY <1>2, <1>6, HeavyPut
<1>9. SameHeavy(st, st1)
  BY <1>6, <1>7, ObservedHeavy
<1>10. stage' = st1 /\ flush' = fl
  <2>1. CASE Top.stage = Main
    BY <1>5, <1>6, <2>1 DEF EndTo
  <2>2. CASE Top.stage # Main
    <3>1. HookOps = {}
      BY <1>2, <2>2 DEF Undisturbed
    <3>2. st1 = st
      <4>1. \A o : o \notin Operations(HookOps)
        BY <3>1, OperationIs
      <4> QED
        BY <1>6, <4>1 DEF Observed
    <3>3. Main \in Stages
      BY Consts
    <3>4. st[Main] = stage[Main]
      BY <1>6, <2>2, <3>3 DEF PutBuf, Except
    <3>5. stage[Main].buf[stage[Main].cmd].queue = <<>>
      <4>1. stage[Main].cmd \in 0..1
        BY <1>1, <3>3, StageIs
      <4>2. ~ InFlush(flush, Main)
        BY <1>2, <2>2 DEF InFlush
      <4>3. stage[Main].defer = 0
        BY <1>1, <1>2 DEF DeferOK, Idle
      <4>4. ~ Filled(stage, flush, Main, stage[Main].cmd)
        BY <4>2, <4>3 DEF Filled, Flushed, InFlush
      <4> QED
        BY <1>1, <3>3, <4>1, <4>4 DEF Sound, SoundBut, BuffersOK
    <3>6. SwapTo(st, fl, Main, stage', flush')
      BY <1>5, <1>6, <2>2, <3>2 DEF EndTo
    <3> QED
      BY <3>2, <3>4, <3>5, <3>6 DEF SwapTo
  <2> QED
    BY <2>1, <2>2
<1> QED
  BY <1>3, <1>8, <1>9, <1>10 DEF SameHeavy

\* A flush that starts has not passed anything.
LEMMA SwapWaits ==
  ASSUME NEW st \in [Stages -> StageType], NEW fl, Len(fl) = 0, DOMAIN fl = {}, NEW s \in Stages,
         NEW v, NEW fl2, SwapTo(st, fl, s, v, fl2)
  PROVE  WaitingIn(v, fl2) = WaitingIn(st, fl) /\ Len(fl2) <= 1 /\ AllBatch(fl2)
<1>1. AllBatch(fl2)
  BY SwapQuiet
<1>2. CASE v = st /\ fl2 = fl
  BY <1>1, <1>2
<1>3. CASE Flip(st, s, v) /\ NewFrame(fl, fl2, s, st[s].cmd)
  <2>1. fl2 \in Seq(FrameType) /\ Len(fl2) = 1 /\ fl2[1].pos = 1
    BY <1>3 DEF NewFrame
  <2>2. DOMAIN fl2 = 1..1
    BY <2>1, FramesAre
  <2>3. DOMAIN fl2 = {1}
    BY <2>2
  <2>4. \A t \in Stages : v[t].buf = st[t].buf
    BY <1>3 DEF Flip, Except
  <2>5. ASSUME NEW t \in Stages, NEW b \in 0..1, NEW k
        PROVE  Waits(v, fl2, t, b, k) <=> Waits(st, fl, t, b, k)
    <3>1. Unpassed(fl, t, b, k)
      BY DEF Unpassed
    <3>2. Heavy(st[t].buf[b].queue, k) => Unpassed(fl2, t, b, k)
      <4> SUFFICES ASSUME Heavy(st[t].buf[b].queue, k) PROVE k >= 1
        BY <2>1, <2>3, UnpassedOne
      <4>1. st[t].buf[b] \in BufType
        BY StageIs
      <4>2. k \in 1..Len(st[t].buf[b].queue) /\ Len(st[t].buf[b].queue) \in Nat
        BY <4>1, BufIs DEF Heavy
      <4> QED
        BY <4>2
    <3> QED
      BY <2>4, <3>1, <3>2 DEF Waits
  <2>6. WaitingIn(v, fl2) = WaitingIn(st, fl)
    BY <2>5, WaitingSame
  <2> QED
    BY <1>1, <2>1, <2>6
<1> QED
  BY <1>2, <1>3 DEF SwapTo

LEMMA FinishWaits ==
  ASSUME QueueInv, Len(flush) = 1, FinishBuffer
  PROVE  WaitingIn(stage', flush') = WaitingIn(stage, flush) /\ Len(flush') <= 1 /\ AllBatch(flush')
<1>1. Sound(world, stage, flush) /\ stage \in [Stages -> StageType] /\ Top.pos > Len(Buf.queue)
  BY FinishBufferIs DEF QueueInv, Sound, SoundBut, Typed
<1>2. PICK st, nb, fl1 : /\ PutBuf(stage, st, Top.stage, Top.buf, nb) /\ Emptied(Buf, nb)
                         /\ Over(flush, fl1) /\ SwapTo(st, fl1, Top.stage, stage', flush')
  BY FinishBufferIs
<1>3. /\ DOMAIN flush = {1} /\ Top = flush[1] /\ Top.stage \in Stages /\ Top.buf \in 0..1
      /\ Top.pos \in Nat \ {0} /\ Buf = stage[Top.stage].buf[Top.buf]
      /\ DOMAIN Buf.queue = 1..Len(Buf.queue) /\ Len(Buf.queue) \in Nat
  BY <1>1, OneFrame
<1>4. fl1 \in Seq(FrameType) /\ Len(fl1) = 0 /\ DOMAIN fl1 = {}
  <2>1. fl1 \in Seq(FrameType) /\ Len(fl1) = 0
    BY <1>2 DEF Over
  <2>2. fl1 = <<>>
    BY <2>1, FramesAre
  <2> QED
    BY <2>1, <2>2, Empty
<1>5. st \in [Stages -> StageType]
  BY <1>2 DEF PutBuf, Except
<1>6. /\ WaitingIn(stage', flush') = WaitingIn(st, fl1) /\ Len(flush') <= 1 /\ AllBatch(flush')
  BY <1>2, <1>3, <1>4, <1>5, SwapWaits
<1>7. ASSUME NEW s \in Stages, NEW b \in 0..1, NEW k
      PROVE  Waits(st, fl1, s, b, k) <=> Waits(stage, flush, s, b, k)
  <2>1. Unpassed(fl1, s, b, k)
    BY <1>4 DEF Unpassed
  <2>2. CASE s = Top.stage /\ b = Top.buf
    <3>1. ~ Heavy(st[s].buf[b].queue, k)
      BY <1>2, <2>2, Empty DEF PutBuf, Emptied, Heavy
    <3>2. Heavy(Buf.queue, k) => ~ Unpassed(flush, s, b, k)
      <4> SUFFICES ASSUME Heavy(Buf.queue, k) PROVE ~ (k >= Top.pos)
        BY <1>3, <2>2, UnpassedOne
      <4> DEFINE m == Len(Buf.queue)
                 p == Top.pos
      <4>1. k \in 1..m /\ m \in Nat /\ p \in Nat /\ p > m
        BY <1>1, <1>3 DEF Heavy
      <4> HIDE DEF m, p
      <4>2. ~ (k >= p)
        BY ONLY <4>1
      <4> QED
        BY <4>2 DEF p
    <3> QED
      BY <1>3, <2>2, <3>1, <3>2 DEF Waits
  <2>3. CASE ~ (s = Top.stage /\ b = Top.buf)
    <3>1. Unpassed(flush, s, b, k)
      BY <1>3, <2>3, UnpassedOne
    <3>2. st[s].buf[b] = stage[s].buf[b]
      <4>1. CASE s # Top.stage
        BY <1>2, <4>1 DEF PutBuf, Except
      <4>2. CASE s = Top.stage
        <5>1. b = 1 - Top.buf
          BY <1>3, <2>3, <4>2
        <5> QED
          BY <1>2, <4>2, <5>1 DEF PutBuf
      <4> QED
        BY <4>1, <4>2
    <3> QED
      BY <2>1, <3>1, <3>2 DEF Waits
  <2> QED
    BY <2>2, <2>3
<1> QED
  BY <1>6, <1>7, WaitingSame

-----------------------------------------------------------------------------
(* No value is lost, and none is dropped twice.                            *)

Held(w, st, fl) ==
  IsFiniteSet(WaitingIn(st, fl)) /\ Balance(w, Cardinality(WaitingIn(st, fl)))

\* A value is moved over a component that is there.
TargetsHave(w, st, fl) ==
  \A i \in DOMAIN fl : fl[i].step = "write" =>
    LET cmd == CmdAt(st, fl[i]) IN cmd.of.comp \in Has(w.ent, cmd.of.ent)

ValueInv == Len(flush) <= 1 /\ TargetsHave(world, stage, flush) /\ Held(world, stage, flush)

LEMMA BatchHave ==
  ASSUME NEW w, NEW st, NEW fl, \A i \in DOMAIN fl : fl[i].step # "write"
  PROVE  TargetsHave(w, st, fl)
  BY DEF TargetsHave

LEMMA HeldSame ==
  ASSUME NEW w, NEW st, NEW fl, Held(w, st, fl), NEW v, NEW fl2, WaitingIn(v, fl2) = WaitingIn(st, fl)
  PROVE  Held(w, v, fl2)
  BY DEF Held

LEMMA HeldCarried ==
  ASSUME NEW w \in WorldType, NEW st, NEW fl, Held(w, st, fl),
         NEW v, NEW e \in Entities, Carried(w, v, e)
  PROVE  Held(v, st, fl)
  BY CarriedBalance DEF Held

\* An operation that is recorded.
LEMMA DeferHeld ==
  ASSUME QueueInv, Held(world, stage, flush), NEW s \in Stages, NEW o \in Operations(Ops), Defer(s, o)
  PROVE  Held(world', stage', flush')
<1> DEFINE b == stage[s].cmd
           cmd == Command(CmdKind(world.ent, o), o)
           buf == stage[s].buf[b]
           nb == stage'[s].buf[b]
           n == Len(buf.queue) + 1
           N == Cardinality(WaitingIn(stage, flush))
           new == o.op = "set" /\ o.comp \notin Has(world.ent, o.ent) /\ Kind[o.comp] # "trivial"
<1>1. /\ world \in WorldType /\ stage \in [Stages -> StageType] /\ flush = <<>> /\ flush' = flush
      /\ world' = WrittenThrough(world, o) /\ RecordedAs(stage, stage', world.ent, s, o)
  BY DeferIs DEF QueueInv, Sound, SoundBut, Typed, Idle
<1>2. b \in 0..1 /\ buf \in BufType
  BY <1>1, StageIs
<1>3. PutBuf(stage, stage', s, b, nb) /\ Grown(buf, cmd, nb)
  BY <1>1 DEF RecordedAs
<1>4. Weighs(cmd) <=> new
  <2>1. o \in AllOps
    <3>1. Ops \subseteq Ops \cup HookOps \cup {"set"}
      OBVIOUS
    <3> QED
      BY <3>1, OperationSub DEF AllOps
  <2>2. /\ cmd.of = o /\ (cmd.val # None => o.op = "set" /\ o.comp \notin Has(world.ent, o.ent))
        /\ (o.op = "set" /\ o.comp \notin Has(world.ent, o.ent)) => cmd.val = o.arg
    BY <2>1, CommandIs
  <2>3. o.op = "set" => o.arg # None
    BY OperationIs
  <2> HIDE DEF cmd
  <2> QED
    BY <2>2, <2>3 DEF Weighs
<1> HIDE DEF cmd, nb, new
<1>5. /\ n \in DOMAIN nb.queue /\ ~ Heavy(buf.queue, n)
      /\ \A k : Heavy(nb.queue, k) <=> Heavy(buf.queue, k) \/ (k = n /\ Weighs(cmd))
  BY <1>2, <1>3, HeavyGrown
<1> HIDE DEF n
<1>6. \A t \in Stages, c \in 0..1 : \A k : Unpassed(flush, t, c, k) /\ Unpassed(flush', t, c, k)
  BY <1>1, Empty DEF Unpassed
<1>7. IsFiniteSet(WaitingIn(stage, flush)) /\ Balance(world, N) /\ N \in Nat
  BY DEF Held, Balance
<1>8. Balance(world', N + (IF new THEN 1 ELSE 0))
  <2> HIDE DEF N
  <2> QED
    BY <1>1, <1>7, WrittenBalance DEF new
<1>9. CASE ~ new
  <2>1. SameHeavy(stage, stage')
    BY <1>2, <1>3, <1>4, <1>5, <1>9, HeavyPut DEF buf
  <2>2. WaitingIn(stage', flush') = WaitingIn(stage, flush)
    BY <1>6, <2>1, WaitingSame DEF SameHeavy, Waits
  <2>3. Balance(world', N)
    BY <1>7, <1>8, <1>9
  <2> QED
    BY <1>7, <2>2, <2>3 DEF Held
<1>10. CASE new
  <2>1. ASSUME NEW t \in Stages, NEW c \in 0..1, NEW k
        PROVE  Waits(stage', flush', t, c, k) /\ ~ (t = s /\ c = b /\ k = n) <=> Waits(stage, flush, t, c, k)
    <3>1. CASE t = s /\ c = b
      BY <1>5, <1>6, <3>1 DEF Waits, nb, buf
    <3>2. CASE t # s
      BY <1>3, <1>6, <3>2 DEF Waits, PutBuf, Except
    <3>3. CASE t = s /\ c # b
      <4>1. c = 1 - b
        BY <1>2, <3>3
      <4> QED
        BY <1>3, <1>6, <3>3, <4>1 DEF Waits, PutBuf
    <3> QED
      BY <3>1, <3>2, <3>3
  <2>2. ~ Waits(stage, flush, s, b, n) /\ Waits(stage', flush', s, b, n)
    BY <1>2, <1>4, <1>5, <1>6, <1>10 DEF Waits, nb, buf
  <2>3. IsFiniteSet(WaitingIn(stage', flush')) /\ Cardinality(WaitingIn(stage', flush')) = N + 1
    BY <1>2, <1>7, <2>1, <2>2, WaitingMore
  <2>4. Balance(world', N + 1)
    BY <1>8, <1>10
  <2> QED
    BY <2>3, <2>4 DEF Held
<1> QED
  BY <1>9, <1>10

\* The application changes how deep the stages are deferred.
LEMMA LoweredHeld ==
  ASSUME QueueInv, flush = <<>>, Held(world, stage, flush), NEW s \in Stages, Lowered(s), world' = world
  PROVE  ValueInv'
<1>1. PICK st : /\ Nested(stage, st)
                /\ \/ stage' = st /\ flush' = flush
                   \/ SwapTo(st, flush, s, stage', flush')
  BY DEF Lowered
<1>2. Len(flush) = 0 /\ DOMAIN flush = {}
  BY Empty
<1>3. WaitingIn(st, flush) = WaitingIn(stage, flush)
  <2>1. \A t \in Stages, b \in 0..1 : \A k : Waits(st, flush, t, b, k) <=> Waits(stage, flush, t, b, k)
    BY <1>1 DEF Nested, Waits
  <2> QED
    BY <2>1, WaitingSame
<1>4. WaitingIn(stage', flush') = WaitingIn(stage, flush) /\ Len(flush') <= 1 /\ AllBatch(flush')
  <2>1. CASE stage' = st /\ flush' = flush
    BY <1>2, <1>3, <2>1 DEF AllBatch
  <2>2. CASE SwapTo(st, flush, s, stage', flush')
    <3>1. st \in [Stages -> StageType]
      BY <1>1 DEF Nested
    <3> QED
      BY <1>2, <1>3, <2>2, <3>1, SwapWaits
  <2> QED
    BY <1>1, <2>1, <2>2
<1>5. Held(world', stage', flush')
  BY <1>4, HeldSame
<1>6. \A i \in DOMAIN flush' : flush'[i].step # "write"
  BY <1>4 DEF AllBatch
<1>7. TargetsHave(world', stage', flush')
  BY <1>6, BatchHave
<1> QED
  BY <1>4, <1>5, <1>7 DEF ValueInv

-----------------------------------------------------------------------------
(* The steps of a flush.                                                   *)

\* The one flush stays where it is, or goes past a command of weight k.
LEMMA StayNext ==
  ASSUME QueueInv, Len(flush) = 1, SameHeavy(stage, stage'), NEW step, NEW added, step # "write",
         Moved(flush, flush', Top.pos, step, added), Held(world', stage, flush)
  PROVE  ValueInv'
<1>1. Sound(world, stage, flush)
  BY DEF QueueInv
<1>2. DOMAIN flush' = {1} /\ Len(flush') = 1 /\ flush'[1].step = step
  BY <1>1, OneFrame
<1>3. WaitingIn(stage', flush') = WaitingIn(stage, flush)
  BY <1>1, StayWaits
<1>4. Held(world', stage', flush')
  BY <1>3, HeldSame
<1>5. TargetsHave(world', stage', flush')
  BY <1>2, BatchHave
<1> QED
  BY <1>2, <1>4, <1>5 DEF ValueInv

Lighter(w, v, k) == \A n : Balance(w, n) /\ n - k \in Nat => Balance(v, n - k)

LEMMA PassNext ==
  ASSUME QueueInv, ValueInv, Len(flush) = 1, SameHeavy(stage, stage'), Top.pos <= Len(Buf.queue),
         NEW added, Moved(flush, flush', Top.pos + 1, "batch", added),
         Lighter(world, world', IF Weighs(Cmd) THEN 1 ELSE 0)
  PROVE  ValueInv'
<1> DEFINE k == IF Weighs(Cmd) THEN 1 ELSE 0
           n == Cardinality(WaitingIn(stage, flush))
           n2 == Cardinality(WaitingIn(stage', flush'))
<1>1. Sound(world, stage, flush)
  BY DEF QueueInv
<1>2. DOMAIN flush' = {1} /\ Len(flush') = 1 /\ flush'[1].step = "batch"
  BY <1>1, OneFrame
<1>3. IsFiniteSet(WaitingIn(stage, flush)) /\ Balance(world, n)
  BY DEF ValueInv, Held
<1>4. IsFiniteSet(WaitingIn(stage', flush')) /\ n2 = n - k
  BY <1>1, <1>3, PassWaits
<1>5. n2 \in Nat
  BY <1>4, FS_CardinalityType
<1>6. Lighter(world, world', k)
  OBVIOUS
<1> HIDE DEF n, n2, k
<1>7. Balance(world', n2)
  BY <1>3, <1>4, <1>5, <1>6 DEF Lighter
<1>8. Held(world', stage', flush')
  BY <1>4, <1>7 DEF Held, n2
<1>9. TargetsHave(world', stage', flush')
  BY <1>2, BatchHave
<1> QED
  BY <1>2, <1>8, <1>9 DEF ValueInv

LEMMA LighterIs ==
  ASSUME NEW w \in WorldType, NEW v \in WorldType, NEW k \in Int, v.held = w.held - k,
         \/ \A sl \in Slots : v.ent[sl].val = w.ent[sl].val
         \/ \E e \in Entities : Others(w, v, e) /\ Has(v.ent, e) = Has(w.ent, e)
  PROVE  Lighter(w, v, k)
  BY ValueBalance DEF Lighter

LEMMA HeldLighter ==
  ASSUME NEW w, NEW v, NEW st, NEW fl, Held(w, st, fl), Lighter(w, v, 0)
  PROVE  Held(v, st, fl)
<1> DEFINE n == Cardinality(WaitingIn(st, fl))
<1>1. IsFiniteSet(WaitingIn(st, fl)) /\ Balance(w, n)
  BY DEF Held
<1> HIDE DEF n
<1>2. n \in Nat /\ n - 0 = n
  BY <1>1 DEF Balance
<1>3. Balance(v, n)
  BY <1>1, <1>2 DEF Lighter
<1> QED
  BY <1>1, <1>3 DEF Held, n

LEMMA CarriedLighter ==
  ASSUME NEW w \in WorldType, NEW v, NEW e \in Entities, Carried(w, v, e)
  PROVE  Lighter(w, v, 0)
<1> SUFFICES ASSUME NEW n, Balance(w, n), n - 0 \in Nat PROVE Balance(v, n - 0)
  BY DEF Lighter
<1>1. n - 0 = n
  BY DEF Balance
<1> QED
  BY <1>1, CarriedBalance

\* No component has an on_replace hook, so no value is moved over a component
\* that a batch constructed.
NoReplace == \A c \in Comps : Kind[c] # "replace"

LEMMA SecondHeavy ==
  ASSUME NoReplace, NEW w, NEW e, NEW q \in Seq(Cmds), NEW m, Second(w, e, q, m)
  PROVE  \A k : Heavy(m.q, k) <=> Heavy(q, k)
<1>1. Spent(q, m.q)
  BY DEF Second
<1>2. m.q \in Seq(Cmds) /\ Len(m.q) = Len(q)
  BY <1>1 DEF Spent
<1>3. ASSUME NEW k \in 1..Len(q) PROVE Weighs(m.q[k]) <=> Weighs(q[k])
  <2>1. q[k] \in Cmds
    BY LenProperties, ElementOfSeq
  <2>2. Consistent(q[k])
    BY <2>1, CmdIs
  <2>3. q[k].kind # "Set"
    BY <2>2 DEF Consistent, NoReplace
  <2>4. CASE q[k].kind = "Ensure"
    <3>1. Kind[q[k].of.comp] = "trivial" /\ m.q[k].of = q[k].of
      BY <1>1, <2>2, <2>4 DEF Consistent, Spent
    <3> QED
      BY <3>1 DEF Weighs
  <2>5. CASE q[k].kind # "Ensure"
    <3>1. m.q[k] = q[k]
      BY <2>3, <2>5 DEF Second
    <3> QED
      BY <3>1
  <2> QED
    BY <2>4, <2>5
<1> QED
  BY <1>2, <1>3, HeavyKept

LEMMA FirstHeavy ==
  ASSUME NEW q \in Seq(Cmds), NEW ch
  PROVE  \A k : Heavy(AfterFirst(q, ch), k) <=> Heavy(q, k)
<1> DEFINE q2 == AfterFirst(q, ch)
<1>1. Spent(q, q2) /\ \A k \in 1..Len(q) : q2[k].val = q[k].val
  BY AfterFirstIs
<1> HIDE DEF q2
<1>2. q2 \in Seq(Cmds) /\ Len(q2) = Len(q) /\ \A k \in 1..Len(q) : Weighs(q2[k]) <=> Weighs(q[k])
  BY <1>1 DEF Spent, Weighs
<1>3. \A k : Heavy(q2, k) <=> Heavy(q, k)
  BY <1>2, HeavyKept
<1> QED
  BY <1>3 DEF q2

LEMMA PutHeavy ==
  ASSUME NEW st, NEW v, NEW s \in Stages, NEW b \in 0..1, NEW nb, PutBuf(st, v, s, b, nb),
         nb.queue = st[s].buf[b].queue
  PROVE  SameHeavy(st, v)
  BY HeavyPut

LEMMA CommitValues ==
  ASSUME QueueInv, Undisturbed, ValueInv, Len(flush) = 1, CommitBatch
  PROVE  ValueInv'
<1> DEFINE e == Cmd.of.ent
           ch == Chain(Buf.queue, Top.pos)
           p == Plan(Buf.queue, ch, Has(world.ent, e))
           q2 == AfterFirst(Buf.queue, ch)
           nb == [Buf EXCEPT !.queue = q2]
           st == [stage EXCEPT ![Top.stage].buf[Top.buf].queue = q2]
<1>1. /\ Batched2(e, world', p) /\ Top.pos <= Len(Buf.queue)
      /\ \E st1 : Stepped(e, world', st, nb, At(Top.pos, "moves", p.added), st1)
  BY CommitBatchIs, CommitBatchAfter
<1>2. world \in WorldType /\ Sound(world, stage, flush)
  BY DEF QueueInv, Sound, SoundBut, Typed
<1>3. Buf \in BufType /\ e \in Entities /\ Top.pos \in Nat \ {0}
  BY <1>1, <1>2, OneFrame, TopIs
<1>4. nb.queue = q2 /\ Buf.queue \in Seq(Cmds)
  <2>1. Buf \in [queue : {Buf.queue}, entry : {Buf.entry}] /\ Buf.queue \in Seq(Cmds)
    BY <1>3, BufIs
  <2> QED
    BY <2>1
<1>5. \A k : Heavy(q2, k) <=> Heavy(Buf.queue, k)
  BY <1>4, FirstHeavy
<1>6. p.added \in SUBSET Comps
  BY DEF Plan
<1> HIDE DEF e, ch, p, q2, nb, st
<1>7. PICK st1 : Stepped(e, world', st, nb, At(Top.pos, "moves", p.added), st1)
  BY <1>1
<1>8. "moves" \in {"batch", "moves", "exec", "write"}
  OBVIOUS
<1>9. Moved(flush, flush', Top.pos, "moves", p.added) /\ SameHeavy(stage, stage')
  BY <1>3, <1>4, <1>5, <1>6, <1>7, <1>8, QuietStep
<1>10. Carried(world, world', e)
  BY <1>1 DEF Batched2, Carried, SameLife
<1>11. Held(world', stage, flush)
  BY <1>2, <1>3, <1>10, HeldCarried DEF ValueInv
<1> QED
  BY <1>9, <1>11, StayNext

LEMMA MoveValuesValues ==
  ASSUME QueueInv, Undisturbed, NoReplace, ValueInv, Len(flush) = 1, MoveValues
  PROVE  ValueInv'
<1> DEFINE e == Cmd.of.ent
           m == SecondPass(world, e, Buf.queue, Chain(Buf.queue, Top.pos))
           nb == [Buf EXCEPT !.queue = m.q]
           st == [stage EXCEPT ![Top.stage].buf[Top.buf].queue = m.q]
           none == {}
<1>1. /\ Told2(e, world', Top.added) /\ Second(world, e, Buf.queue, m) /\ Top.pos <= Len(Buf.queue)
      /\ \E st1 : Stepped(e, world', st, nb, At(Top.pos, "exec", none), st1)
  BY MoveValuesIs, MoveValuesAfter
<1>2. world \in WorldType /\ Sound(world, stage, flush)
  BY DEF QueueInv, Sound, SoundBut, Typed
<1>3. Buf \in BufType /\ e \in Entities /\ Top.pos \in Nat \ {0} /\ none \in SUBSET Comps
  BY <1>1, <1>2, OneFrame, TopIs
<1>4. nb.queue = m.q /\ Buf.queue \in Seq(Cmds)
  <2>1. Buf \in [queue : {Buf.queue}, entry : {Buf.entry}] /\ Buf.queue \in Seq(Cmds)
    BY <1>3, BufIs
  <2> QED
    BY <2>1
<1> HIDE DEF e, m, nb, st, none
<1>5. \A k : Heavy(m.q, k) <=> Heavy(Buf.queue, k)
  BY <1>1, <1>4, SecondHeavy
<1>6. PICK st1 : Stepped(e, world', st, nb, At(Top.pos, "exec", none), st1)
  BY <1>1
<1>7. "exec" \in {"batch", "moves", "exec", "write"} /\ "exec" # "write"
  OBVIOUS
<1>8. Moved(flush, flush', Top.pos, "exec", none) /\ SameHeavy(stage, stage')
  BY <1>3, <1>4, <1>5, <1>6, <1>7, QuietStep
<1>9. /\ world' \in WorldType /\ world'.held = world.held - 0
      /\ Others(world, world', e) /\ Has(world'.ent, e) = Has(world.ent, e)
  <2>1. world.held \in Int
    BY <1>2, WorldIs
  <2> QED
    BY <1>1, <2>1 DEF Told2, SameLife
<1>10. Lighter(world, world', 0)
  BY <1>2, <1>3, <1>9, LighterIs
<1>11. Held(world', stage, flush)
  BY <1>10, HeldLighter DEF ValueInv
<1> QED
  BY <1>7, <1>8, <1>11, StayNext

LEMMA DiscardValues ==
  ASSUME QueueInv, ValueInv, Len(flush) = 1, DiscardCmd
  PROVE  ValueInv'
<1> DEFINE nb == Unused(Buf, Cmd)
           k == IF Weighs(Cmd) THEN 1 ELSE 0
<1>1. /\ flush # <<>> /\ Top.pos <= Len(Buf.queue)
      /\ PutBuf(stage, stage', Top.stage, Top.buf, nb)
      /\ Moved(flush, flush', Top.pos + 1, "batch", {})
      /\ world' \in WorldType /\ world'.ent = world.ent
      /\ world'.held = world.held - (IF Cmd.val = None THEN 0 ELSE Droppable({Cmd.of.comp}))
  BY DiscardCmdIs
<1>2. world \in WorldType /\ Sound(world, stage, flush)
  BY DEF QueueInv, Sound, SoundBut, Typed
<1>3. Cmd \in Cmds /\ Top.stage \in Stages /\ Top.buf \in 0..1 /\ Buf = stage[Top.stage].buf[Top.buf]
  BY <1>1, <1>2, TopIs
<1>4. nb.queue = Buf.queue
  BY <1>1, <1>2, InvalidatedIs
<1>5. k = IF Cmd.val = None THEN 0 ELSE Droppable({Cmd.of.comp})
  <2>1. Consistent(Cmd)
    BY <1>3, CmdIs
  <2>2. Cmd.val # None => Cmd.of.comp \in Comps
    BY <2>1 DEF Consistent
  <2> QED
    BY <2>2, DroppableOne DEF Weighs
<1>6. k \in Int
  OBVIOUS
<1> HIDE DEF nb
<1>7. SameHeavy(stage, stage')
  BY <1>1, <1>3, <1>4, PutHeavy
<1>8. Lighter(world, world', k)
  <2>1. world'.held = world.held - k /\ \A sl \in Slots : world'.ent[sl].val = world.ent[sl].val
    BY <1>1, <1>5
  <2> HIDE DEF k
  <2> QED
    BY <1>1, <1>2, <1>6, <2>1, LighterIs
<1> QED
  BY <1>1, <1>7, <1>8, PassNext

LEMMA ExecuteValues ==
  ASSUME QueueInv, Undisturbed, ValueInv, Len(flush) = 1, ExecuteCmd
  PROVE  ValueInv'
<1> DEFINE e == Cmd.of.ent
           nb == Unused(Buf, Cmd)
           st == Invalidated
           none == {}
<1>1. /\ flush # <<>> /\ Top.pos <= Len(Buf.queue)
      /\ world' = Effect(Cmd) /\ Cmd.kind \notin HasValue \cup {"Skip"}
      /\ \E st1 : Stepped(e, world', st, nb, At(Top.pos + 1, "batch", none), st1)
  BY ExecuteCmdIs
<1>2. world \in WorldType /\ Sound(world, stage, flush)
  BY DEF QueueInv, Sound, SoundBut, Typed
<1>3. Cmd \in Cmds /\ e \in Entities /\ Top.pos + 1 \in Nat \ {0} /\ none \in SUBSET Comps
  BY <1>1, <1>2, TopIs
<1>4. nb.queue = Buf.queue
  BY <1>1, <1>2, InvalidatedIs
<1>5. ~ Weighs(Cmd)
  <2>1. Consistent(Cmd)
    BY <1>3, CmdIs
  <2> QED
    BY <1>1, <2>1 DEF Weighs, Consistent
<1>6. Carried(world, world', e)
  BY <1>1, <1>2, <1>3, EffectCarried
<1> HIDE DEF e, nb, st, none
<1>7. PICK st1 : Stepped(e, world', st, nb, At(Top.pos + 1, "batch", none), st1)
  BY <1>1
<1>8. "batch" \in {"batch", "moves", "exec", "write"} /\ \A k : Heavy(nb.queue, k) <=> Heavy(Buf.queue, k)
  BY <1>4
<1>9. Moved(flush, flush', Top.pos + 1, "batch", none) /\ SameHeavy(stage, stage')
  BY <1>3, <1>7, <1>8, QuietStep
<1>10. Lighter(world, world', IF Weighs(Cmd) THEN 1 ELSE 0)
  <2>1. Lighter(world, world', 0)
    BY <1>2, <1>3, <1>6, CarriedLighter
  <2> QED
    BY <1>5, <2>1
<1> QED
  BY <1>1, <1>9, <1>10, PassNext

LEMMA EnsureValues ==
  ASSUME QueueInv, Undisturbed, ValueInv, Len(flush) = 1, EnsureCmd
  PROVE  ValueInv'
<1> DEFINE e == Cmd.of.ent
           c == Cmd.of.comp
           nb == Unused(Buf, Cmd)
           st == Invalidated
           none == {}
           T == Has(world.ent, e) \cup {c}
<1>1. /\ flush # <<>> /\ Top.pos <= Len(Buf.queue) /\ Committed(world, world', e, T)
      /\ After(nb, Top.pos, "write", none)
      /\ \E st1 : Stepped(e, world', st, nb, At(Top.pos, "write", none), st1)
  BY EnsureCmdIs, EnsureCmdAfter
<1>2. world \in WorldType /\ Sound(world, stage, flush)
  BY DEF QueueInv, Sound, SoundBut, Typed
<1>3. e \in Entities /\ Top.pos \in Nat \ {0} /\ Cmd = Buf.queue[Top.pos] /\ none \in SUBSET Comps
  BY <1>1, <1>2, TopIs
<1>4. nb.queue = Buf.queue
  BY <1>1, <1>2, InvalidatedIs
<1>5. c \in T
  OBVIOUS
<1> HIDE DEF nb, st, none, T
<1>6. PICK st1 : Stepped(e, world', st, nb, At(Top.pos, "write", none), st1)
  BY <1>1
<1>7. "write" \in {"batch", "moves", "exec", "write"} /\ \A k : Heavy(nb.queue, k) <=> Heavy(Buf.queue, k)
  BY <1>4
<1> HIDE DEF e, c
<1>8. Moved(flush, flush', Top.pos, "write", none) /\ SameHeavy(stage, stage')
  BY <1>3, <1>6, <1>7, QuietStep
<1>9. DOMAIN flush' = {1} /\ Len(flush') = 1
  BY <1>2, <1>8, OneFrame
<1>10. WaitingIn(stage', flush') = WaitingIn(stage, flush)
  BY <1>2, <1>8, StayWaits
<1>11. Held(world', stage, flush)
  BY <1>1, <1>2, <1>3, CommittedCarried, HeldCarried DEF ValueInv
<1>12. Held(world', stage', flush')
  BY <1>10, <1>11, HeldSame
<1>13. CmdAt(stage', flush'[1]) = Cmd
  <2>1. BufOf(stage', flush'[1]) = nb /\ flush'[1].pos = Top.pos
    BY <1>1 DEF After
  <2> QED
    BY <1>3, <1>4, <2>1 DEF CmdAt
<1>14. TargetsHave(world', stage', flush')
  <2>1. Cmd.of.comp \in Has(world'.ent, Cmd.of.ent)
    BY <1>1, <1>5 DEF Committed, e, c
  <2> QED
    BY <1>9, <1>13, <2>1 DEF TargetsHave
<1> QED
  BY <1>9, <1>12, <1>14 DEF ValueInv

LEMMA WriteValues ==
  ASSUME QueueInv, WriteInv, ValueInv, Len(flush) = 1, WriteCmd
  PROVE  ValueInv'
<1> DEFINE e == Cmd.of.ent
           c == Cmd.of.comp
           k == IF Weighs(Cmd) THEN 1 ELSE 0
<1>1. /\ flush # <<>> /\ Top.step = "write" /\ Top.pos <= Len(Buf.queue) /\ stage' = stage
      /\ Cmd.kind \in HasValue /\ c \in Comps /\ Wrote(world, world', e, c, Cmd)
      /\ Moved(flush, flush', Top.pos + 1, "batch", {})
  BY WriteCmdIs DEF WriteInv
<1>2. world \in WorldType /\ Sound(world, stage, flush)
  BY DEF QueueInv, Sound, SoundBut, Typed
<1>3. /\ Cmd \in Cmds /\ e \in Entities /\ Cmd = CmdAt(stage, Top)
      /\ Top = flush[1] /\ DOMAIN flush = {1}
  <2>1. Buf = BufOf(stage, Top) /\ Cmd \in Cmds /\ e \in Entities
    BY <1>1, <1>2, TopIs
  <2> QED
    BY <1>2, <2>1, OneFrame DEF CmdAt, Cmd
<1>4. c \in Has(world.ent, e)
  BY <1>1, <1>3 DEF ValueInv, TargetsHave
<1>5. Overwritten(world, world', e, c, TRUE)
  BY <1>1, <1>4 DEF Wrote
<1>6. k = Droppable({c}) /\ k \in Int
  <2>1. Consistent(Cmd)
    BY <1>3, CmdIs
  <2>2. Cmd.val # None
    BY <1>1, <2>1, ConstantsAssumption DEF Consistent
  <2>3. Droppable({c}) = IF Kind[c] # "trivial" THEN 1 ELSE 0
    BY <1>1, DroppableOne
  <2>4. Weighs(Cmd) <=> Kind[c] # "trivial"
    BY <2>2 DEF Weighs
  <2> QED
    BY <2>3, <2>4
<1>7. SameHeavy(stage, stage')
  BY <1>1 DEF SameHeavy
<1>8. Lighter(world, world', k)
  <2>1. world' \in WorldType /\ Others(world, world', e) /\ Has(world'.ent, e) = Has(world.ent, e)
    BY <1>4, <1>5 DEF Overwritten, SameLife
  <2>2. world'.held = world.held - k
    BY <1>5, <1>6 DEF Overwritten
  <2> HIDE DEF k
  <2> QED
    BY <1>2, <1>3, <1>6, <2>1, <2>2, LighterIs
<1> QED
  BY <1>1, <1>7, <1>8, PassNext

\* The application, while nothing is flushed.
LEMMA IdleValues ==
  ASSUME flush' = <<>>, Held(world', stage', flush')
  PROVE  ValueInv'
<1>1. Len(flush') = 0 /\ DOMAIN flush' = {}
  BY Empty
<1>2. TargetsHave(world', stage', flush')
  BY <1>1 DEF TargetsHave
<1> QED
  BY <1>1, <1>2 DEF ValueInv

LEMMA ValueStep ==
  ASSUME QueueInv, WriteInv, Undisturbed, NoReplace, ValueInv, [Next]_vars
  PROVE  ValueInv'
<1>1. /\ world \in WorldType /\ flush \in Seq(FrameType) /\ Held(world, stage, flush)
      /\ flush # <<>> => Len(flush) = 1
  <2>1. world \in WorldType /\ flush \in Seq(FrameType) /\ Len(flush) <= 1
    BY DEF QueueInv, Sound, SoundBut, Typed, ValueInv
  <2>2. Len(flush) \in Nat /\ (flush # <<>> => Len(flush) # 0)
    BY <2>1, FramesAre
  <2> DEFINE n == Len(flush)
  <2> HIDE DEF n
  <2>3. n \in Nat /\ n <= 1 /\ n # 0 => n = 1
    OBVIOUS
  <2> QED
    BY <2>1, <2>2, <2>3 DEF n, ValueInv
<1>2. ASSUME NEW s \in Slots, New(s) PROVE ValueInv'
  <2>1. flush' = <<>> /\ stage' = stage /\ flush' = flush
    BY <1>2 DEF New, Idle
  <2>2. Born(world, world', s)
    BY <1>2, NewIs
  <2>3. world' \in WorldType /\ world'.held = world.held - 0
    <3>1. world.held \in Int
      BY <1>1, WorldIs
    <3> QED
      BY <2>2, <3>1 DEF Born
  <2>4. Lighter(world, world', 0)
    BY <1>1, <2>2, <2>3, LighterIs DEF Born
  <2>5. Held(world', stage', flush')
    BY <1>1, <2>1, <2>4, HeldLighter
  <2> QED
    BY <2>1, <2>5, IdleValues
<1>3. ASSUME NEW s \in Stages, NEW o \in Operations(Ops), Defer(s, o) PROVE ValueInv'
  <2>1. flush' = <<>>
    BY <1>3 DEF Defer, Idle
  <2>2. Held(world', stage', flush')
    BY <1>1, <1>3, DeferHeld
  <2> QED
    BY <2>1, <2>2, IdleValues
<1>4. ASSUME NEW o \in Operations(Ops), RunNow(o) PROVE ValueInv'
  <2>1. flush' = <<>> /\ stage' = stage /\ flush' = flush /\ world' = Direct(world, o)
    BY <1>4 DEF RunNow, Idle
  <2>2. Carried(world, world', o.ent) /\ o.ent \in Entities
    BY <1>1, <2>1, DirectCarried, OperationIs
  <2>3. Held(world', stage', flush')
    BY <1>1, <2>1, <2>2, HeldCarried
  <2> QED
    BY <2>1, <2>3, IdleValues
<1>5. CASE DeferBegin \/ Suspend \/ Resume \/ ReadonlyBegin
  <2>1. UNCHANGED <<world, flush, merging>> /\ Nested(stage, stage')
    BY <1>5, NestIs, ReadonlyBeginIs
  <2>2. flush' = <<>>
    BY <1>5, <2>1 DEF DeferBegin, Suspend, Resume, ReadonlyBegin, Idle
  <2>3. \A s \in Stages, b \in 0..1 : \A k : Waits(stage', flush', s, b, k) <=> Waits(stage, flush, s, b, k)
    BY <2>1 DEF Nested, Waits
  <2>4. WaitingIn(stage', flush') = WaitingIn(stage, flush)
    BY <2>3, WaitingSame
  <2>5. Held(world', stage', flush')
    BY <1>1, <2>1, <2>4, HeldSame
  <2> QED
    BY <2>2, <2>5, IdleValues
<1>6. CASE ReadonlyEnd
  <2>1. UNCHANGED <<world, stage, flush>>
    BY <1>6 DEF ReadonlyEnd
  <2> QED
    BY <2>1 DEF ValueInv
<1>7. CASE DeferEnd
  BY <1>1, <1>7, DeferEndIs, LoweredHeld, Consts DEF Idle
<1>8. CASE MergeStage
  BY <1>1, <1>8, MergeStageIs, LoweredHeld
<1>9. CASE CommitBatch
  BY <1>1, <1>9, CommitValues DEF CommitBatch
<1>10. CASE MoveValues
  BY <1>1, <1>10, MoveValuesValues DEF MoveValues
<1>11. CASE DiscardCmd
  BY <1>1, <1>11, DiscardValues, DiscardCmdIs
<1>12. CASE ExecuteCmd
  BY <1>1, <1>12, ExecuteValues, ExecuteCmdIs
<1>13. CASE EnsureCmd
  BY <1>1, <1>13, EnsureValues, EnsureCmdIs
<1>14. CASE WriteCmd
  BY <1>1, <1>14, WriteValues DEF WriteCmd
<1>15. CASE FinishBuffer
  <2>1. flush # <<>> /\ world' = world
    BY <1>15 DEF FinishBuffer
  <2>2. WaitingIn(stage', flush') = WaitingIn(stage, flush) /\ Len(flush') <= 1 /\ AllBatch(flush')
    BY <1>1, <1>15, <2>1, FinishWaits
  <2>3. Held(world', stage', flush')
    BY <1>1, <2>1, <2>2, HeldSame
  <2>4. \A i \in DOMAIN flush' : flush'[i].step # "write"
    BY <2>2 DEF AllBatch
  <2>5. TargetsHave(world', stage', flush')
    BY <2>4, BatchHave
  <2> QED
    BY <2>2, <2>3, <2>5 DEF ValueInv
<1>16. CASE UNCHANGED vars
  <2>1. UNCHANGED <<world, stage, flush>>
    BY <1>16 DEF vars
  <2> QED
    BY <2>1 DEF ValueInv
<1> QED
  BY <1>2, <1>3, <1>4, <1>5, <1>6, <1>7, <1>8, <1>9, <1>10, <1>11, <1>12, <1>13, <1>14, <1>15, <1>16
     DEF Next

\* Nothing is stored and nothing waits.
LEMMA InitValues ==
  ASSUME Init
  PROVE  ValueInv
<1>1. /\ flush = <<>> /\ world.held = 0
      /\ \A s \in Stages, b \in 0..1 : stage[s].buf[b].queue = <<>>
      /\ \A sl \in Slots : \A c \in Comps : world.ent[sl].val[c] = None
  BY InitIs
<1>2. StoredIn(world) = {}
  BY <1>1 DEF StoredIn
<1>3. WaitingIn(stage, flush) = {}
  <2>1. \A s \in Stages, b \in 0..1 : \A k : ~ Waits(stage, flush, s, b, k)
    BY <1>1, Empty DEF Waits, Heavy
  <2>2. \A x : x \notin WaitingIn(stage, flush)
    BY <2>1, WaitsIs
  <2> QED
    BY <2>2
<1>4. Held(world, stage, flush)
  <2>1. Cardinality({}) = 0
    BY FS_EmptySet
  <2>2. IsFiniteSet({})
    BY FS_EmptySet
  <2>3. Balance(world, 0)
    <3> DEFINE n == Cardinality(StoredIn(world))
    <3>1. n = 0
      BY <1>2, <2>1
    <3> HIDE DEF n
    <3>2. world.held = n + 0 /\ 0 \in Nat
      BY <1>1, <3>1
    <3> QED
      BY <3>2 DEF Balance, n
  <2> QED
    BY <1>3, <2>1, <2>2, <2>3 DEF Held
<1>5. Len(flush) <= 1 /\ DOMAIN flush = {}
  BY <1>1, Empty
<1>6. TargetsHave(world, stage, flush)
  BY <1>5 DEF TargetsHave
<1> QED
  BY <1>4, <1>5, <1>6 DEF ValueInv

\* While no component has an on_replace hook, and a flush is not interrupted
\* between adding a component and writing its value (all commands go to one
\* stage, or no observer records any), every droppable value that was made is
\* dropped exactly once: those made and not dropped are the stored ones and
\* those of the commands that a flush has not passed.
THEOREM ValuesAreDroppedOnce == Undisturbed /\ NoReplace => (Spec => []ValuesDroppedOnce)
<1> SUFFICES ASSUME Undisturbed, NoReplace PROVE Spec => []ValuesDroppedOnce
  OBVIOUS
<1>1. Init => ValueInv
  BY InitValues
<1>2. QueueInv /\ WriteInv /\ ValueInv /\ [Next]_vars => ValueInv'
  BY ValueStep
<1>3. ValueInv => ValuesDroppedOnce
  BY WaitingIs DEF ValueInv, Held, Balance, ValuesDroppedOnce, Reachable
<1> QED
  BY <1>1, <1>2, <1>3, QueuesStayInOrder, PTL DEF Spec
=============================================================================
