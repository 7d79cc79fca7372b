------------------------------ MODULE Pipeline ------------------------------
(***************************************************************************)
(* The schedule of the pipeline addon of flecs.c: how the systems that the *)
(* query of a pipeline matches are grouped in operations with a merge      *)
(* after each, and how the main thread goes through the operations while   *)
(* merges enable, disable and activate systems.                            *)
(*                                                                         *)
(* A system is the number of its place in the order of the pipeline's      *)
(* query (by phase, then by entity).  An id is the set of the concrete ids *)
(* that it matches: EcsWildcard matches all, a pair wildcard some.         *)
(***************************************************************************)
EXTENDS Integers, FiniteSets, SequencesExt

CONSTANTS
  SystemCount,\* the systems are numbered from 1
  Ids,        \* the concrete component ids
  Descs,      \* the descriptors a system may have
  Anchored,   \* no merge disables all systems that have run
  Calls,      \* {TRUE}: ecs_progress, {FALSE}: ecs_run_pipeline, or both
  MaxChanges  \* bound on the systems that are enabled, disabled or activated from
              \* the end of a run to the end of the next

Systems == 1..SystemCount

Terms == [id : (SUBSET Ids) \ {{}}, src : {"self", "up", "fixed", "none"},
          inout : {"default", "none", "filter", "in", "out", "inout"}, not : BOOLEAN]

ASSUME DescsAssumption ==
  /\ SystemCount \in Nat /\ Anchored \in BOOLEAN /\ Calls \subseteq BOOLEAN
  /\ \A d \in Descs : d.terms \in Seq(Terms) /\ d.mt \in BOOLEAN /\ d.imm \in BOOLEAN

VARIABLES
  desc,       \* the terms and flags of each system
  enabled,    \* the systems that the pipeline's query matches
  active,     \* the systems without EcsEmpty
  dirty,      \* match_count of the state differs from the query's
  ops,        \* the memory of the vector of operations,
  opCount,    \* and its count
  systems,    \* the vector of systems
  cur,        \* cur_op: an index into ops, or 0 for NULL
  pos,        \* cur_i, counted from 0
  current,    \* the systems with last_frame = info.frame_count_total + 1
  main,       \* where the main thread is
  next,       \* the local i of flecs_run_pipeline_ops
  progress,   \* the run is part of ecs_progress
  staged,     \* the ids written to a stage since the last merge
  ran,        \* the systems that ran in this run, in order
  due,        \* the systems that this run is to run
  changes     \* enabled, disabled or activated systems

schedule == <<dirty, ops, opCount, systems>>
world == <<desc, enabled, active>>
vars == <<world, schedule, cur, pos, current, main, next, progress, staged, ran, due, changes>>

-----------------------------------------------------------------------------
(* The write state and the terms of a system. *)

IsWildcard(id) == \E a, b \in id : a # b
FromThis(t) == t.src \in {"self", "up"}

\* Mutant: wildcards among the written ids are not looked at.
InWriteState_Concrete(ws, id) == \E w \in ws : w \subseteq id /\ ~IsWildcard(w)

\* flecs_pipeline_get_write_state.  A written wildcard matches a wildcard
\* only if that is as specific, unless it is EcsWildcard itself.
InWriteState(ws, id) ==
  \E w \in ws : id \subseteq w \/ (w \subseteq id /\ (~IsWildcard(w) \/ id = Ids))

\* The effective inout of a term that has no annotation.
Inout(t) ==
  IF t.inout # "default" THEN t.inout
  ELSE CASE t.src = "none" -> "none" [] t.src \in {"up", "fixed"} -> "in" [] OTHER -> "inout"

\* A Not term that is written will add the component.
Annotates(t) == t.src \in {"none", "fixed"} \/ (t.not /\ Inout(t) = "out")

\* flecs_pipeline_check_term
TermMerges(ws, t) ==
  /\ t.inout # "filter"
  /\ InWriteState(ws, t.id)
  /\ FromThis(t) \/ (Annotates(t) /\ Inout(t) \in {"in", "inout"})

TermWrites(ws, t) ==
  /\ t.inout # "filter" /\ ~(FromThis(t) /\ InWriteState(ws, t.id))
  /\ Annotates(t) /\ Inout(t) \in {"out", "inout"}

CheckTerm(isActive, st, t) ==
  [ws |-> IF isActive /\ TermWrites(st.ws, t) THEN st.ws \cup {t.id} ELSE st.ws,
   merge |-> st.merge \/ TermMerges(st.ws, t)]

\* flecs_pipeline_check_terms goes through the terms twice: the $this terms
\* first, then the others.
CheckTerms(ws, terms, isActive) ==
  LET n == Len(terms)
      upTo[k \in 0..n + n] ==
        IF k = 0 THEN [ws |-> ws, merge |-> FALSE]
        ELSE LET t == terms[IF k <= n THEN k ELSE k - n] IN
             IF FromThis(t) <=> k <= n THEN CheckTerm(isActive, upTo[k - 1], t) ELSE upTo[k - 1]
  IN upTo[n + n]

\* flecs_pipeline_build asserts it after every merge: no system needs a merge
\* because of what it writes itself.
ASSUME RecheckAssumption == \A d \in Descs : ~CheckTerms({}, d.terms, TRUE).merge

-----------------------------------------------------------------------------
(* flecs_pipeline_build. *)

\* The order in which the query of the pipeline returns systems.
InOrder(S) ==
  LET upTo[s \in 0..SystemCount] ==
        IF s = 0 THEN <<>> ELSE IF s \in S THEN Append(upTo[s - 1], s) ELSE upTo[s - 1]
  IN upTo[SystemCount]

NewOp(offset) == [offset |-> offset, count |-> 0, mt |-> FALSE, imm |-> FALSE]

\* Mutant: a change of multi_threaded does not end the operation.
Switches_ImmOnly(st, s) == ~st.first /\ desc[s].imm # st.imm

Switches(st, s) == ~st.first /\ (desc[s].mt # st.mt \/ desc[s].imm # st.imm)

\* Mutant: inactive systems are not checked.
NeedsMerge_ActiveOnly(act, st, s) ==
  s \in act /\ (\/ CheckTerms(st.ws, desc[s].terms, TRUE).merge
                   \/ Switches(st, s) \/ desc[s].imm)

NeedsMerge(act, st, s) ==
  \/ CheckTerms(st.ws, desc[s].terms, s \in act).merge
  \/ s \in act /\ Switches(st, s)
  \/ IF s \in act THEN desc[s].imm ELSE st.imm

\* An operation that inactive systems left empty is used for the next one.
AddOp(st, merge) ==
  IF st.ops = <<>> \/ (merge /\ Last(st.ops).count > 0)
  THEN Append(st.ops, NewOp(Len(st.systems))) ELSE st.ops

AddSystem(act, st, s) ==
  LET merge == NeedsMerge(act, st, s)
      isActive == s \in act
      before == IF merge THEN {} ELSE st.ws
      added == AddOp(st, merge)
      op == Last(added)
  IN [ws |-> CheckTerms(before, desc[s].terms, isActive).ws,
      mt |-> IF isActive THEN desc[s].mt ELSE st.mt,
      imm |-> IF isActive THEN desc[s].imm ELSE st.imm,
      first |-> st.first /\ ~isActive,
      systems |-> IF isActive THEN Append(st.systems, s) ELSE st.systems,
      ops |-> IF ~isActive THEN added
              ELSE [added EXCEPT ![Len(added)] =
                      [offset |-> op.offset, count |-> op.count + 1,
                       mt |-> IF op.count = 0 THEN desc[s].mt ELSE op.mt,
                       imm |-> IF op.count = 0 THEN desc[s].imm ELSE op.imm]]]

NothingAdded ==
  [ws |-> {}, mt |-> FALSE, imm |-> FALSE, first |-> TRUE, systems |-> <<>>, ops |-> <<>>]

AddAll(matched, act) ==
  LET upTo[s \in 0..SystemCount] ==
        IF s = 0 THEN NothingAdded
        ELSE IF s \in matched THEN AddSystem(act, upTo[s - 1], s) ELSE upTo[s - 1]
  IN upTo[SystemCount]

\* The schedule of the matched systems, of which act are active.
Schedule(matched, act) ==
  LET st == AddAll(matched, act)
      trailing == Len(st.ops) > 1 /\ Last(st.ops).count = 0
  IN [systems |-> st.systems, ops |-> IF trailing THEN Front(st.ops) ELSE st.ops]

\* The place of a system's successor among the operations: the number of its
\* operation, or 0 if it is the last system.
OpAfter(sch, i) ==
  IF i + 1 = Len(sch.systems) THEN 0
  ELSE CHOOSE k \in DOMAIN sch.ops :
         i + 1 \in sch.ops[k].offset..sch.ops[k].offset + sch.ops[k].count - 1

\* Mutant: the schedule is resumed at the first system that ran.
ResumeAt_First(sch) ==
  {i \in 0..Len(sch.systems) - 1 :
     /\ sch.systems[i + 1] \in current
     /\ \A j \in 0..i - 1 : sch.systems[j + 1] \notin current}

\* The last system of the schedule that ran in this frame, if there is one.
ResumeAt(sch) ==
  {i \in 0..Len(sch.systems) - 1 :
     /\ sch.systems[i + 1] \in current
     /\ \A j \in i + 1..Len(sch.systems) - 1 : sch.systems[j + 1] \notin current}

\* Where flecs_pipeline_build leaves cur_op and cur_i: untouched if no system
\* of the schedule has run.
Resume(sch, at) ==
  IF ResumeAt(sch) = {} THEN at
  ELSE LET i == CHOOSE i \in ResumeAt(sch) : TRUE
           op == OpAfter(sch, i)
       IN [cur |-> op, pos |-> IF op = 0 THEN 0 ELSE i]

\* The vectors keep their memory when they are reset.  Unless the vector of
\* operations was never used, match_count is updated.
StoreSchedule(sch) ==
  /\ ops' = sch.ops \o SubSeq(ops, Len(sch.ops) + 1, Len(ops))
  /\ opCount' = Len(sch.ops)
  /\ systems' = sch.systems
  /\ dirty' = (ops' = <<>>)

\* flecs_pipeline_next_system
NextSystem(at) ==
  IF at.cur = 0 THEN at
  ELSE LET op == ops'[at.cur]  i == at.pos + 1 IN
       [pos |-> i,
        cur |-> IF i < op.offset + op.count THEN at.cur
                ELSE IF at.cur + 1 > opCount' THEN 0 ELSE at.cur + 1]

MoveTo(at) == cur' = at.cur /\ pos' = at.pos

\* flecs_pipeline_update in the middle of a run, if the query matches other
\* systems than when the schedule was built, and if not.
UpdateSchedule(matched, act, at) ==
  LET sch == Schedule(matched, act) IN
  /\ dirty \/ matched # enabled \/ act # active
  /\ StoreSchedule(sch)
  /\ MoveTo(NextSystem(Resume(sch, at)))

KeepSchedule(matched, act, at) ==
  /\ ~dirty /\ matched = enabled /\ act = active
  /\ UNCHANGED schedule
  /\ MoveTo(NextSystem(at))

-----------------------------------------------------------------------------
\* Only a query with a cache, hence with $this terms, can be empty.
CanBeEmpty(s) == \E k \in DOMAIN desc[s].terms : FromThis(desc[s].terms[k])

\* A write to this id may give the system its first match.
MayActivate(w, s) ==
  \E k \in DOMAIN desc[s].terms :
    /\ FromThis(desc[s].terms[k]) /\ desc[s].terms[k].inout # "filter"
    /\ w \cap desc[s].terms[k].id # {}

Init ==
  /\ desc \in [Systems -> Descs]
  /\ enabled = Systems
  /\ \E empty \in SUBSET Systems :
       (\A s \in empty : CanBeEmpty(s)) /\ active = Systems \ empty
  /\ dirty = TRUE /\ ops = <<>> /\ opCount = 0 /\ systems = <<>>
  /\ cur = 0 /\ pos = 0 /\ current = {}
  /\ main = "idle" /\ next = 0 /\ progress = TRUE
  /\ staged = {} /\ ran = <<>> /\ due = {} /\ changes = 0

\* ecs_progress and ecs_run_pipeline up to the loop of flecs_run_pipeline.
StartRun(isProgress) ==
  /\ main = "idle"
  /\ IF dirty THEN StoreSchedule(Schedule(enabled, active)) ELSE UNCHANGED schedule
  /\ cur' = (IF ops' = <<>> THEN 0 ELSE 1) /\ pos' = 0
  /\ due' = enabled \cap active
  /\ progress' = isProgress
  /\ main' = "loop"
  /\ UNCHANGED <<world, current, next, staged, ran, changes>>

\* Mutant: the loop goes on without an update.
PastTheEnd_NoUpdate ==
  /\ main = "loop" /\ cur # 0 /\ pos = Len(systems)
  /\ UNCHANGED vars

\* The test at the head of the loop: past the last system nothing is run.
PastTheEnd ==
  /\ main = "loop" /\ cur # 0 /\ pos = Len(systems)
  /\ LET at == [cur |-> cur, pos |-> pos] IN
     UpdateSchedule(enabled, active, at) \/ KeepSchedule(enabled, active, at)
  /\ UNCHANGED <<world, current, main, next, progress, staged, ran, due, changes>>

BeginOp ==
  /\ main = "loop" /\ cur # 0 /\ pos # Len(systems)
  /\ next' = pos
  /\ main' = IF pos < Len(systems) THEN "ops" ELSE "merge"
  /\ UNCHANGED <<world, schedule, cur, pos, current, progress, staged, ran, due, changes>>

\* What a system writes to its stage by its annotations.
Writes(s) ==
  {desc[s].terms[k].id : k \in {j \in DOMAIN desc[s].terms :
     LET t == desc[s].terms[j] IN Annotates(t) /\ Inout(t) \in {"out", "inout"}}}

\* One turn of the loop of flecs_run_pipeline_ops on stage 0.
RunSystem ==
  /\ main = "ops"
  /\ LET s == systems[next + 1] IN
     /\ current' = current \cup {s}
     /\ staged' = staged \cup Writes(s)
     /\ ran' = Append(ran, s)
  /\ IF next + 1 - ops[cur].offset = ops[cur].count
     THEN main' = "merge" /\ UNCHANGED next
     ELSE /\ next' = next + 1
          /\ main' = IF next' = Len(systems) THEN "merge" ELSE main
  /\ UNCHANGED <<world, schedule, cur, pos, progress, due, changes>>

Flipped(S, flip) == (S \ flip) \cup (flip \ S)

\* The end of an iteration: the merge, then flecs_pipeline_update.  The
\* commands of the operation's systems may enable or disable a system and give
\* inactive systems their first match.
Merge(flip, woken) ==
  /\ main = "merge"
  /\ \A s \in woken : \E w \in staged : MayActivate(w, s)
  /\ Anchored /\ flip \cup woken # {} => \E k \in DOMAIN ran : ran[k] \in Flipped(enabled, flip)
  /\ enabled' = Flipped(enabled, flip)
  /\ active' = active \cup woken
  /\ changes' = changes + Cardinality(flip \cup woken)
  /\ staged' = {}
  /\ LET at == [cur |-> cur, pos |-> next] IN
     \/ UpdateSchedule(Flipped(enabled, flip), active \cup woken, at)
     \/ KeepSchedule(Flipped(enabled, flip), active \cup woken, at)
  /\ due' = (due \cap enabled') \cup
            {s \in (enabled' \cap active') \ (enabled \cap active) :
               \A k \in DOMAIN ran : ran[k] < s}
  /\ main' = "loop"
  /\ UNCHANGED <<desc, current, next, progress, ran>>

\* Mutant: the frame counter is advanced by ecs_run_pipeline only.
EndRun_NoFrame ==
  /\ main = "loop" /\ cur = 0
  /\ current' = IF progress THEN current ELSE {}
  /\ main' = "idle" /\ next' = 0 /\ ran' = <<>> /\ due' = {} /\ changes' = 0
  /\ UNCHANGED <<world, schedule, cur, pos, progress, staged>>

\* The loop ends; ecs_progress goes on to ecs_frame_end.
EndRun ==
  /\ main = "loop" /\ cur = 0
  /\ current' = IF progress THEN {} ELSE current
  /\ main' = "idle" /\ next' = 0 /\ ran' = <<>> /\ due' = {} /\ changes' = 0
  /\ UNCHANGED <<world, schedule, cur, pos, progress, staged>>

\* Between runs the application enables or disables a system, gives one its
\* first match, or tags it with ecs_run_aperiodic.
Change(s) ==
  /\ main = "idle" /\ changes < MaxChanges
  /\ \/ enabled' = Flipped(enabled, {s}) /\ UNCHANGED active
     \/ CanBeEmpty(s) /\ active' = Flipped(active, {s}) /\ UNCHANGED enabled
  /\ dirty' = TRUE /\ changes' = changes + 1
  /\ UNCHANGED <<desc, ops, opCount, systems, cur, pos, current, main, next, progress,
                 staged, ran, due>>

Changeable == {{}} \cup (IF changes < MaxChanges THEN {{s} : s \in Systems} ELSE {})

RunStep ==
  \/ PastTheEnd \/ BeginOp \/ RunSystem \/ EndRun
  \/ \E flip \in Changeable, woken \in Changeable : Merge(flip, woken \ active)

Next ==
  \/ RunStep
  \/ \E isProgress \in Calls : StartRun(isProgress)
  \/ \E s \in Systems : Change(s)

Spec == Init /\ [][Next]_vars /\ WF_vars(RunStep)

-----------------------------------------------------------------------------
\* The operations partition the enabled and active systems in their order.
\* The systems of an operation agree on the flags, which decide whether worker
\* threads run them and on which world; an immediate system is alone.
OpsUniform ==
  LET op(k) == ops[k]
      of(k) == {systems[i] : i \in op(k).offset + 1..op(k).offset + op(k).count} IN
  /\ ~dirty => systems = InOrder(enabled \cap active)
  /\ opCount > 0 => op(1).offset = 0 /\ op(opCount).offset + op(opCount).count = Len(systems)
  /\ \A k \in 1..opCount :
       /\ k > 1 => op(k).offset = op(k - 1).offset + op(k - 1).count /\ op(k).count > 0
       /\ \A s \in of(k) : desc[s].mt = op(k).mt /\ desc[s].imm = op(k).imm
       /\ op(k).imm => op(k).count <= 1

\* What a system reads from or writes to the main storage: what it matches
\* and what it declares to get.
Reads(s) ==
  {desc[s].terms[k].id : k \in {j \in DOMAIN desc[s].terms :
     LET t == desc[s].terms[j] IN
     t.inout # "filter" /\ (FromThis(t) \/ Inout(t) \in {"in", "inout"})}}

\* A system never runs while a write to something that it reads is still in a
\* stage, whatever merges and rebuilds came before (the purpose of
\* flecs_pipeline_check_term).
NoStaleRead ==
  main = "ops" => \A r \in Reads(systems[next + 1]), w \in staged : r \cap w = {}

\* A run runs a system at most once, and after the systems before it in the
\* pipeline, also when the schedule is rebuilt in the middle.  (A system that
\* is enabled while the last one that ran is disabled may come late.)
RunsInOrder ==
  [][ran' # ran /\ ran' # <<>> =>
       \A k \in DOMAIN ran :
         ran[k] # Last(ran') /\ (ran[k] \in enabled => ran[k] < Last(ran'))]_ran

\* The systems of the operation that just ran.
Batch == {systems[i] : i \in {j \in DOMAIN systems : pos < j /\ j <= next + 1}}

\* A write that may activate an inactive system is merged before a later
\* system runs, so that the inactive one can still run in its place (the
\* comment on inactive systems in flecs_pipeline_build).
NoLateActivation ==
  main = "merge" =>
    \A s \in enabled \ active, u, v \in Batch :
      u < s /\ s < v => \A w \in Writes(u) : ~MayActivate(w, s)

\* Documentation of ecs_progress: it runs all systems that are enabled.  A
\* system that is active when the run starts, or becomes so before its turn,
\* and stays enabled, runs.
NoneSkipped == main = "loop" /\ cur = 0 => due \subseteq {ran[k] : k \in DOMAIN ran}

\* A run ends although its merges change the schedule.
RunEnds == main # "idle" ~> main = "idle"
=============================================================================
