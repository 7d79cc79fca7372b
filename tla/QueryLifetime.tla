--------------------------- MODULE QueryLifetime ---------------------------
(***************************************************************************)
(* Lifetime of a world, its WorldCtx, and the Query / QueryHandle objects  *)
(* that point into them (core/world/world.rs, core/world_ctx.rs,           *)
(* core/query.rs and the poly header of flecs.c).                          *)
(*                                                                         *)
(* The owning thread creates, clones, drops and destructs queries and      *)
(* drops the world; worker threads clone and drop the handles sent to      *)
(* them, under the world_dead mutex.  One action per atomic access to      *)
(* shared memory: what happens under the mutex takes several steps, so     *)
(* that a missing exclusion would show.                                    *)
(***************************************************************************)
EXTENDS Integers, FiniteSets

CONSTANTS
    Owner,                \* WorldCtx.owning_thread
    Workers,              \* the other threads
    Closure,              \* holder of what a system's callback captured
    Queries,              \* ecs_query_t headers; one is used once
    Refs,                 \* slots for Query and QueryHandle objects
    None,
    MaxWorlds,            \* bound on World clones
    MaxCount,             \* bound on query_ref_count, which leaks can raise
    DestructMayPanic,     \* the program calls destruct() when it will panic
    CaptureEntityQueries  \* callbacks capture queries that have an entity

Threads == Workers \cup {Owner}
Holders == Threads \cup {Closure}

ASSUME ConstAssumption ==
    /\ Owner \notin Workers
    /\ Closure \notin Threads
    /\ None \notin Threads \cup Refs \cup Queries \cup Holders
    /\ Refs \cap Queries = {}
    /\ IsFiniteSet(Refs)
    /\ MaxWorlds \in Nat \ {0}
    /\ MaxCount \in Nat
    /\ DestructMayPanic \in BOOLEAN
    /\ CaptureEntityQueries \in BOOLEAN

VARIABLES
    worldRc,       \* refcount of the world's poly header
    worldObjs,     \* World values the program (or a destructor) holds
    worldPhase,    \* how far `impl Drop for World` has got
    ctxFreed,      \* the boxed WorldCtx was freed
    queryRefCount, \* WorldCtx.query_ref_count
    isPanicking,   \* WorldCtx.is_panicking
    worldDead,     \* the boolean inside WorldCtx.world_dead
    lock,          \* the thread that holds the world_dead mutex
    query,         \* state, entity flag and refcount of each query header
    ref,           \* the Query and QueryHandle objects
    unwinding,     \* the threads that are unwinding from a panic
    pc, cur        \* the step a thread is at, and the object it works on

worldVars == <<worldRc, worldObjs, worldPhase, ctxFreed, worldDead>>
ctxVars   == <<queryRefCount, isPanicking>>
vars == <<worldVars, ctxVars, lock, query, ref, unwinding, pc, cur>>

Absent == [kind |-> "absent", q |-> None, at |-> None]
Unused == [state |-> "unused", entity |-> FALSE, rc |-> 0]

Live(r) == ref[r].kind # "absent"
LiveRefs == {r \in Refs : Live(r)}
RefsTo(q) == {r \in LiveRefs : ref[r].q = q}
HeaderOf(r) == query[ref[r].q]

\* WorldCtx::is_panicking, as thread t evaluates it
IsPanicking(t) == isPanicking \/ t \in unwinding

TypeOK ==
    /\ worldRc \in 0 .. MaxWorlds + 1 /\ worldObjs \in 0 .. MaxWorlds
    /\ worldPhase \in {"open", "marking", "finalizing", "counting", "freed", "leaked"}
    /\ ctxFreed \in BOOLEAN
    /\ queryRefCount \in Int
    /\ isPanicking \in BOOLEAN
    /\ worldDead \in BOOLEAN
    /\ lock \in Threads \cup {None}
    /\ query \in [Queries -> [state : {"unused", "live", "freed"},
                              entity : BOOLEAN, rc : Int]]
    /\ ref \in [Refs -> [kind : {"query"}, q : Queries, at : {Owner, Closure}]
                        \cup [kind : {"handle"}, q : Queries, at : Holders]
                        \cup {Absent}]
    /\ unwinding \subseteq Threads
    /\ pc \in [Threads -> {"idle", "drop_locked", "drop_touch", "drop_release",
                           "clone_locked", "clone_claim", "release"}]
    /\ cur \in [Threads -> Refs \cup Queries \cup {None}]

Init ==
    /\ worldRc = 1 /\ worldObjs = 1 /\ worldPhase = "open" /\ ctxFreed = FALSE /\ worldDead = FALSE
    /\ queryRefCount = 0 /\ isPanicking = FALSE
    /\ lock = None
    /\ query = [q \in Queries |-> Unused]
    /\ ref = [r \in Refs |-> Absent]
    /\ unwinding = {}
    /\ pc = [t \in Threads |-> "idle"]
    /\ cur = [t \in Threads |-> None]

Running(t) == pc[t] = "idle" /\ t \notin unwinding
\* a free slot, other than the one a clone in progress is going to fill
FreeSlot(r) ==
    /\ ~Live(r) /\ queryRefCount < MaxCount
    /\ lock # None => \E s \in Refs \ {r} : ~Live(s)
OwnerRuns == Running(Owner) /\ worldPhase = "open"

Put(r, kind, q, at) == ref' = [ref EXCEPT ![r] = [kind |-> kind, q |-> q, at |-> at]]
Gone(r) == ref' = [ref EXCEPT ![r] = Absent]
Goto(t, step, obj) == pc' = [pc EXCEPT ![t] = step] /\ cur' = [cur EXCEPT ![t] = obj]
Idle(t) == Goto(t, "idle", None)
Claim_Missing(q) == UNCHANGED query
Claim(q) == query' = [query EXCEPT ![q].rc = @ + 1]
Release(q) == query' = [query EXCEPT ![q].rc = @ - 1]
\* the release that may be followed by ecs_query_fini
ReleaseOrFini(q, mayFini) ==
    query' = [query EXCEPT ![q].rc = @ - 1,
                           ![q].state = IF query[q].rc = 1 /\ mayFini THEN "freed" ELSE @]

(***************************************************************************)
(* The owning thread: creating, sharing and destroying queries             *)
(***************************************************************************)

\* try_new_from_desc on a new query: the header starts with refcount 1
NewQuery(r, q, entity) ==
    /\ OwnerRuns /\ FreeSlot(r) /\ query[q].state = "unused"
    /\ query' = [query EXCEPT ![q] = [state |-> "live", entity |-> entity, rc |-> 1]]
    /\ queryRefCount' = queryRefCount + 1
    /\ Put(r, "query", q, Owner)
    /\ UNCHANGED <<worldVars, isPanicking, lock, unwinding, pc, cur>>

\* try_new_from_desc / new_from_entity on an entity that already has a query
Reobtain(r, q) ==
    /\ OwnerRuns /\ FreeSlot(r)
    /\ query[q].state = "live" /\ query[q].entity
    /\ Claim(q)
    /\ queryRefCount' = queryRefCount + 1
    /\ Put(r, "query", q, Owner)
    /\ UNCHANGED <<worldVars, isPanicking, lock, unwinding, pc, cur>>

\* Query::clone (new_from) and Query::handle
Derive(r, s, kind) ==
    /\ OwnerRuns /\ FreeSlot(r)
    /\ ref[s].kind = "query" /\ ref[s].at = Owner
    /\ Claim(ref[s].q)
    /\ queryRefCount' = queryRefCount + 1
    /\ Put(r, kind, ref[s].q, Owner)
    /\ UNCHANGED <<worldVars, isPanicking, lock, unwinding, pc, cur>>

Move_AnyKind(r, t, to) ==
    /\ Running(t) /\ Live(r) /\ ref[r].at = t /\ to # t
    /\ to = Closure => t = Owner /\ worldPhase = "open" /\ ~HeaderOf(r).entity
    /\ \A u \in Threads : cur[u] # r
    /\ ref' = [ref EXCEPT ![r].at = to]
    /\ UNCHANGED <<worldVars, ctxVars, lock, query, unwinding, pc, cur>>
\* A move: handles are Send, queries are not; a callback may capture either
Move(r, t, to) ==
    /\ Running(t) /\ Live(r) /\ ref[r].at = t /\ to # t
    /\ to \in Threads => ref[r].kind = "handle"
    /\ to = Closure => /\ t = Owner /\ worldPhase = "open"
                       /\ HeaderOf(r).entity => CaptureEntityQueries
    /\ \A u \in Threads : cur[u] # r
    /\ ref' = [ref EXCEPT ![r].at = to]
    /\ UNCHANGED <<worldVars, ctxVars, lock, query, unwinding, pc, cur>>

\* Query::destruct
Destruct(r) ==
    /\ OwnerRuns /\ ref[r].kind = "query" /\ ref[r].at = Owner
    /\ HeaderOf(r).entity
    /\ LET q == ref[r].q
           lingering == query[q].rc > 1 IN
       /\ lingering => DestructMayPanic
       /\ query' = [query EXCEPT ![q].rc = @ - 1, ![q].state = "freed"]
       /\ isPanicking' = (isPanicking \/ lingering)
       /\ queryRefCount' = IF lingering THEN queryRefCount ELSE queryRefCount - 1
       /\ unwinding' = IF lingering THEN unwinding \cup {Owner} ELSE unwinding
    /\ Gone(r)
    /\ UNCHANGED <<worldVars, lock, pc, cur>>

(***************************************************************************)
(* Dropping a reference                                                    *)
(***************************************************************************)

\* What thread t may drop now: what it holds and, for the owner, what a
\* callback captured (its system is destructed, or ecs_fini deletes it).
MayDrop(t, r) ==
    /\ pc[t] = "idle" /\ Live(r)
    /\ \A u \in Threads : cur[u] # r
    /\ IF t # Owner THEN ref[r].at = t
       ELSE CASE worldPhase = "open" -> ref[r].at \in {Owner, Closure}
              [] worldPhase = "finalizing" -> ref[r].at = Closure
              [] worldPhase \in {"freed", "leaked"} -> ref[r].at = Owner
              [] OTHER -> FALSE

\* Query::drop.  Only the owner runs it, without the mutex; the test of the
\* refcount of an entity's query and the release are two accesses.
DropQuery(r) ==
    LET q == ref[r].q IN
    /\ ref[r].kind = "query" /\ MayDrop(Owner, r)
    /\ Gone(r)
    /\ IF IsPanicking(Owner)
       THEN UNCHANGED <<queryRefCount, query, pc, cur>>
       ELSE /\ queryRefCount' = queryRefCount - 1
            /\ IF query[q].entity
               THEN /\ IF query[q].rc > 1 THEN Goto(Owner, "release", q)
                                          ELSE UNCHANGED <<pc, cur>>
                    /\ UNCHANGED query
               ELSE ReleaseOrFini(q, TRUE) /\ UNCHANGED <<pc, cur>>
    /\ UNCHANGED <<worldVars, isPanicking, lock, unwinding>>

QueryRelease ==
    /\ pc[Owner] = "release"
    /\ Release(cur[Owner])
    /\ Idle(Owner)
    /\ UNCHANGED <<worldVars, ctxVars, lock, ref, unwinding>>

\* QueryHandle::drop takes the mutex first ...
HandleLock(t, r) ==
    /\ ref[r].kind = "handle" /\ MayDrop(t, r)
    /\ lock = None /\ lock' = t
    /\ Goto(t, "drop_locked", r)
    /\ UNCHANGED <<worldVars, ctxVars, query, ref, unwinding>>

\* ... then decides, from is_panicking and world_dead, whether to touch the
\* query at all ...
HandleCheck(t) ==
    /\ pc[t] = "drop_locked"
    /\ IF IsPanicking(t) \/ (worldDead /\ t # Owner)
       THEN Gone(cur[t]) /\ Idle(t) /\ lock' = None
       ELSE Goto(t, "drop_touch", cur[t]) /\ UNCHANGED <<ref, lock>>
    /\ UNCHANGED <<worldVars, ctxVars, query, unwinding>>

\* ... and releases it: the owner frees the query at the last reference, any
\* other thread leaves the memory to the world's teardown.
HandleTouch(t) ==
    LET q == ref[cur[t]].q IN
    /\ pc[t] = "drop_touch"
    /\ IF query[q].entity /\ query[q].rc > 1
       THEN /\ Goto(t, "drop_release", cur[t])
            /\ UNCHANGED <<queryRefCount, query, ref, lock>>
       ELSE /\ IF query[q].entity THEN UNCHANGED query
                                  ELSE ReleaseOrFini(q, t = Owner)
            /\ queryRefCount' = queryRefCount - 1
            /\ Gone(cur[t]) /\ Idle(t) /\ lock' = None
    /\ UNCHANGED <<worldVars, isPanicking, unwinding>>

HandleRelease(t) ==
    /\ pc[t] = "drop_release"
    /\ Release(ref[cur[t]].q)
    /\ queryRefCount' = queryRefCount - 1
    /\ Gone(cur[t]) /\ Idle(t) /\ lock' = None
    /\ UNCHANGED <<worldVars, isPanicking, unwinding>>

(***************************************************************************)
(* QueryHandle::clone, on any thread                                       *)
(***************************************************************************)
CloneLock(t, r) ==
    /\ Running(t) /\ ref[r].kind = "handle" /\ ref[r].at = t
    /\ t = Owner => worldPhase \in {"open", "freed", "leaked"}
    /\ \E s \in Refs : FreeSlot(s)
    /\ lock = None /\ lock' = t
    /\ Goto(t, "clone_locked", r)
    /\ UNCHANGED <<worldVars, ctxVars, query, ref, unwinding>>

\* the assertion that the world is alive; failing it unwinds and unlocks
CloneCheck(t) ==
    /\ pc[t] = "clone_locked"
    /\ IF worldDead THEN /\ Idle(t) /\ lock' = None
                         /\ unwinding' = unwinding \cup {t}
                    ELSE Goto(t, "clone_claim", cur[t]) /\ UNCHANGED <<lock, unwinding>>
    /\ UNCHANGED <<worldVars, ctxVars, query, ref>>

CloneClaim(t, s) ==
    LET q == ref[cur[t]].q IN
    /\ pc[t] = "clone_claim" /\ ~Live(s)
    /\ Claim(q)
    /\ queryRefCount' = queryRefCount + 1
    /\ Put(s, "handle", q, t)
    /\ Idle(t) /\ lock' = None
    /\ UNCHANGED <<worldVars, isPanicking, unwinding>>

(***************************************************************************)
(* Panics.  A thread unwinds from its own code and drops what it holds;    *)
(* drops run by an unwinding thread forget the object without releasing.   *)
(***************************************************************************)
UserPanic(t) ==
    /\ Running(t) /\ (t = Owner => worldPhase \in {"open", "freed", "leaked"})
    /\ unwinding' = unwinding \cup {t}
    /\ UNCHANGED <<worldVars, ctxVars, lock, query, ref, pc, cur>>

CatchPanic(t) ==
    /\ t \in unwinding /\ pc[t] = "idle"
    /\ unwinding' = unwinding \ {t}
    /\ UNCHANGED <<worldVars, ctxVars, lock, query, ref, pc, cur>>

(***************************************************************************)
(* World::clone and World::drop                                            *)
(***************************************************************************)

\* also by a destructor that runs inside ecs_fini
WorldClone ==
    /\ Running(Owner) /\ worldObjs < MaxWorlds /\ worldRc <= MaxWorlds
    /\ IF worldObjs = 0 THEN worldPhase = "finalizing" ELSE worldPhase = "open"
    /\ worldRc' = worldRc + 1 /\ worldObjs' = worldObjs + 1
    /\ UNCHANGED <<worldPhase, ctxFreed, worldDead, ctxVars, lock, query, ref,
                   unwinding, pc, cur>>

\* an unwinding owner gives up its World without releasing it
WorldDrop ==
    /\ pc[Owner] = "idle" /\ worldPhase \in {"open", "finalizing"} /\ worldObjs > 0
    /\ worldObjs' = worldObjs - 1
    /\ IF Owner \in unwinding
       THEN UNCHANGED <<worldRc, worldPhase>>
       ELSE /\ worldRc' = worldRc - 1
            /\ worldPhase' = IF worldRc = 1 THEN "marking" ELSE worldPhase
    /\ UNCHANGED <<ctxFreed, worldDead, ctxVars, lock, query, ref, unwinding, pc, cur>>

\* mark_world_dead, then the claim before ecs_fini
MarkWorldDead_NoMutex ==
    /\ worldPhase = "marking"
    /\ worldDead' = TRUE
    /\ worldRc' = worldRc + 1
    /\ worldPhase' = "finalizing"
    /\ UNCHANGED <<worldObjs, ctxFreed, ctxVars, lock, query, ref, unwinding, pc, cur>>
MarkWorldDead ==
    /\ worldPhase = "marking" /\ lock = None
    /\ worldDead' = TRUE
    /\ worldRc' = worldRc + 1
    /\ worldPhase' = "finalizing"
    /\ UNCHANGED <<worldObjs, ctxFreed, ctxVars, lock, query, ref, unwinding, pc, cur>>

\* ecs_fini deletes entities, in an order of its own: their queries go too
FiniDeletesQuery(q) ==
    /\ worldPhase = "finalizing" /\ pc[Owner] = "idle"
    /\ query[q].state = "live" /\ query[q].entity
    /\ query' = [query EXCEPT ![q].state = "freed"]
    /\ UNCHANGED <<worldVars, ctxVars, lock, ref, unwinding, pc, cur>>

\* ecs_fini ends when every system, with what its callback captured, and every
\* query entity is deleted; the other headers go with the stage allocators
FiniEnds ==
    /\ worldPhase = "finalizing" /\ pc[Owner] = "idle" /\ worldObjs = 0
    /\ \A r \in LiveRefs : ref[r].at # Closure
    /\ \A q \in Queries : query[q].state = "live" => ~query[q].entity
    /\ worldPhase' = "counting"
    /\ query' = [q \in Queries |->
                    [query[q] EXCEPT !.state = IF @ = "live" THEN "freed" ELSE @]]
    /\ UNCHANGED <<worldRc, worldObjs, ctxFreed, worldDead, ctxVars, lock, ref, unwinding, pc, cur>>

\* the lingering-references check: panic and leak the WorldCtx, or free it
CountReferences_NoCheck ==
    /\ worldPhase = "counting"
    /\ worldPhase' = "freed" /\ ctxFreed' = TRUE
    /\ UNCHANGED <<worldRc, worldObjs, worldDead, ctxVars, lock, query, ref,
                   unwinding, pc, cur>>
CountReferences_Waits ==
    /\ queryRefCount = 0 \/ IsPanicking(Owner)
    /\ CountReferences_NoCheck
CountReferences ==
    /\ worldPhase = "counting"
    /\ IF queryRefCount # 0 /\ ~IsPanicking(Owner)
       THEN /\ worldPhase' = "leaked" /\ isPanicking' = TRUE
            /\ unwinding' = unwinding \cup {Owner}
            /\ UNCHANGED ctxFreed
       ELSE /\ worldPhase' = "freed" /\ ctxFreed' = TRUE
            /\ UNCHANGED <<isPanicking, unwinding>>
    /\ UNCHANGED <<worldRc, worldObjs, worldDead, queryRefCount, lock, query, ref, pc, cur>>

-----------------------------------------------------------------------------
Next ==
    \/ \E r \in Refs, q \in Queries, entity \in BOOLEAN : NewQuery(r, q, entity)
    \/ \E r \in Refs, q \in Queries : Reobtain(r, q)
    \/ \E r, s \in Refs, kind \in {"query", "handle"} : Derive(r, s, kind)
    \/ \E r \in Refs : Destruct(r)
    \/ \E r \in Refs : DropQuery(r)
    \/ QueryRelease
    \/ \E t \in Threads, r \in Refs : HandleLock(t, r)
    \/ \E t \in Threads : HandleCheck(t)
    \/ \E t \in Threads : HandleTouch(t)
    \/ \E t \in Threads : HandleRelease(t)
    \/ \E t \in Threads, r \in Refs : CloneLock(t, r)
    \/ \E t \in Threads : CloneCheck(t)
    \/ \E t \in Threads, s \in Refs : CloneClaim(t, s)
    \/ \E t \in Threads, r \in Refs, to \in Holders : Move(r, t, to)
    \/ \E t \in Threads : UserPanic(t)
    \/ \E t \in Threads : CatchPanic(t)
    \/ WorldClone
    \/ WorldDrop
    \/ MarkWorldDead
    \/ \E q \in Queries : FiniDeletesQuery(q)
    \/ FiniEnds
    \/ CountReferences

\* the steps that finish what a thread has begun
Continue(t) ==
    \/ HandleCheck(t) \/ HandleTouch(t) \/ HandleRelease(t)
    \/ CloneCheck(t) \/ \E s \in Refs : CloneClaim(t, s)
    \/ t = Owner /\ QueryRelease

\* the steps of ecs_fini, which drops what the callbacks captured
FiniStep ==
    \/ FiniEnds \/ CountReferences
    \/ \E q \in Queries : FiniDeletesQuery(q)
    \/ worldPhase = "finalizing"
       /\ \E r \in Refs : ref[r].at = Closure /\ (DropQuery(r) \/ HandleLock(Owner, r))

\* Every started operation runs on.  The owner does not stop in ecs_fini; the
\* destructors that run there are finitely many, hence the strong fairness.
\* Which operations a program starts is its own business.
Fairness ==
    /\ \A t \in Threads : WF_vars(Continue(t))
    /\ SF_vars(FiniStep)
    /\ WF_vars(worldPhase = "finalizing" /\ WorldDrop)

Spec == Init /\ [][Next]_vars /\ Fairness
-----------------------------------------------------------------------------
\* Every live Query or QueryHandle is counted twice: in query_ref_count, and
\* in the refcount of its header for as long as the header lives.
PendingRelease(q) == IF pc[Owner] = "release" /\ cur[Owner] = q THEN 1 ELSE 0
CountsCoverRefs ==
    /\ queryRefCount >= Cardinality(LiveRefs)
    /\ \A q \in Queries : query[q].state = "live" /\ ~worldDead =>
          query[q].rc >= Cardinality(RefsTo(q)) + PendingRelease(q)

\* The comment in QueryHandle::drop: the WorldCtx an object points to is alive
\* (every drop dereferences it) -- it is freed only when no object is left.
NoDanglingCtx == ctxFreed => LiveRefs = {}

\* The comment in QueryHandle::drop: the mutex excludes world teardown, so
\* the query header stays alive until the drop, or the clone, is done.
TouchedHeaderAlive ==
    \A t \in Threads :
        pc[t] \in {"drop_touch", "drop_release", "clone_claim"} =>
            HeaderOf(cur[t]).state = "live"

\* Once ecs_fini has begun the world is destroyed, whatever other threads do
\* with their handles.
TeardownEnds == worldPhase = "finalizing" ~> worldPhase \in {"freed", "leaked"}

\* destruct()'s documentation: it panics if other Query objects to the same
\* query still exist.
DestructPanicsOnlyWhenShared ==
    [][~isPanicking /\ isPanicking' /\ worldPhase = "open" =>
          \E q \in Queries, r \in Refs :
              /\ query[q].state = "live" /\ query'[q].state = "freed"
              /\ ref[r].q = q /\ ref'[r].q = q]_vars

\* The panic message of World::drop: it reports objects that are not out of
\* scope when the world is dropped, so without any the count is zero.
NoPhantomReferences ==
    worldPhase = "marking" /\ LiveRefs = {} => queryRefCount = 0
=============================================================================
