----------------------- MODULE QueryLifetime_proofs -----------------------
(***************************************************************************)
(* For any number of threads, queries and references: the types, that the  *)
(* WorldCtx is never freed under a live Query or QueryHandle as long as no *)
(* destruct() panics, and, when callbacks capture no query of an entity    *)
(* either, that the counts cover the references and that a header that is  *)
(* touched is alive.                                                       *)
(***************************************************************************)
EXTENDS QueryLifetime, FiniteSetTheorems, TLAPS

USE ConstAssumption DEF Threads, Holders

HandleSteps == {"drop_locked", "drop_touch", "drop_release", "clone_locked", "clone_claim"}

\* What a thread is in the middle of is a handle it works on under the mutex,
\* or a query the owner still has to release.
OpsInv ==
    \A t \in Threads :
        /\ pc[t] \in HandleSteps =>
              cur[t] \in Refs /\ ref[cur[t]].kind = "handle" /\ lock = t
        /\ pc[t] = "release" => t = Owner /\ cur[t] \in Queries

\* World objects are covered by the world's refcount until the teardown.
WorldInv ==
    /\ worldRc >= worldObjs
    /\ worldPhase = "marking" => worldRc = 0

TypeInv == TypeOK /\ OpsInv /\ WorldInv

LEMMA TypeInit == Init => TypeInv
<1> SUFFICES ASSUME Init PROVE TypeInv
  OBVIOUS
<1>1. query \in [Queries -> [state : {"unused", "live", "freed"}, entity : BOOLEAN, rc : Int]]
  BY DEF Init, Unused
<1>2. ctxFreed \in BOOLEAN /\ isPanicking \in BOOLEAN /\ worldDead \in BOOLEAN
  BY DEF Init
<1>3. TypeOK
  BY <1>1, <1>2 DEF Init, TypeOK
<1>4. OpsInv /\ WorldInv
  BY DEF Init, OpsInv, WorldInv, HandleSteps
<1> QED
  BY <1>3, <1>4 DEF TypeInv

LEMMA TypeStep == TypeInv /\ [Next]_vars => TypeInv'
<1> SUFFICES ASSUME TypeInv, [Next]_vars PROVE TypeInv'
    OBVIOUS
<1> USE DEF TypeInv, TypeOK, OpsInv, WorldInv, HandleSteps, Live, LiveRefs, HeaderOf,
            Running, OwnerRuns, FreeSlot, MayDrop, worldVars, ctxVars
<1> USE DEF Put, Gone, Goto, Idle, Claim, Release, ReleaseOrFini, Absent
<1>1. ASSUME NEW r \in Refs, NEW q \in Queries, NEW entity \in BOOLEAN,
             NewQuery(r, q, entity)
      PROVE  TypeInv'
  BY <1>1 DEF NewQuery
<1>2. ASSUME NEW r \in Refs, NEW q \in Queries, Reobtain(r, q)
      PROVE  TypeInv'
  BY <1>2 DEF Reobtain
<1>3. ASSUME NEW r \in Refs, NEW s \in Refs, NEW kind \in {"query", "handle"},
             Derive(r, s, kind)
      PROVE  TypeInv'
  BY <1>3 DEF Derive
<1>4. ASSUME NEW r \in Refs, Destruct(r)
      PROVE  TypeInv'
  BY <1>4 DEF Destruct
<1>5. ASSUME NEW r \in Refs, DropQuery(r)
      PROVE  TypeInv'
  <2>1. ref[r].q \in Queries /\ ref[r] # Absent
    BY <1>5 DEF DropQuery
  <2>2. CASE IsPanicking(Owner)
    BY <1>5, <2>1, <2>2 DEF DropQuery
  <2>3. CASE ~IsPanicking(Owner) /\ query[ref[r].q].entity
    BY <1>5, <2>1, <2>3 DEF DropQuery
  <2>4. CASE ~IsPanicking(Owner) /\ ~query[ref[r].q].entity
    BY <1>5, <2>1, <2>4 DEF DropQuery
  <2> QED
    BY <2>2, <2>3, <2>4
<1>6. CASE QueryRelease
  BY <1>6 DEF QueryRelease
<1>7. ASSUME NEW t \in Threads, NEW r \in Refs, HandleLock(t, r)
      PROVE  TypeInv'
  BY <1>7 DEF HandleLock
<1>8. ASSUME NEW t \in Threads, HandleCheck(t)
      PROVE  TypeInv'
  BY <1>8 DEF HandleCheck
<1>9. ASSUME NEW t \in Threads, HandleTouch(t)
      PROVE  TypeInv'
  <2>1. cur[t] \in Refs /\ ref[cur[t]].q \in Queries
    BY <1>9 DEF HandleTouch
  <2>2. CASE query[ref[cur[t]].q].entity
    BY <1>9, <2>1, <2>2 DEF HandleTouch
  <2>3. CASE ~query[ref[cur[t]].q].entity
    <3>1. query' \in [Queries -> [state : {"unused", "live", "freed"},
                                  entity : BOOLEAN, rc : Int]]
      BY <1>9, <2>1, <2>3 DEF HandleTouch
    <3>2. /\ pc[t] = "drop_touch" /\ Gone(cur[t]) /\ Idle(t) /\ lock' = None
          /\ queryRefCount' = queryRefCount - 1
          /\ UNCHANGED <<worldVars, isPanicking, unwinding>>
      BY <1>9, <2>3 DEF HandleTouch
    <3> QED
      BY <2>1, <3>1, <3>2
  <2> QED
    BY <2>2, <2>3
<1>10. ASSUME NEW t \in Threads, HandleRelease(t)
      PROVE  TypeInv'
  BY <1>10 DEF HandleRelease
<1>11. ASSUME NEW t \in Threads, NEW r \in Refs, CloneLock(t, r)
      PROVE  TypeInv'
  BY <1>11 DEF CloneLock
<1>12. ASSUME NEW t \in Threads, CloneCheck(t)
      PROVE  TypeInv'
  BY <1>12 DEF CloneCheck
<1>13. ASSUME NEW t \in Threads, NEW s \in Refs, CloneClaim(t, s)
      PROVE  TypeInv'
  BY <1>13 DEF CloneClaim
<1>14. ASSUME NEW t \in Threads, NEW r \in Refs, NEW to \in Holders, Move(r, t, to)
      PROVE  TypeInv'
  BY <1>14 DEF Move
<1>15. ASSUME NEW t \in Threads, UserPanic(t) \/ CatchPanic(t)
      PROVE  TypeInv'
  BY <1>15 DEF UserPanic, CatchPanic
<1>16. CASE WorldClone
  BY <1>16 DEF WorldClone
<1>17. CASE WorldDrop
  BY <1>17 DEF WorldDrop
<1>18. CASE MarkWorldDead
  BY <1>18 DEF MarkWorldDead
<1>19. CASE FiniEnds
  BY <1>19 DEF FiniEnds
<1>20. CASE CountReferences
  <2>1. CASE queryRefCount # 0 /\ ~IsPanicking(Owner)
    BY <1>20, <2>1 DEF CountReferences
  <2>2. CASE ~(queryRefCount # 0 /\ ~IsPanicking(Owner))
    BY <1>20, <2>2 DEF CountReferences
  <2> QED
    BY <2>1, <2>2
<1>21. ASSUME NEW q \in Queries, FiniDeletesQuery(q)
      PROVE  TypeInv'
  BY <1>21 DEF FiniDeletesQuery
<1>22. CASE UNCHANGED vars
  BY <1>22 DEF vars
<1> HIDE DEF TypeInv
<1>23. Next => TypeInv'
  BY <1>1, <1>2, <1>3, <1>4, <1>5, <1>6, <1>7, <1>8, <1>9, <1>10, <1>11, <1>12,
     <1>13, <1>14, <1>15, <1>16, <1>17, <1>18, <1>19, <1>20, <1>21, Zenon DEF Next
<1> QED
  BY <1>22, <1>23

\* Every variable keeps its type; a Query, unlike a QueryHandle, never reaches
\* a thread other than the owner.
THEOREM TypeCorrect == Spec => []TypeOK
<1>1. TypeInv => TypeOK
  BY DEF TypeInv
<1> QED
  BY <1>1, TypeInit, TypeStep, PTL DEF Spec
-----------------------------------------------------------------------------
(***************************************************************************)
(* The count covers the live references, so the WorldCtx outlives them.    *)
(***************************************************************************)
Kept == LiveRefs' = LiveRefs /\ queryRefCount' = queryRefCount
Added == /\ \E r \in Refs \ LiveRefs : LiveRefs' = LiveRefs \cup {r}
         /\ queryRefCount' = queryRefCount + 1
         /\ worldPhase = "open" \/ LiveRefs # {}
Removed == /\ \E r \in LiveRefs : LiveRefs' = LiveRefs \ {r}
           /\ queryRefCount' \in {queryRefCount, queryRefCount - 1}

\* How a step changes the set of live references and their count.
LEMMA CountEffect == TypeInv /\ [Next]_vars => Kept \/ Added \/ Removed
<1> SUFFICES ASSUME TypeInv, [Next]_vars PROVE Kept \/ Added \/ Removed
  OBVIOUS
<1>t. /\ queryRefCount \in Int
      /\ ref \in [Refs -> [kind : {"query"}, q : Queries, at : {Owner, Closure}]
                          \cup [kind : {"handle"}, q : Queries, at : Holders]
                          \cup {Absent}]
      /\ \A t \in Threads : pc[t] \in HandleSteps =>
            cur[t] \in Refs /\ ref[cur[t]].kind = "handle"
  BY DEF TypeInv, TypeOK, OpsInv
<1>add. ASSUME NEW r \in Refs, ~Live(r), NEW q, NEW at,
               NEW kind \in {"query", "handle"}, Put(r, kind, q, at)
        PROVE  LiveRefs' = LiveRefs \cup {r} /\ r \in Refs \ LiveRefs
  BY <1>t, <1>add DEF Live, LiveRefs, Put
<1>del. ASSUME NEW r \in Refs, Live(r), Gone(r)
        PROVE  LiveRefs' = LiveRefs \ {r} /\ r \in LiveRefs
  BY <1>t, <1>del DEF Live, LiveRefs, Gone, Absent
<1>op. ASSUME NEW t \in Threads, pc[t] \in HandleSteps
       PROVE  cur[t] \in Refs /\ Live(cur[t]) /\ LiveRefs # {}
  BY <1>t, <1>op DEF Live, LiveRefs
<1>same. UNCHANGED <<ref, queryRefCount>> => Kept
  BY DEF Kept, LiveRefs, Live
<1>1. ASSUME NEW r \in Refs, NEW q \in Queries, NEW entity \in BOOLEAN,
             NewQuery(r, q, entity)
      PROVE  Added
  BY <1>1, <1>add DEF NewQuery, OwnerRuns, FreeSlot, Added
<1>2. ASSUME NEW r \in Refs, NEW q \in Queries, Reobtain(r, q)
      PROVE  Added
  BY <1>2, <1>add DEF Reobtain, OwnerRuns, FreeSlot, Added
<1>3. ASSUME NEW r \in Refs, NEW s \in Refs, NEW kind \in {"query", "handle"},
             Derive(r, s, kind)
      PROVE  Added
  BY <1>3, <1>add DEF Derive, OwnerRuns, FreeSlot, Added
<1>4. ASSUME NEW r \in Refs, Destruct(r)
      PROVE  Removed
  <2>1. Live(r) /\ Gone(r)
    BY <1>4 DEF Destruct, Live
  <2>2. queryRefCount' \in {queryRefCount, queryRefCount - 1}
    BY <1>4 DEF Destruct
  <2> QED
    BY <2>1, <2>2, <1>del DEF Removed
<1>5. ASSUME NEW r \in Refs, DropQuery(r)
      PROVE  Removed
  <2>1. Live(r) /\ Gone(r)
    BY <1>5 DEF DropQuery, MayDrop
  <2>2. queryRefCount' \in {queryRefCount, queryRefCount - 1}
    BY <1>5 DEF DropQuery
  <2> QED
    BY <2>1, <2>2, <1>del DEF Removed
<1>6. ASSUME NEW t \in Threads, HandleCheck(t)
      PROVE  Kept \/ Removed
  BY <1>6, <1>op, <1>del, <1>same DEF HandleCheck, Removed, ctxVars, HandleSteps
<1>7. ASSUME NEW t \in Threads, HandleTouch(t)
      PROVE  Kept \/ Removed
  <2>1. \/ UNCHANGED <<ref, queryRefCount>>
        \/ Gone(cur[t]) /\ queryRefCount' = queryRefCount - 1
    BY <1>7 DEF HandleTouch
  <2> QED
    BY <1>7, <2>1, <1>op, <1>del, <1>same DEF HandleTouch, Removed, HandleSteps
<1>8. ASSUME NEW t \in Threads, HandleRelease(t)
      PROVE  Removed
  BY <1>8, <1>op, <1>del DEF HandleRelease, Removed, HandleSteps
<1>9. ASSUME NEW t \in Threads, NEW s \in Refs, CloneClaim(t, s)
      PROVE  Added
  BY <1>9, <1>op, <1>add DEF CloneClaim, Added, HandleSteps
<1>10. ASSUME NEW t \in Threads, NEW r \in Refs, NEW to \in Holders, Move(r, t, to)
       PROVE  Kept
  BY <1>10, <1>t DEF Move, Kept, LiveRefs, Live, ctxVars
<1>11. CASE UNCHANGED <<ref, queryRefCount>>
  BY <1>11, <1>same
<1>12. \/ QueryRelease \/ WorldClone \/ WorldDrop \/ MarkWorldDead
       \/ FiniEnds \/ CountReferences \/ UNCHANGED vars
       \/ \E q \in Queries : FiniDeletesQuery(q)
       \/ \E t \in Threads : CloneCheck(t) \/ UserPanic(t) \/ CatchPanic(t)
       \/ \E t \in Threads, r \in Refs : HandleLock(t, r) \/ CloneLock(t, r)
       => UNCHANGED <<ref, queryRefCount>>
  BY DEF QueryRelease, WorldClone, WorldDrop, MarkWorldDead, FiniEnds, CountReferences,
         vars, FiniDeletesQuery, CloneCheck, UserPanic, CatchPanic, HandleLock,
         CloneLock, ctxVars
<1> QED
  BY <1>1, <1>2, <1>3, <1>4, <1>5, <1>6, <1>7, <1>8, <1>9, <1>10, <1>11, <1>12,
     Zenon DEF Next

Ending == {"marking", "finalizing", "counting"}

\* A nonzero count makes the teardown leak the WorldCtx instead of freeing it,
\* unless is_panicking was set before.
CtxInv ==
    /\ queryRefCount >= Cardinality(LiveRefs)
    /\ ctxFreed => worldPhase = "freed" /\ LiveRefs = {}
    /\ isPanicking => worldPhase = "leaked"
    /\ worldPhase \in Ending => Owner \notin unwinding /\ pc[Owner] # "clone_locked"

\* The steps that leave the teardown where it is.
FlagsKept ==
    /\ UNCHANGED <<worldPhase, ctxFreed, isPanicking>>
    /\ worldPhase \in Ending =>
          /\ Owner \in unwinding' => Owner \in unwinding
          /\ pc'[Owner] = "clone_locked" => pc[Owner] = "clone_locked"

LEMMA FlagsEffect ==
  ASSUME ~DestructMayPanic, TypeInv, CtxInv, [Next]_vars
  PROVE  FlagsKept \/ WorldDrop \/ MarkWorldDead \/ FiniEnds \/ CountReferences
<1> USE DEF FlagsKept, worldVars, ctxVars, Goto, Idle
<1>t. pc \in [Threads -> {"idle", "drop_locked", "drop_touch", "drop_release",
                          "clone_locked", "clone_claim", "release"}]
  BY DEF TypeInv, TypeOK
<1>1. ASSUME NEW r \in Refs, Destruct(r) PROVE FlagsKept
  <2>1. isPanicking' = isPanicking /\ unwinding' = unwinding
    BY <1>1 DEF Destruct, TypeInv, TypeOK
  <2> QED
    BY <1>1, <2>1 DEF Destruct
<1>2. ASSUME NEW r \in Refs, DropQuery(r) PROVE FlagsKept
  BY <1>2, <1>t DEF DropQuery
<1>3. ASSUME NEW t \in Threads, HandleCheck(t) PROVE FlagsKept
  BY <1>3, <1>t DEF HandleCheck
<1>4. ASSUME NEW t \in Threads, HandleTouch(t) PROVE FlagsKept
  <2>1. pc' = [pc EXCEPT ![t] = "drop_release"] \/ pc' = [pc EXCEPT ![t] = "idle"]
    BY <1>4 DEF HandleTouch
  <2> QED
    BY <1>4, <2>1, <1>t DEF HandleTouch
<1>5. ASSUME NEW t \in Threads, CloneCheck(t) PROVE FlagsKept
  BY <1>5, <1>t DEF CloneCheck, CtxInv
<1>6. ASSUME NEW t \in Threads, UserPanic(t) PROVE FlagsKept
  BY <1>6 DEF UserPanic, Ending
<1>7. ASSUME NEW t \in Threads, NEW r \in Refs, HandleLock(t, r) PROVE FlagsKept
  BY <1>7, <1>t DEF HandleLock
<1>8. ASSUME NEW t \in Threads, NEW r \in Refs, CloneLock(t, r) PROVE FlagsKept
  BY <1>8, <1>t DEF CloneLock, Ending
<1>9. ASSUME NEW t \in Threads, HandleRelease(t) \/ CatchPanic(t) \/ \E s \in Refs : CloneClaim(t, s)
      PROVE  FlagsKept
  BY <1>9, <1>t DEF HandleRelease, CatchPanic, CloneClaim
<1>10. \/ \E r \in Refs, q \in Queries, entity \in BOOLEAN : NewQuery(r, q, entity)
       \/ \E r \in Refs, q \in Queries : Reobtain(r, q)
       \/ \E r, s \in Refs, kind \in {"query", "handle"} : Derive(r, s, kind)
       \/ \E t \in Threads, r \in Refs, to \in Holders : Move(r, t, to)
       \/ \E q \in Queries : FiniDeletesQuery(q)
       \/ WorldClone \/ UNCHANGED vars
       => FlagsKept
  BY DEF NewQuery, Reobtain, Derive, Move, FiniDeletesQuery, WorldClone, vars
<1>11. QueryRelease => FlagsKept
  BY <1>t DEF QueryRelease
<1> HIDE DEF FlagsKept
<1> QED
  BY <1>1, <1>2, <1>3, <1>4, <1>5, <1>6, <1>7, <1>8, <1>9, <1>10, <1>11, Zenon DEF Next

LEMMA CtxStep ==
  ASSUME ~DestructMayPanic, TypeInv, CtxInv, [Next]_vars
  PROVE  CtxInv'
<1>f. IsFiniteSet(LiveRefs) /\ Cardinality(LiveRefs) \in Nat /\ queryRefCount \in Int
  BY FS_Subset, FS_CardinalityType DEF LiveRefs, TypeInv, TypeOK
<1>1. queryRefCount' >= Cardinality(LiveRefs')
  <2>1. CASE Kept
    BY <2>1 DEF Kept, CtxInv
  <2>2. CASE Added
    <3>1. PICK r \in Refs \ LiveRefs : LiveRefs' = LiveRefs \cup {r}
      BY <2>2 DEF Added
    <3>2. Cardinality(LiveRefs') = Cardinality(LiveRefs) + 1
      BY <1>f, <3>1, FS_AddElement
    <3> QED
      BY <1>f, <2>2, <3>2 DEF Added, CtxInv
  <2>3. CASE Removed
    <3>1. PICK r \in LiveRefs : LiveRefs' = LiveRefs \ {r}
      BY <2>3 DEF Removed
    <3>2. Cardinality(LiveRefs') = Cardinality(LiveRefs) - 1
      BY <1>f, <3>1, FS_RemoveElement
    <3> QED
      BY <1>f, <2>3, <3>2 DEF Removed, CtxInv
  <2> QED
    BY <2>1, <2>2, <2>3, CountEffect
<1>2. CASE FlagsKept
  <2>1. ctxFreed' => LiveRefs' = {}
    BY <1>2, CountEffect DEF FlagsKept, CtxInv, Kept, Added, Removed
  <2> QED
    BY <1>1, <1>2, <2>1 DEF FlagsKept, CtxInv
<1>3. CASE WorldDrop \/ MarkWorldDead \/ FiniEnds
  <2>1. /\ UNCHANGED <<ctxFreed, isPanicking, unwinding, pc>>
        /\ LiveRefs' = LiveRefs
    BY <1>3 DEF WorldDrop, MarkWorldDead, FiniEnds, ctxVars, LiveRefs, Live
  <2>2. /\ worldPhase \notin {"freed", "leaked"}
        /\ worldPhase' # worldPhase =>
              worldPhase \in Ending \/ (Owner \notin unwinding /\ pc[Owner] = "idle")
    BY <1>3 DEF WorldDrop, MarkWorldDead, FiniEnds, Ending
  <2> QED
    BY <1>1, <2>1, <2>2 DEF CtxInv
<1>4. CASE CountReferences
  <2>1. ~IsPanicking(Owner)
    BY <1>4 DEF CountReferences, CtxInv, IsPanicking, Ending
  <2>2. LiveRefs' = LiveRefs
    BY <1>4 DEF CountReferences, LiveRefs, Live
  <2>3. CASE queryRefCount = 0
    <3>1. LiveRefs = {}
      BY <1>f, <2>3, FS_EmptySet DEF CtxInv
    <3> QED
      BY <1>1, <1>4, <2>1, <2>2, <2>3, <3>1 DEF CountReferences, CtxInv, IsPanicking, Ending
  <2>4. CASE queryRefCount # 0
    BY <1>1, <1>4, <2>1, <2>2, <2>4 DEF CountReferences, CtxInv, IsPanicking, Ending
  <2> QED
    BY <2>3, <2>4
<1> QED
  BY <1>2, <1>3, <1>4, FlagsEffect

\* As long as no destruct() panics, query_ref_count covers the live Query and
\* QueryHandle objects, and so the WorldCtx they point to is freed only when
\* there is none: the claim of the comment in QueryHandle::drop.
THEOREM CtxOutlivesReferences ==
  ASSUME ~DestructMayPanic
  PROVE  Spec => []NoDanglingCtx
<1>1. Init => CtxInv
  <2> SUFFICES ASSUME Init PROVE CtxInv
    OBVIOUS
  <2>1. LiveRefs = {}
    BY DEF Init, LiveRefs, Live, Absent
  <2> QED
    BY <2>1, FS_EmptySet DEF Init, CtxInv, Ending
<1>2. TypeInv /\ CtxInv /\ [Next]_vars => CtxInv'
  BY CtxStep
<1>3. CtxInv => NoDanglingCtx
  BY DEF CtxInv, NoDanglingCtx
<1> QED
  BY <1>1, <1>2, <1>3, TypeInit, TypeStep, PTL DEF Spec
-----------------------------------------------------------------------------
(***************************************************************************)
(* The refcount of a header covers its references, so a header lives as    *)
(* long as one that may be touched.                                        *)
(***************************************************************************)
QueryType == [Queries -> [state : {"unused", "live", "freed"}, entity : BOOLEAN, rc : Int]]
RefType == [Refs -> [kind : {"query"}, q : Queries, at : {Owner, Closure}]
                    \cup [kind : {"handle"}, q : Queries, at : Holders]
                    \cup {Absent}]
Touching == {"drop_touch", "drop_release", "clone_claim"}
DeadPhases == {"finalizing", "counting", "freed", "leaked"}

Balanced ==
    \A q \in Queries : query[q].state = "live" =>
        query[q].rc >= Cardinality(RefsTo(q)) + PendingRelease(q)

\* Until the world is marked dead the headers of all references are alive;
\* during ecs_fini those of queries without an entity still are.
HeadersInv ==
    \A r \in LiveRefs :
        /\ HeaderOf(r).state # "unused"
        /\ ~worldDead => HeaderOf(r).state = "live"
        /\ worldPhase = "finalizing" /\ ~HeaderOf(r).entity => HeaderOf(r).state = "live"
        /\ ref[r].at = Closure => ~HeaderOf(r).entity

\* What the owner can be in the middle of in each phase of World::drop, and
\* that the mutex keeps other threads from touching queries after its first.
PhaseInv ==
    /\ worldDead <=> worldPhase \in DeadPhases
    /\ worldPhase = "freed" => ctxFreed
    /\ worldPhase = "leaked" => isPanicking
    /\ worldPhase = "finalizing" => worldRc > worldObjs
    /\ worldPhase \in {"marking", "counting"} => pc[Owner] = "idle"
    /\ worldPhase \in {"freed", "leaked"} => pc[Owner] \notin Touching
    /\ worldPhase = "finalizing" /\ pc[Owner] \in {"drop_locked", "drop_touch", "drop_release"} =>
          ref[cur[Owner]].at = Closure
    /\ worldDead => \A t \in Threads : pc[t] \in Touching => t = Owner /\ pc[t] # "clone_claim"

LEMMA RefsFinite ==
  ASSUME NEW q
  PROVE  IsFiniteSet(RefsTo(q)) /\ Cardinality(RefsTo(q)) \in Nat
  BY FS_Subset, FS_CardinalityType DEF RefsTo, LiveRefs

LEMMA PutRefs ==
  ASSUME TypeOK, NEW r \in Refs, ~Live(r), NEW kind, kind # "absent",
         NEW q \in Queries, NEW at, Put(r, kind, q, at)
  PROVE  /\ LiveRefs' = LiveRefs \cup {r} /\ r \notin LiveRefs
         /\ ref'[r] = [kind |-> kind, q |-> q, at |-> at]
         /\ \A s \in LiveRefs : ref'[s] = ref[s]
         /\ Cardinality(RefsTo(q)') = Cardinality(RefsTo(q)) + 1
         /\ \A p \in Queries \ {q} : RefsTo(p)' = RefsTo(p)
<1>1. ref \in RefType
  BY DEF TypeOK, RefType
<1>2. ref' = [ref EXCEPT ![r] = [kind |-> kind, q |-> q, at |-> at]]
  BY DEF Put
<1>3. ref'[r] = [kind |-> kind, q |-> q, at |-> at] /\ \A s \in Refs \ {r} : ref'[s] = ref[s]
  BY <1>1, <1>2 DEF RefType
<1>4. LiveRefs' = LiveRefs \cup {r} /\ r \notin LiveRefs
  BY <1>3 DEF LiveRefs, Live
<1>5. \A s \in LiveRefs : ref'[s] = ref[s]
  BY <1>3, <1>4 DEF LiveRefs
<1>6. RefsTo(q)' = RefsTo(q) \cup {r} /\ r \notin RefsTo(q)
  BY <1>3, <1>4, <1>5 DEF RefsTo
<1>7. \A p \in Queries \ {q} : RefsTo(p)' = RefsTo(p)
  BY <1>3, <1>4, <1>5 DEF RefsTo
<1>8. Cardinality(RefsTo(q)') = Cardinality(RefsTo(q)) + 1
  <2>1. Cardinality(RefsTo(q) \cup {r}) = Cardinality(RefsTo(q)) + 1
    BY <1>6, RefsFinite, FS_AddElement
  <2> QED
    BY <1>6, <2>1
<1> QED
  BY <1>3, <1>4, <1>5, <1>7, <1>8

LEMMA GoneRefs ==
  ASSUME TypeOK, NEW r \in Refs, Live(r), Gone(r), NEW q, q = ref[r].q
  PROVE  /\ q \in Queries /\ r \in RefsTo(q)
         /\ LiveRefs' = LiveRefs \ {r}
         /\ \A s \in LiveRefs' : ref'[s] = ref[s]
         /\ RefsTo(q)' = RefsTo(q) \ {r}
         /\ Cardinality(RefsTo(q)') = Cardinality(RefsTo(q)) - 1
         /\ \A p \in Queries \ {q} : RefsTo(p)' = RefsTo(p)
<1>1. ref \in RefType
  BY DEF TypeOK, RefType
<1>2. ref[r] # Absent
  BY DEF Live, Absent
<1>3. q \in Queries
  BY <1>1, <1>2 DEF RefType
<1>4. ref' = [ref EXCEPT ![r] = Absent]
  BY DEF Gone
<1>5. ref'[r].kind = "absent" /\ \A s \in Refs \ {r} : ref'[s] = ref[s]
  BY <1>1, <1>4 DEF RefType, Absent
<1>6. LiveRefs' = LiveRefs \ {r} /\ r \in LiveRefs
  BY <1>5 DEF LiveRefs, Live
<1>7. \A s \in LiveRefs' : ref'[s] = ref[s]
  BY <1>5, <1>6 DEF LiveRefs
<1>8. r \in RefsTo(q)
  BY <1>6 DEF RefsTo
<1>12. \A p \in Queries : RefsTo(p)' = {s \in LiveRefs' : ref[s].q = p}
  <2> SUFFICES ASSUME NEW p \in Queries PROVE RefsTo(p)' = {s \in LiveRefs' : ref[s].q = p}
    OBVIOUS
  <2>1. RefsTo(p)' = {s \in LiveRefs' : ref'[s].q = p}
    BY DEF RefsTo
  <2>2. \A s \in LiveRefs' : ref'[s].q = p <=> ref[s].q = p
    BY <1>7
  <2> QED
    BY <2>1, <2>2
<1>13. \A p \in Queries : RefsTo(p) = {s \in LiveRefs : ref[s].q = p}
  BY DEF RefsTo
<1>9. RefsTo(q)' = RefsTo(q) \ {r}
  <2>1. RefsTo(q)' = {s \in LiveRefs' : ref[s].q = q}
    BY <1>3, <1>12
  <2>2. RefsTo(q) = {s \in LiveRefs : ref[s].q = q}
    BY <1>3, <1>13
  <2> QED
    BY <2>1, <2>2, <1>6
<1>10. \A p \in Queries \ {q} : RefsTo(p)' = RefsTo(p)
  <2> SUFFICES ASSUME NEW p \in Queries \ {q} PROVE RefsTo(p)' = RefsTo(p)
    OBVIOUS
  <2>1. RefsTo(p)' = {s \in LiveRefs' : ref[s].q = p}
    BY <1>12
  <2>2. RefsTo(p) = {s \in LiveRefs : ref[s].q = p}
    BY <1>13
  <2> QED
    BY <2>1, <2>2, <1>6
<1>11. Cardinality(RefsTo(q)') = Cardinality(RefsTo(q)) - 1
  <2>1. Cardinality(RefsTo(q) \ {r}) = Cardinality(RefsTo(q)) - 1
    BY <1>8, RefsFinite, FS_RemoveElement
  <2> QED
    BY <1>9, <2>1
<1> QED
  BY <1>3, <1>6, <1>7, <1>8, <1>9, <1>10, <1>11

LEMMA PendingKept ==
  ASSUME TypeOK, NEW t \in Threads, NEW step, NEW obj, Goto(t, step, obj),
         step # "release", pc[t] # "release"
  PROVE  \A q : PendingRelease(q)' = PendingRelease(q)
<1>1. pc \in [Threads -> {"idle", "drop_locked", "drop_touch", "drop_release",
                          "clone_locked", "clone_claim", "release"}]
      /\ cur \in [Threads -> Refs \cup Queries \cup {None}]
  BY DEF TypeOK
<1>2. pc'[Owner] = "release" <=> pc[Owner] = "release"
  BY <1>1 DEF Goto
<1>3. pc[Owner] = "release" => cur'[Owner] = cur[Owner]
  BY <1>1 DEF Goto
<1> QED
  BY <1>2, <1>3 DEF PendingRelease

\* A header that is released last has one reference.
LEMMA SoleRef ==
  ASSUME Balanced, NEW q \in Queries, NEW r \in RefsTo(q), query[q].state = "live",
         query[q].rc \in Int, query[q].rc <= 1
  PROVE  RefsTo(q) = {r} /\ PendingRelease(q) = 0
<1>1. query[q].rc >= Cardinality(RefsTo(q)) + PendingRelease(q) /\ PendingRelease(q) \in {0, 1}
  BY DEF Balanced, PendingRelease
<1>2. Cardinality(RefsTo(q) \ {r}) = Cardinality(RefsTo(q)) - 1
  BY RefsFinite, FS_RemoveElement
<1>3. IsFiniteSet(RefsTo(q) \ {r}) /\ Cardinality(RefsTo(q) \ {r}) \in Nat
  BY RefsFinite, FS_RemoveElement, FS_CardinalityType
<1>4. Cardinality(RefsTo(q) \ {r}) = 0 /\ PendingRelease(q) = 0
  BY <1>1, <1>2, <1>3, RefsFinite
<1>5. RefsTo(q) \ {r} = {}
  BY <1>3, <1>4, FS_EmptySet
<1> QED
  BY <1>4, <1>5

\* A step that takes no reference away, or takes as many from a refcount as
\* references and pending releases, keeps the balance.
LEMMA BalanceKept ==
  ASSUME TypeInv, Balanced,
         \A q \in Queries : query'[q].state = "live" =>
            /\ query[q].state = "live" /\ query'[q].rc \in Int
            /\ query[q].rc - query'[q].rc <=
                 (Cardinality(RefsTo(q)) + PendingRelease(q))
                   - (Cardinality(RefsTo(q)') + PendingRelease(q)')
  PROVE  Balanced'
<1> SUFFICES ASSUME NEW q \in Queries, query'[q].state = "live"
             PROVE  query'[q].rc >= Cardinality(RefsTo(q)') + PendingRelease(q)'
  BY DEF Balanced
<1>1. query[q].rc \in Int /\ query'[q].rc \in Int
  BY DEF TypeInv, TypeOK
<1>2. Cardinality(RefsTo(q)) \in Nat /\ PendingRelease(q) \in Nat /\ PendingRelease(q)' \in Nat
  BY RefsFinite DEF PendingRelease
<1>3. Cardinality(RefsTo(q)') \in Nat
  <2>1. IsFiniteSet(RefsTo(q)')
    BY FS_Subset DEF RefsTo, LiveRefs
  <2> QED
    BY <2>1, FS_CardinalityType
<1>4. query[q].rc >= Cardinality(RefsTo(q)) + PendingRelease(q)
  BY DEF Balanced
<1> QED
  BY <1>1, <1>2, <1>3, <1>4

LEMMA BalancedStep ==
  ASSUME ~DestructMayPanic, TypeInv, Balanced, HeadersInv, [Next]_vars
  PROVE  Balanced'
<1>t. /\ TypeOK /\ query \in QueryType /\ ref \in RefType
      /\ pc \in [Threads -> {"idle", "drop_locked", "drop_touch", "drop_release",
                             "clone_locked", "clone_claim", "release"}]
      /\ cur \in [Threads -> Refs \cup Queries \cup {None}]
  BY DEF TypeInv, TypeOK, QueryType, RefType
<1>ty. TypeOK
  BY DEF TypeInv
<1>q. \A q \in Queries : query[q].rc \in Int /\ query[q].state \in {"unused", "live", "freed"}
  BY <1>t DEF QueryType
<1>c. \A q \in Queries : Cardinality(RefsTo(q)) \in Nat /\ PendingRelease(q) \in {0, 1}
  BY RefsFinite DEF PendingRelease
<1>op. ASSUME NEW t \in Threads, pc[t] \in HandleSteps
       PROVE  /\ cur[t] \in Refs /\ Live(cur[t]) /\ ref[cur[t]].kind = "handle"
              /\ ref[cur[t]].q \in Queries
  <2>1. cur[t] \in Refs /\ ref[cur[t]].kind = "handle"
    BY <1>op DEF TypeInv, OpsInv
  <2> QED
    BY <2>1, <1>t DEF RefType, Live, Absent
<1>pend. UNCHANGED <<pc, cur>> => \A q : PendingRelease(q)' = PendingRelease(q)
  BY DEF PendingRelease
<1>refs. UNCHANGED ref => \A q : RefsTo(q)' = RefsTo(q)
  BY DEF RefsTo, LiveRefs, Live
<1>same. UNCHANGED <<query, ref>> /\ (\A q \in Queries : PendingRelease(q)' = PendingRelease(q)) => Balanced'
  BY <1>q, <1>c, <1>refs, BalanceKept
\* A reference is added and counted.
<1>put. ASSUME NEW r \in Refs, ~Live(r), NEW kind \in {"query", "handle"}, NEW q \in Queries,
               NEW at \in Holders, Put(r, kind, q, at), Claim(q),
               \A p \in Queries : PendingRelease(p)' = PendingRelease(p)
        PROVE  Balanced'
  <2>3. ~Live(r) /\ Put(r, kind, q, at)
    BY <1>put
  <2>1. /\ Cardinality(RefsTo(q)') = Cardinality(RefsTo(q)) + 1
        /\ \A p \in Queries \ {q} : RefsTo(p)' = RefsTo(p)
    <3>1. kind # "absent"
      OBVIOUS
    <3> QED
      BY <1>ty, <2>3, <3>1, PutRefs, Zenon
  <2>2. /\ query'[q].rc = query[q].rc + 1 /\ query'[q].state = query[q].state
        /\ \A p \in Queries \ {q} : query'[p] = query[p]
    BY <1>t, <1>put DEF Claim, QueryType
  <2> QED
    BY <2>1, <2>2, <1>put, <1>q, <1>c, BalanceKept
\* A reference is forgotten: nothing is released.
<1>forget. ASSUME NEW r \in Refs, Live(r), Gone(r), UNCHANGED query,
                  \A p \in Queries : PendingRelease(p)' = PendingRelease(p)
           PROVE  Balanced'
  <2>1. PICK q : q = ref[r].q
    OBVIOUS
  <2>2. /\ q \in Queries /\ Cardinality(RefsTo(q)') = Cardinality(RefsTo(q)) - 1
        /\ \A p \in Queries \ {q} : RefsTo(p)' = RefsTo(p)
    BY <1>t, <1>forget, <2>1, GoneRefs
  <2> QED
    BY <2>2, <1>forget, <1>q, <1>c, BalanceKept
\* A reference goes and is released.
<1>drop. ASSUME NEW r \in Refs, Live(r), Gone(r), NEW mayFini \in BOOLEAN,
                Release(ref[r].q) \/ ReleaseOrFini(ref[r].q, mayFini),
                \A p \in Queries : PendingRelease(p)' = PendingRelease(p)
         PROVE  Balanced'
  <2>1. PICK q : q = ref[r].q
    OBVIOUS
  <2>2. /\ q \in Queries /\ Cardinality(RefsTo(q)') = Cardinality(RefsTo(q)) - 1
        /\ \A p \in Queries \ {q} : RefsTo(p)' = RefsTo(p)
    BY <1>t, <1>drop, <2>1, GoneRefs
  <2>3. /\ query'[q].rc = query[q].rc - 1 /\ query'[q].state \in {query[q].state, "freed"}
        /\ \A p \in Queries \ {q} : query'[p] = query[p]
    <3>1. CASE Release(q)
      BY <3>1, <1>t, <2>2 DEF Release, QueryType
    <3>2. CASE ReleaseOrFini(q, mayFini)
      BY <3>2, <1>t, <2>2 DEF ReleaseOrFini, QueryType
    <3> QED
      BY <3>1, <3>2, <1>drop, <2>1
  <2> QED
    BY <2>2, <2>3, <1>drop, <1>q, <1>c, BalanceKept
<1>1. ASSUME NEW r \in Refs, NEW q \in Queries, NEW entity \in BOOLEAN, NewQuery(r, q, entity)
      PROVE  Balanced'
  <2>1. /\ query[q].state = "unused" /\ ~Live(r) /\ Put(r, "query", q, Owner)
        /\ UNCHANGED <<pc, cur>> /\ pc[Owner] = "idle"
        /\ query' = [query EXCEPT ![q] = [state |-> "live", entity |-> entity, rc |-> 1]]
    BY <1>1 DEF NewQuery, FreeSlot, OwnerRuns, Running
  <2>2. RefsTo(q) = {} /\ PendingRelease(q)' = 0
    BY <2>1 DEF HeadersInv, RefsTo, HeaderOf, PendingRelease
  <2>3. /\ Cardinality(RefsTo(q)') = Cardinality(RefsTo(q)) + 1
        /\ \A p \in Queries \ {q} : RefsTo(p)' = RefsTo(p)
    <3>1. "query" # "absent"
      OBVIOUS
    <3> QED
      BY <1>ty, <2>1, <3>1, PutRefs, Zenon
  <2>7. Cardinality(RefsTo(q)) = 0
    BY <2>2, FS_EmptySet
  <2>4. query'[q].rc = 1 /\ \A p \in Queries \ {q} : query'[p] = query[p]
    BY <1>t, <2>1 DEF QueryType
  <2> SUFFICES ASSUME NEW p \in Queries, query'[p].state = "live"
               PROVE  query'[p].rc >= Cardinality(RefsTo(p)') + PendingRelease(p)'
    BY DEF Balanced
  <2>5. CASE p = q
    BY <2>2, <2>3, <2>4, <2>5, <2>7
  <2>6. CASE p # q
    BY <2>1, <2>3, <2>4, <2>6, <1>pend DEF Balanced
  <2> QED
    BY <2>5, <2>6
<1>2. ASSUME NEW r \in Refs, NEW q \in Queries, Reobtain(r, q) PROVE Balanced'
  BY <1>2, <1>put, <1>pend DEF Reobtain, FreeSlot
<1>3. ASSUME NEW r \in Refs, NEW s \in Refs, NEW kind \in {"query", "handle"}, Derive(r, s, kind)
      PROVE  Balanced'
  <2>1. ref[s].q \in Queries
    BY <1>3, <1>t DEF Derive, RefType, Absent
  <2> QED
    BY <2>1, <1>3, <1>put, <1>pend DEF Derive, FreeSlot
<1>4. ASSUME NEW r \in Refs, Destruct(r) PROVE Balanced'
  <2>1. PICK q : q = ref[r].q
    OBVIOUS
  <2>2. Live(r) /\ Gone(r) /\ UNCHANGED <<pc, cur>>
    BY <1>4 DEF Destruct, Live
  <2>3. /\ q \in Queries /\ \A p \in Queries \ {q} : RefsTo(p)' = RefsTo(p)
    BY <1>t, <2>1, <2>2, GoneRefs
  <2>4. query' = [query EXCEPT ![q].rc = @ - 1, ![q].state = "freed"]
    BY <1>4, <2>1 DEF Destruct
  <2>5. query'[q].state = "freed" /\ \A p \in Queries \ {q} : query'[p] = query[p]
    BY <1>t, <2>3, <2>4 DEF QueryType
  <2> QED
    BY <2>2, <2>3, <2>5, <1>pend, <1>q, <1>c, BalanceKept
<1>5. ASSUME NEW r \in Refs, DropQuery(r) PROVE Balanced'
  <2>1. PICK q : q = ref[r].q
    OBVIOUS
  <2>2. Live(r) /\ Gone(r) /\ pc[Owner] = "idle"
    BY <1>5 DEF DropQuery, MayDrop
  <2>3. CASE UNCHANGED <<query, pc, cur>>
    BY <2>2, <2>3, <1>forget, <1>pend
  <2>4. CASE ReleaseOrFini(q, TRUE) /\ UNCHANGED <<pc, cur>>
    BY <2>1, <2>2, <2>4, <1>drop, <1>pend
  <2>5. CASE UNCHANGED query /\ Goto(Owner, "release", q)
    <3>1. /\ q \in Queries /\ Cardinality(RefsTo(q)') = Cardinality(RefsTo(q)) - 1
          /\ \A p \in Queries \ {q} : RefsTo(p)' = RefsTo(p)
      BY <1>t, <2>1, <2>2, GoneRefs
    <3>2. pc'[Owner] = "release" /\ cur'[Owner] = q
      BY <2>5, <1>t DEF Goto
    <3>3. /\ PendingRelease(q)' = 1
          /\ \A p \in Queries : PendingRelease(p) = 0
          /\ \A p \in Queries \ {q} : PendingRelease(p)' = 0
      BY <2>2, <3>2 DEF PendingRelease
    <3> QED
      BY <3>1, <3>3, <2>5, <1>q, <1>c, BalanceKept
  <2> QED
    BY <1>5, <2>1, <2>3, <2>4, <2>5 DEF DropQuery
<1>6. CASE QueryRelease
  <2>1. PICK q : q = cur[Owner]
    OBVIOUS
  <2>2. pc[Owner] = "release" /\ Release(q) /\ Idle(Owner) /\ UNCHANGED ref /\ q \in Queries
    BY <1>6, <2>1 DEF QueryRelease, TypeInv, OpsInv
  <2>3. /\ query'[q].rc = query[q].rc - 1 /\ query'[q].state = query[q].state
        /\ \A p \in Queries \ {q} : query'[p] = query[p]
    BY <2>2, <1>t DEF Release, QueryType
  <2>4. pc'[Owner] = "idle"
    BY <2>2, <1>t DEF Idle, Goto
  <2>5. /\ PendingRelease(q) = 1 /\ \A p \in Queries : PendingRelease(p)' = 0
        /\ \A p \in Queries \ {q} : PendingRelease(p) = 0
    BY <2>1, <2>2, <2>4 DEF PendingRelease
  <2> QED
    BY <2>2, <2>3, <2>5, <1>refs, <1>q, <1>c, BalanceKept
<1>7. ASSUME NEW t \in Threads, NEW r \in Refs, HandleLock(t, r) PROVE Balanced'
  <2>1. Goto(t, "drop_locked", r) /\ pc[t] = "idle" /\ UNCHANGED <<query, ref>>
    BY <1>7 DEF HandleLock, MayDrop
  <2> QED
    BY <2>1, <1>t, <1>same, PendingKept
<1>8. ASSUME NEW t \in Threads, HandleCheck(t) PROVE Balanced'
  <2>1. pc[t] = "drop_locked" /\ UNCHANGED query
    BY <1>8 DEF HandleCheck
  <2>2. CASE Gone(cur[t]) /\ Idle(t)
    BY <2>1, <2>2, <1>t, <1>op, <1>forget, PendingKept DEF HandleSteps, Idle
  <2>3. CASE Goto(t, "drop_touch", cur[t]) /\ UNCHANGED ref
    BY <2>1, <2>3, <1>t, <1>same, PendingKept
  <2> QED
    BY <1>8, <2>2, <2>3 DEF HandleCheck
<1>9. ASSUME NEW t \in Threads, HandleTouch(t) PROVE Balanced'
  <2>1. pc[t] = "drop_touch"
    BY <1>9 DEF HandleTouch
  <2>2. CASE Goto(t, "drop_release", cur[t]) /\ UNCHANGED <<query, ref>>
    BY <2>1, <2>2, <1>t, <1>same, PendingKept
  <2>3. CASE UNCHANGED query /\ Gone(cur[t]) /\ Idle(t)
    BY <2>1, <2>3, <1>t, <1>op, <1>forget, PendingKept DEF HandleSteps, Idle
  <2>4. CASE ReleaseOrFini(ref[cur[t]].q, t = Owner) /\ Gone(cur[t]) /\ Idle(t)
    BY <2>1, <2>4, <1>t, <1>op, <1>drop, PendingKept DEF HandleSteps, Idle
  <2> QED
    BY <1>9, <2>2, <2>3, <2>4 DEF HandleTouch
<1>10. ASSUME NEW t \in Threads, HandleRelease(t) PROVE Balanced'
  <2>1. pc[t] = "drop_release" /\ Release(ref[cur[t]].q) /\ Gone(cur[t]) /\ Idle(t)
    BY <1>10 DEF HandleRelease
  <2> QED
    BY <2>1, <1>t, <1>op, <1>drop, PendingKept DEF HandleSteps, Idle
<1>11. ASSUME NEW t \in Threads, NEW r \in Refs, CloneLock(t, r) PROVE Balanced'
  <2>1. Goto(t, "clone_locked", r) /\ pc[t] = "idle" /\ UNCHANGED <<query, ref>>
    BY <1>11 DEF CloneLock, Running
  <2> QED
    BY <2>1, <1>t, <1>same, PendingKept
<1>12. ASSUME NEW t \in Threads, CloneCheck(t) PROVE Balanced'
  <2>1. pc[t] = "clone_locked" /\ UNCHANGED <<query, ref>>
        /\ (Idle(t) \/ Goto(t, "clone_claim", cur[t]))
    BY <1>12 DEF CloneCheck
  <2> QED
    BY <2>1, <1>t, <1>same, PendingKept DEF Idle
<1>13. ASSUME NEW t \in Threads, NEW s \in Refs, CloneClaim(t, s) PROVE Balanced'
  <2>1. pc[t] = "clone_claim" /\ ~Live(s) /\ Claim(ref[cur[t]].q)
        /\ Put(s, "handle", ref[cur[t]].q, t) /\ Idle(t)
    BY <1>13 DEF CloneClaim
  <2>2. \A q : PendingRelease(q)' = PendingRelease(q)
    BY <2>1, <1>t, PendingKept DEF Idle
  <2>3. ref[cur[t]].q \in Queries
    BY <2>1, <1>op DEF HandleSteps
  <2> QED
    BY <2>1, <2>2, <2>3, <1>put
<1>14. ASSUME NEW t \in Threads, NEW r \in Refs, NEW to \in Holders, Move(r, t, to)
       PROVE  Balanced'
  <2>1. ref' = [ref EXCEPT ![r].at = to] /\ Live(r) /\ UNCHANGED <<query, pc, cur>>
    BY <1>14 DEF Move
  <2>2. \A s \in Refs : ref'[s].kind = ref[s].kind /\ ref'[s].q = ref[s].q
    BY <2>1, <1>t DEF RefType
  <2>3. LiveRefs' = LiveRefs
    BY <2>2 DEF LiveRefs, Live
  <2>4. \A q \in Queries : RefsTo(q)' = RefsTo(q)
    BY <2>2, <2>3 DEF RefsTo, LiveRefs
  <2> QED
    BY <2>1, <2>4, <1>q, <1>c, <1>pend, BalanceKept
<1>15. ASSUME NEW q \in Queries, FiniDeletesQuery(q) PROVE Balanced'
  <2>1. query' = [query EXCEPT ![q].state = "freed"] /\ UNCHANGED <<ref, pc, cur>>
    BY <1>15 DEF FiniDeletesQuery
  <2>2. query'[q].state = "freed" /\ \A p \in Queries \ {q} : query'[p] = query[p]
    BY <2>1, <1>t DEF QueryType
  <2>3. \A p : RefsTo(p)' = RefsTo(p) /\ PendingRelease(p)' = PendingRelease(p)
    BY <2>1, <1>refs, <1>pend
  <2> QED
    BY <2>2, <2>3, <1>q, <1>c, BalanceKept
<1>16. CASE FiniEnds
  <2>1. \A q \in Queries : query'[q].state # "live"
    BY <1>16, <1>t DEF FiniEnds, QueryType
  <2> QED
    BY <2>1 DEF Balanced
<1>17. \/ WorldClone \/ WorldDrop \/ MarkWorldDead \/ CountReferences \/ UNCHANGED vars
       \/ \E t \in Threads : UserPanic(t) \/ CatchPanic(t)
       => Balanced'
  BY <1>same, <1>pend DEF WorldClone, WorldDrop, MarkWorldDead, CountReferences, vars, UserPanic, CatchPanic
<1> QED
  BY <1>1, <1>2, <1>3, <1>4, <1>5, <1>6, <1>7, <1>8, <1>9, <1>10, <1>11, <1>12,
     <1>13, <1>14, <1>15, <1>16, <1>17, Zenon DEF Next

\* A step keeps the headers alive if the references that stay keep their
\* headers, and references that are new or captured have what they need.
LEMMA HeadersKept ==
  ASSUME HeadersInv, UNCHANGED <<worldPhase, worldDead>>,
         \A r \in LiveRefs' :
            \/ /\ r \in LiveRefs /\ ref'[r].q = ref[r].q
               /\ ref'[r].at = Closure => ref[r].at = Closure \/ ~HeaderOf(r).entity
               /\ HeaderOf(r)'.state = HeaderOf(r).state
               /\ HeaderOf(r)'.entity = HeaderOf(r).entity
            \/ HeaderOf(r)'.state = "live" /\ ref'[r].at # Closure
  PROVE  HeadersInv'
<1> SUFFICES ASSUME NEW r \in LiveRefs'
             PROVE  /\ HeaderOf(r)'.state # "unused"
                    /\ ~worldDead' => HeaderOf(r)'.state = "live"
                    /\ worldPhase' = "finalizing" /\ ~HeaderOf(r)'.entity => HeaderOf(r)'.state = "live"
                    /\ ref'[r].at = Closure => ~HeaderOf(r)'.entity
  BY DEF HeadersInv
<1>1. CASE HeaderOf(r)'.state = "live" /\ ref'[r].at # Closure
  BY <1>1
<1>2. CASE /\ r \in LiveRefs /\ ref'[r].q = ref[r].q
           /\ ref'[r].at = Closure => ref[r].at = Closure \/ ~HeaderOf(r).entity
           /\ HeaderOf(r)'.state = HeaderOf(r).state
           /\ HeaderOf(r)'.entity = HeaderOf(r).entity
  BY <1>2 DEF HeadersInv
<1> QED
  BY <1>1, <1>2

LEMMA HeadersStep ==
  ASSUME ~DestructMayPanic, ~CaptureEntityQueries,
         TypeInv, Balanced, HeadersInv, PhaseInv, [Next]_vars
  PROVE  HeadersInv'
<1>t. /\ TypeOK /\ query \in QueryType /\ ref \in RefType
  BY DEF TypeInv, TypeOK, QueryType, RefType
<1>ty. TypeOK
  BY DEF TypeInv
<1>q. \A q \in Queries : query[q].rc \in Int /\ query[q].state \in {"unused", "live", "freed"}
  BY <1>t DEF QueryType
<1>rq. \A r \in LiveRefs : r \in Refs /\ ref[r].q \in Queries
  BY <1>t DEF RefType, LiveRefs, Live, Absent
<1>op. ASSUME NEW t \in Threads, pc[t] \in HandleSteps
       PROVE  cur[t] \in Refs /\ Live(cur[t]) /\ ref[cur[t]].q \in Queries
  <2>1. cur[t] \in Refs /\ ref[cur[t]].kind = "handle"
    BY <1>op DEF TypeInv, OpsInv
  <2> QED
    BY <2>1, <1>t DEF RefType, Live, Absent
<1>w. UNCHANGED worldVars => UNCHANGED <<worldPhase, worldDead>>
  BY DEF worldVars
<1>same. UNCHANGED <<worldPhase, worldDead, query, ref>> => HeadersInv'
  BY HeadersKept DEF LiveRefs, Live, HeaderOf
\* A reference to a live header is added.
<1>put. ASSUME NEW r \in Refs, ~Live(r), NEW kind, kind # "absent", NEW q \in Queries,
               NEW at \in Threads, Put(r, kind, q, at), UNCHANGED <<worldPhase, worldDead>>,
               query'[q].state = "live",
               \A p \in Queries \ {q} : query'[p] = query[p],
               query'[q] = query[q] \/ RefsTo(q) = {} \/
                  (query'[q].state = query[q].state /\ query'[q].entity = query[q].entity)
        PROVE  HeadersInv'
  <2>1. /\ LiveRefs' = LiveRefs \cup {r}
        /\ ref'[r] = [kind |-> kind, q |-> q, at |-> at]
        /\ \A s \in LiveRefs : ref'[s] = ref[s]
    <3>1. ~Live(r) /\ Put(r, kind, q, at)
      BY <1>put
    <3> QED
      BY <1>ty, <3>1, <1>put, PutRefs, Zenon
  <2>2. HeaderOf(r)'.state = "live" /\ ref'[r].at # Closure
    BY <2>1, <1>put DEF HeaderOf
  <2>3. ASSUME NEW s \in LiveRefs
        PROVE  /\ ref'[s] = ref[s] /\ HeaderOf(s)'.state = HeaderOf(s).state
               /\ HeaderOf(s)'.entity = HeaderOf(s).entity
    <3>1. CASE ref[s].q = q
      BY <2>1, <2>3, <3>1, <1>put DEF HeaderOf, RefsTo
    <3>2. CASE ref[s].q # q
      BY <2>1, <2>3, <3>2, <1>put, <1>rq DEF HeaderOf
    <3> QED
      BY <3>1, <3>2
  <2> QED
    BY <2>1, <2>2, <2>3, <1>put, HeadersKept
\* A reference goes; its header keeps its state, or it was the last one.
<1>gone. ASSUME NEW r \in Refs, Live(r), Gone(r), UNCHANGED <<worldPhase, worldDead>>,
                NEW q, q = ref[r].q, \A p \in Queries \ {q} : query'[p] = query[p],
                \/ query[q].state = "live" /\ query[q].rc <= 1
                \/ query'[q].state = query[q].state /\ query'[q].entity = query[q].entity
         PROVE  HeadersInv'
  <2>1. /\ q \in Queries /\ r \in RefsTo(q) /\ LiveRefs' = LiveRefs \ {r}
        /\ \A s \in LiveRefs' : ref'[s] = ref[s]
    BY <1>ty, <1>gone, GoneRefs, Zenon
  <2>2. ASSUME NEW s \in LiveRefs'
        PROVE  /\ HeaderOf(s)'.state = HeaderOf(s).state
               /\ HeaderOf(s)'.entity = HeaderOf(s).entity
    <3>1. CASE ref[s].q # q
      BY <2>1, <2>2, <3>1, <1>gone, <1>rq DEF HeaderOf
    <3>2. CASE ref[s].q = q /\ query[q].state = "live" /\ query[q].rc <= 1
      <4>1. RefsTo(q) = {r}
        BY <2>1, <3>2, <1>q, SoleRef
      <4>2. s \in RefsTo(q) /\ s # r
        BY <2>1, <3>2, <2>2 DEF RefsTo
      <4> QED
        BY <4>1, <4>2
    <3>3. CASE ref[s].q = q /\ query'[q].state = query[q].state /\ query'[q].entity = query[q].entity
      BY <2>1, <2>2, <3>3 DEF HeaderOf
    <3> QED
      BY <3>1, <3>2, <3>3, <1>gone
  <2> QED
    BY <2>1, <2>2, <1>gone, HeadersKept
<1>forget. ASSUME NEW r \in Refs, Live(r), Gone(r), UNCHANGED <<worldPhase, worldDead, query>>
           PROVE  HeadersInv'
  BY <1>forget, <1>gone
<1>drop. ASSUME NEW r \in Refs, Live(r), Gone(r), UNCHANGED <<worldPhase, worldDead>>,
                NEW mayFini \in BOOLEAN,
                Release(ref[r].q) \/ ReleaseOrFini(ref[r].q, mayFini)
         PROVE  HeadersInv'
  <2>1. PICK q : q = ref[r].q
    OBVIOUS
  <2>2. q \in Queries /\ r \in LiveRefs
    BY <2>1, <1>drop, <1>rq DEF LiveRefs
  <2>3. /\ \A p \in Queries \ {q} : query'[p] = query[p]
        /\ query'[q].entity = query[q].entity
        /\ query'[q].state = query[q].state \/ query[q].rc = 1
    <3>1. CASE Release(q)
      BY <3>1, <1>t, <2>2 DEF Release, QueryType
    <3>2. CASE ReleaseOrFini(q, mayFini)
      BY <3>2, <1>t, <2>2 DEF ReleaseOrFini, QueryType
    <3> QED
      BY <3>1, <3>2, <1>drop, <2>1
  <2>4. CASE query[q].state = "live"
    BY <2>1, <2>3, <2>4, <1>drop, <1>gone, <1>q, <2>2
  <2>5. CASE query[q].state # "live"
    <3>1. query'[q].state = query[q].state
      <4>1. query[q].state = "freed"
        BY <2>1, <2>2, <2>5, <1>q DEF HeadersInv, HeaderOf
      <4>2. CASE Release(q)
        BY <4>2, <1>t, <2>2 DEF Release, QueryType
      <4>3. CASE ReleaseOrFini(q, mayFini)
        BY <4>1, <4>3, <1>t, <2>2 DEF ReleaseOrFini, QueryType
      <4> QED
        BY <4>2, <4>3, <1>drop, <2>1
    <3> QED
      BY <2>1, <2>3, <3>1, <1>drop, <1>gone
  <2> QED
    BY <2>4, <2>5
<1>1. ASSUME NEW r \in Refs, NEW q \in Queries, NEW entity \in BOOLEAN, NewQuery(r, q, entity)
      PROVE  HeadersInv'
  <2>1. /\ query[q].state = "unused" /\ ~Live(r) /\ Put(r, "query", q, Owner)
        /\ query' = [query EXCEPT ![q] = [state |-> "live", entity |-> entity, rc |-> 1]]
        /\ UNCHANGED worldVars
    BY <1>1 DEF NewQuery, FreeSlot
  <2>2. RefsTo(q) = {}
    BY <2>1 DEF HeadersInv, RefsTo, HeaderOf
  <2>3. query'[q].state = "live" /\ \A p \in Queries \ {q} : query'[p] = query[p]
    BY <2>1, <1>t DEF QueryType
  <2> QED
    BY <2>1, <2>2, <2>3, <1>put, <1>w
<1>claim. ASSUME NEW r \in Refs, ~Live(r), NEW kind, kind # "absent", NEW q \in Queries,
                 NEW at \in Threads, Put(r, kind, q, at), Claim(q), UNCHANGED <<worldPhase, worldDead>>,
                 query[q].state = "live"
          PROVE  HeadersInv'
  <2>1. /\ query'[q].state = "live" /\ query'[q].entity = query[q].entity
        /\ \A p \in Queries \ {q} : query'[p] = query[p]
    BY <1>t, <1>claim DEF Claim, QueryType
  <2> QED
    BY <2>1, <1>claim, <1>put
<1>2. ASSUME NEW r \in Refs, NEW q \in Queries, Reobtain(r, q) PROVE HeadersInv'
  BY <1>2, <1>claim, <1>w DEF Reobtain, FreeSlot
<1>3. ASSUME NEW r \in Refs, NEW s \in Refs, NEW kind \in {"query", "handle"}, Derive(r, s, kind)
      PROVE  HeadersInv'
  <2>1. /\ OwnerRuns /\ ~Live(r) /\ ref[s].kind = "query"
        /\ Claim(ref[s].q) /\ Put(r, kind, ref[s].q, Owner) /\ UNCHANGED worldVars
    BY <1>3 DEF Derive, FreeSlot
  <2>2. s \in LiveRefs /\ ref[s].q \in Queries
    BY <2>1, <1>rq DEF LiveRefs, Live
  <2>3. query[ref[s].q].state = "live"
    BY <2>1, <2>2 DEF OwnerRuns, PhaseInv, HeadersInv, HeaderOf, DeadPhases
  <2> QED
    BY <2>1, <2>2, <2>3, <1>claim, <1>w
<1>4. ASSUME NEW r \in Refs, Destruct(r) PROVE HeadersInv'
  <2>1. PICK q : q = ref[r].q
    OBVIOUS
  <2>2. /\ Live(r) /\ r \in LiveRefs /\ Gone(r) /\ OwnerRuns /\ UNCHANGED worldVars
        /\ ~(query[q].rc > 1)
        /\ query' = [query EXCEPT ![q].rc = @ - 1, ![q].state = "freed"]
    BY <1>4, <2>1 DEF Destruct, Live, LiveRefs
  <2>3. q \in Queries /\ query[q].state = "live"
    BY <2>1, <2>2, <1>rq DEF OwnerRuns, PhaseInv, HeadersInv, HeaderOf, DeadPhases
  <2>4. query[q].rc <= 1 /\ \A p \in Queries \ {q} : query'[p] = query[p]
    BY <1>t, <2>2, <2>3, <1>q DEF QueryType
  <2> QED
    BY <2>1, <2>2, <2>3, <2>4, <1>gone, <1>w
<1>5. ASSUME NEW r \in Refs, DropQuery(r) PROVE HeadersInv'
  <2>1. Live(r) /\ Gone(r) /\ UNCHANGED worldVars
    BY <1>5 DEF DropQuery, MayDrop
  <2>2. UNCHANGED query \/ ReleaseOrFini(ref[r].q, TRUE)
    BY <1>5 DEF DropQuery
  <2> QED
    BY <2>1, <2>2, <1>forget, <1>drop, <1>w
<1>6. CASE QueryRelease
  <2>1. cur[Owner] \in Queries /\ Release(cur[Owner]) /\ UNCHANGED <<worldPhase, worldDead, ref>>
    BY <1>6 DEF QueryRelease, TypeInv, OpsInv, worldVars
  <2>2. \A q \in Queries : query'[q].state = query[q].state /\ query'[q].entity = query[q].entity
    BY <2>1, <1>t DEF Release, QueryType
  <2> QED
    BY <2>1, <2>2, <1>rq, HeadersKept DEF HeaderOf, LiveRefs, Live
<1>8. ASSUME NEW t \in Threads, HandleCheck(t) PROVE HeadersInv'
  <2>1. pc[t] = "drop_locked" /\ UNCHANGED <<query, worldPhase, worldDead>> /\ (Gone(cur[t]) \/ UNCHANGED ref)
    BY <1>8 DEF HandleCheck, worldVars
  <2> QED
    BY <2>1, <1>op, <1>forget, <1>same DEF HandleSteps
<1>9. ASSUME NEW t \in Threads, HandleTouch(t) PROVE HeadersInv'
  <2>1. /\ pc[t] = "drop_touch" /\ UNCHANGED <<worldPhase, worldDead>>
        /\ \/ UNCHANGED <<query, ref>>
           \/ UNCHANGED query /\ Gone(cur[t])
           \/ ReleaseOrFini(ref[cur[t]].q, t = Owner) /\ Gone(cur[t])
    BY <1>9 DEF HandleTouch, worldVars
  <2>2. (t = Owner) \in BOOLEAN
    OBVIOUS
  <2> QED
    BY <2>1, <2>2, <1>op, <1>forget, <1>drop, <1>same DEF HandleSteps
<1>10. ASSUME NEW t \in Threads, HandleRelease(t) PROVE HeadersInv'
  <2>1. /\ pc[t] = "drop_release" /\ UNCHANGED <<worldPhase, worldDead>>
        /\ Release(ref[cur[t]].q) /\ Gone(cur[t])
    BY <1>10 DEF HandleRelease, worldVars
  <2> QED
    BY <2>1, <1>op, <1>drop DEF HandleSteps
<1>13. ASSUME NEW t \in Threads, NEW s \in Refs, CloneClaim(t, s) PROVE HeadersInv'
  <2>1. /\ pc[t] = "clone_claim" /\ ~Live(s) /\ Claim(ref[cur[t]].q)
        /\ Put(s, "handle", ref[cur[t]].q, t) /\ UNCHANGED <<worldPhase, worldDead>>
    BY <1>13 DEF CloneClaim, worldVars
  <2>2. cur[t] \in LiveRefs /\ ref[cur[t]].q \in Queries
    BY <2>1, <1>op DEF HandleSteps, LiveRefs
  <2>3. query[ref[cur[t]].q].state = "live"
    BY <2>1, <2>2 DEF PhaseInv, HeadersInv, HeaderOf, Touching
  <2> QED
    BY <2>1, <2>2, <2>3, <1>claim
<1>14. ASSUME NEW t \in Threads, NEW r \in Refs, NEW to \in Holders, Move(r, t, to)
       PROVE  HeadersInv'
  <2>1. /\ ref' = [ref EXCEPT ![r].at = to] /\ Live(r) /\ UNCHANGED <<query, worldPhase, worldDead>>
        /\ to = Closure => ~HeaderOf(r).entity
    BY <1>14 DEF Move, worldVars
  <2>2. /\ \A s \in Refs : ref'[s].kind = ref[s].kind /\ ref'[s].q = ref[s].q
        /\ \A s \in Refs \ {r} : ref'[s].at = ref[s].at
        /\ ref'[r].at = to
    BY <2>1, <1>t DEF RefType, Live, Absent
  <2>3. LiveRefs' = LiveRefs
    BY <2>2 DEF LiveRefs, Live
  <2>4. \A s \in LiveRefs : HeaderOf(s)' = HeaderOf(s)
    BY <2>1, <2>2, <1>rq DEF HeaderOf
  <2> QED
    BY <2>1, <2>2, <2>3, <2>4, <1>rq, HeadersKept
<1>15. ASSUME NEW q \in Queries, FiniDeletesQuery(q) PROVE HeadersInv'
  <2>1. /\ query[q].entity /\ query' = [query EXCEPT ![q].state = "freed"]
        /\ worldPhase = "finalizing" /\ UNCHANGED <<worldPhase, worldDead, ref>>
    BY <1>15 DEF FiniDeletesQuery, worldVars
  <2>2. /\ query'[q].state = "freed" /\ query'[q].entity
        /\ \A p \in Queries \ {q} : query'[p] = query[p]
    BY <2>1, <1>t DEF QueryType
  <2>3. worldDead' /\ LiveRefs' = LiveRefs
    BY <2>1 DEF PhaseInv, DeadPhases, LiveRefs, Live
  <2> QED
    BY <2>1, <2>2, <2>3, <1>rq DEF HeadersInv, HeaderOf
<1>16. CASE FiniEnds
  <2>1. /\ worldPhase' = "counting" /\ worldDead' /\ UNCHANGED ref
    BY <1>16 DEF FiniEnds, PhaseInv, DeadPhases
  <2>2. \A q \in Queries : /\ query'[q].entity = query[q].entity
                           /\ query'[q].state = "unused" => query[q].state = "unused"
    BY <1>16, <1>t DEF FiniEnds, QueryType
  <2> QED
    BY <2>1, <2>2, <1>rq DEF HeadersInv, HeaderOf, LiveRefs, Live
<1>17. CASE MarkWorldDead
  <2>1. ~worldDead /\ worldDead' /\ UNCHANGED <<query, ref>>
    BY <1>17 DEF MarkWorldDead, PhaseInv, DeadPhases
  <2> QED
    BY <2>1 DEF HeadersInv, HeaderOf, LiveRefs, Live
<1>18. CASE WorldDrop \/ CountReferences
  <2>1. UNCHANGED <<worldDead, query, ref>> /\ (worldPhase' = "finalizing" => worldPhase = "finalizing")
    BY <1>18 DEF WorldDrop, CountReferences
  <2> QED
    BY <2>1 DEF HeadersInv, HeaderOf, LiveRefs, Live
<1>19. \/ WorldClone \/ UNCHANGED vars
       \/ \E t \in Threads : UserPanic(t) \/ CatchPanic(t) \/ CloneCheck(t)
       \/ \E t \in Threads, r \in Refs : HandleLock(t, r) \/ CloneLock(t, r)
       => HeadersInv'
  BY <1>same DEF WorldClone, vars, worldVars, UserPanic, CatchPanic, CloneCheck, HandleLock, CloneLock
<1> QED
  BY <1>1, <1>2, <1>3, <1>4, <1>5, <1>6, <1>8, <1>9, <1>10, <1>13, <1>14, <1>15,
     <1>16, <1>17, <1>18, <1>19, Zenon DEF Next

\* The steps that leave worldPhase, world_dead and the WorldCtx alone.
PhaseKept ==
    /\ UNCHANGED <<worldPhase, worldDead, ctxFreed>>
    /\ isPanicking => isPanicking'
    /\ worldPhase = "finalizing" /\ worldRc > worldObjs => worldRc' > worldObjs'

\* A step of one thread that leaves the phase alone keeps PhaseInv if that
\* thread may go where it goes, and the object another step is about stays.
LEMMA PhaseKeeps ==
  ASSUME PhaseInv, PhaseKept, NEW t \in Threads,
         \A u \in Threads \ {t} : pc'[u] = pc[u] /\ cur'[u] = cur[u],
         worldDead /\ pc'[t] \in Touching => t = Owner /\ pc'[t] # "clone_claim",
         t = Owner /\ worldPhase \in {"marking", "counting"} => pc'[t] = "idle",
         t = Owner /\ worldPhase \in {"freed", "leaked"} => pc'[t] \notin Touching,
         /\ worldPhase = "finalizing"
         /\ pc'[Owner] \in {"drop_locked", "drop_touch", "drop_release"}
         => ref'[cur'[Owner]].at = Closure
  PROVE  PhaseInv'
<1> SUFFICES /\ worldPhase \in {"marking", "counting"} => pc'[Owner] = "idle"
             /\ worldPhase \in {"freed", "leaked"} => pc'[Owner] \notin Touching
             /\ worldDead => \A u \in Threads : pc'[u] \in Touching => u = Owner /\ pc'[u] # "clone_claim"
  BY DEF PhaseInv, PhaseKept
<1>1. ASSUME NEW u \in Threads, worldDead, pc'[u] \in Touching
      PROVE  u = Owner /\ pc'[u] # "clone_claim"
  <2>1. CASE u = t
    BY <1>1, <2>1
  <2>2. CASE u # t
    BY <1>1, <2>2 DEF PhaseInv
  <2> QED
    BY <2>1, <2>2
<1>2. CASE t = Owner
  BY <1>1, <1>2
<1>3. CASE t # Owner
  BY <1>1, <1>3 DEF PhaseInv
<1> QED
  BY <1>2, <1>3

LEMMA PhaseStep ==
  ASSUME ~DestructMayPanic, TypeInv, CtxInv, PhaseInv, [Next]_vars
  PROVE  PhaseInv'
<1>t. /\ ref \in RefType
      /\ pc \in [Threads -> {"idle", "drop_locked", "drop_touch", "drop_release",
                             "clone_locked", "clone_claim", "release"}]
      /\ cur \in [Threads -> Refs \cup Queries \cup {None}]
      /\ isPanicking \in BOOLEAN /\ unwinding \subseteq Threads
  BY DEF TypeInv, TypeOK, RefType
<1>n. worldRc \in Int /\ worldObjs \in Int
  BY DEF TypeInv, TypeOK
<1>op. ASSUME NEW t \in Threads, pc[t] \in HandleSteps
       PROVE  cur[t] \in Refs /\ Live(cur[t]) /\ lock = t
  <2>1. cur[t] \in Refs /\ ref[cur[t]].kind = "handle" /\ lock = t
    BY <1>op DEF TypeInv, OpsInv
  <2> QED
    BY <2>1 DEF Live
<1>w. UNCHANGED <<worldVars, isPanicking>> => PhaseKept
  BY DEF worldVars, PhaseKept
\* The owner of a live reference cannot be touching one in a freed world.
<1>freed. ASSUME worldPhase = "freed", NEW t \in Threads PROVE pc[t] \notin HandleSteps
  <2>1. LiveRefs = {}
    BY <1>freed DEF PhaseInv, CtxInv
  <2> QED
    BY <2>1, <1>op DEF LiveRefs
\* A step that moves no thread and keeps the reference the owner works on.
<1>still. ASSUME PhaseKept, UNCHANGED <<pc, cur>>,
                 pc[Owner] \in HandleSteps => ref'[cur[Owner]].at = ref[cur[Owner]].at
          PROVE  PhaseInv'
  <2>1. /\ worldPhase = "finalizing"
        /\ pc'[Owner] \in {"drop_locked", "drop_touch", "drop_release"}
        => ref'[cur'[Owner]].at = Closure
    BY <1>still DEF PhaseInv, HandleSteps
  <2> QED
    BY <2>1, <1>still, PhaseKeeps DEF PhaseInv
\* A reference is added while no other is worked on by the owner.
<1>put. ASSUME NEW r \in Refs, ~Live(r), NEW kind, NEW q, NEW at, Put(r, kind, q, at),
               pc[Owner] \in HandleSteps
        PROVE  ref'[cur[Owner]] = ref[cur[Owner]]
  BY <1>put, <1>op, <1>t DEF Put, RefType
<1>gone. ASSUME NEW r \in Refs, Gone(r), cur[Owner] # r, pc[Owner] \in HandleSteps
         PROVE  ref'[cur[Owner]] = ref[cur[Owner]]
  BY <1>gone, <1>op, <1>t DEF Gone, RefType
\* A handle operation of t that gives the mutex back, or forgets its object.
<1>end. ASSUME NEW t \in Threads, pc[t] \in HandleSteps, Idle(t), PhaseKept,
               t # Owner => pc[Owner] \notin HandleSteps
        PROVE  PhaseInv'
  <2>1. pc'[t] = "idle" /\ \A u \in Threads \ {t} : pc'[u] = pc[u] /\ cur'[u] = cur[u]
    BY <1>end, <1>t DEF Idle, Goto
  <2>2. pc'[Owner] \notin {"drop_locked", "drop_touch", "drop_release"}
    BY <2>1, <1>end DEF HandleSteps
  <2> QED
    BY <2>1, <2>2, <1>end, PhaseKeeps DEF Touching
<1>mutex. ASSUME NEW t \in Threads, pc[t] \in HandleSteps
          PROVE  t # Owner => pc[Owner] \notin HandleSteps
  BY <1>mutex, <1>op
<1>1. ASSUME NEW r \in Refs, NEW q \in Queries, NEW entity \in BOOLEAN, NewQuery(r, q, entity)
      PROVE  PhaseInv'
  BY <1>1, <1>still, <1>w DEF NewQuery, OwnerRuns, Running, HandleSteps
<1>2. ASSUME NEW r \in Refs, NEW q \in Queries, Reobtain(r, q) PROVE PhaseInv'
  BY <1>2, <1>still, <1>w DEF Reobtain, OwnerRuns, Running, HandleSteps
<1>3. ASSUME NEW r \in Refs, NEW s \in Refs, NEW kind \in {"query", "handle"}, Derive(r, s, kind)
      PROVE  PhaseInv'
  BY <1>3, <1>still, <1>w DEF Derive, OwnerRuns, Running, HandleSteps
<1>4. ASSUME NEW r \in Refs, Destruct(r) PROVE PhaseInv'
  <2>1. UNCHANGED <<worldVars, pc, cur>> /\ pc[Owner] = "idle" /\ (isPanicking => isPanicking')
    BY <1>4 DEF Destruct, OwnerRuns, Running
  <2> QED
    BY <2>1, <1>still DEF worldVars, PhaseKept, HandleSteps
<1>5. ASSUME NEW r \in Refs, DropQuery(r) PROVE PhaseInv'
  <2>1. /\ UNCHANGED <<worldVars, isPanicking>> /\ pc[Owner] = "idle"
        /\ worldPhase \notin {"marking", "counting"}
        /\ UNCHANGED <<pc, cur>> \/ Goto(Owner, "release", ref[r].q)
    BY <1>5 DEF DropQuery, MayDrop
  <2>2. CASE UNCHANGED <<pc, cur>>
    BY <2>1, <2>2, <1>still, <1>w DEF HandleSteps
  <2>3. CASE Goto(Owner, "release", ref[r].q)
    <3>1. pc'[Owner] = "release" /\ \A u \in Threads \ {Owner} : pc'[u] = pc[u] /\ cur'[u] = cur[u]
      BY <2>3, <1>t DEF Goto
    <3> QED
      BY <2>1, <3>1, <1>w, PhaseKeeps DEF Touching
  <2> QED
    BY <2>1, <2>2, <2>3
<1>6. CASE QueryRelease
  <2>1. UNCHANGED <<worldVars, isPanicking, ref>> /\ Idle(Owner)
    BY <1>6 DEF QueryRelease, ctxVars
  <2>2. pc'[Owner] = "idle" /\ \A u \in Threads \ {Owner} : pc'[u] = pc[u] /\ cur'[u] = cur[u]
    BY <2>1, <1>t DEF Idle, Goto
  <2> QED
    BY <2>1, <2>2, <1>w, PhaseKeeps DEF Touching
<1>7. ASSUME NEW t \in Threads, NEW r \in Refs, HandleLock(t, r) PROVE PhaseInv'
  <2>1. /\ UNCHANGED <<worldVars, isPanicking, ref>> /\ MayDrop(t, r) /\ lock = None
        /\ Goto(t, "drop_locked", r)
    BY <1>7 DEF HandleLock, ctxVars
  <2>2. /\ pc'[t] = "drop_locked" /\ cur'[t] = r
        /\ \A u \in Threads \ {t} : pc'[u] = pc[u] /\ cur'[u] = cur[u]
    BY <2>1, <1>t DEF Goto
  <2>3. t = Owner => /\ worldPhase \notin {"marking", "counting"}
                     /\ worldPhase = "finalizing" => ref[r].at = Closure
    BY <2>1 DEF MayDrop
  <2>4. pc[Owner] \notin HandleSteps
    BY <2>1, <1>op
  <2>5. /\ worldPhase = "finalizing"
        /\ pc'[Owner] \in {"drop_locked", "drop_touch", "drop_release"}
        => ref'[cur'[Owner]].at = Closure
    BY <2>1, <2>2, <2>3, <2>4 DEF HandleSteps
  <2> QED
    BY <2>1, <2>2, <2>3, <2>5, <1>w, PhaseKeeps DEF Touching
<1>8. ASSUME NEW t \in Threads, HandleCheck(t) PROVE PhaseInv'
  <2>1. pc[t] = "drop_locked" /\ UNCHANGED <<worldVars, isPanicking>>
    BY <1>8 DEF HandleCheck, ctxVars
  <2>2. CASE Idle(t)
    BY <2>1, <2>2, <1>end, <1>mutex, <1>w DEF HandleSteps
  <2>3. CASE /\ ~IsPanicking(t) /\ ~(worldDead /\ t # Owner)
             /\ Goto(t, "drop_touch", cur[t]) /\ UNCHANGED ref
    <3>1. /\ pc'[t] = "drop_touch" /\ cur' = cur
          /\ \A u \in Threads \ {t} : pc'[u] = pc[u]
      BY <2>3, <1>t DEF Goto
    <3>2. worldPhase # "leaked"
      BY <2>3 DEF IsPanicking, PhaseInv
    <3>3. worldPhase # "freed"
      BY <2>1, <1>freed DEF HandleSteps
    <3>4. t = Owner => worldPhase \notin {"marking", "counting"}
      BY <2>1 DEF PhaseInv
    <3>5. /\ worldPhase = "finalizing"
          /\ pc'[Owner] \in {"drop_locked", "drop_touch", "drop_release"}
          => ref'[cur'[Owner]].at = Closure
      <4>1. pc'[Owner] = pc[Owner] \/ pc[Owner] = "drop_locked"
        BY <2>1, <3>1
      <4> QED
        BY <4>1, <3>1, <2>3 DEF PhaseInv
    <3> QED
      BY <2>1, <2>3, <3>1, <3>2, <3>3, <3>4, <3>5, <1>w, PhaseKeeps
  <2> QED
    BY <1>8, <2>2, <2>3 DEF HandleCheck
<1>9. ASSUME NEW t \in Threads, HandleTouch(t) PROVE PhaseInv'
  <2>1. pc[t] = "drop_touch" /\ UNCHANGED <<worldVars, isPanicking>>
    BY <1>9 DEF HandleTouch
  <2>2. CASE Idle(t)
    BY <2>1, <2>2, <1>end, <1>mutex, <1>w DEF HandleSteps
  <2>3. CASE Goto(t, "drop_release", cur[t]) /\ UNCHANGED ref
    <3>1. /\ pc'[t] = "drop_release" /\ cur' = cur
          /\ \A u \in Threads \ {t} : pc'[u] = pc[u]
      BY <2>3, <1>t DEF Goto
    <3>2. /\ worldPhase = "finalizing"
          /\ pc'[Owner] \in {"drop_locked", "drop_touch", "drop_release"}
          => ref'[cur'[Owner]].at = Closure
      <4>1. pc'[Owner] = pc[Owner] \/ pc[Owner] = "drop_touch"
        BY <2>1, <3>1
      <4> QED
        BY <4>1, <3>1, <2>3 DEF PhaseInv
    <3>3. /\ worldDead => t = Owner
          /\ t = Owner => worldPhase \notin {"marking", "counting", "freed", "leaked"}
      BY <2>1 DEF PhaseInv, Touching
    <3> QED
      BY <2>1, <3>1, <3>2, <3>3, <1>w, PhaseKeeps
  <2> QED
    BY <1>9, <2>2, <2>3 DEF HandleTouch
<1>10. ASSUME NEW t \in Threads, HandleRelease(t) \/ \E s \in Refs : CloneClaim(t, s)
       PROVE  PhaseInv'
  <2>1. pc[t] \in HandleSteps /\ UNCHANGED <<worldVars, isPanicking>> /\ Idle(t)
    BY <1>10 DEF HandleRelease, CloneClaim, HandleSteps
  <2> QED
    BY <2>1, <1>end, <1>mutex, <1>w
<1>11. ASSUME NEW t \in Threads, NEW r \in Refs, CloneLock(t, r) PROVE PhaseInv'
  <2>1. /\ UNCHANGED <<worldVars, isPanicking, ref>> /\ lock = None
        /\ Goto(t, "clone_locked", r)
        /\ t = Owner => worldPhase \in {"open", "freed", "leaked"}
    BY <1>11 DEF CloneLock, ctxVars
  <2>2. /\ pc'[t] = "clone_locked"
        /\ \A u \in Threads \ {t} : pc'[u] = pc[u] /\ cur'[u] = cur[u]
    BY <2>1, <1>t DEF Goto
  <2>3. pc'[Owner] \notin {"drop_locked", "drop_touch", "drop_release"}
    BY <2>1, <2>2, <1>op DEF HandleSteps
  <2> QED
    BY <2>1, <2>2, <2>3, <1>w, PhaseKeeps DEF Touching
<1>12. ASSUME NEW t \in Threads, CloneCheck(t) PROVE PhaseInv'
  <2>1. pc[t] = "clone_locked" /\ UNCHANGED <<worldVars, isPanicking, ref>>
    BY <1>12 DEF CloneCheck, ctxVars
  <2>2. CASE Idle(t)
    BY <2>1, <2>2, <1>end, <1>mutex, <1>w DEF HandleSteps
  <2>3. CASE ~worldDead /\ Goto(t, "clone_claim", cur[t])
    <3>1. /\ pc'[t] = "clone_claim" /\ cur' = cur
          /\ \A u \in Threads \ {t} : pc'[u] = pc[u]
      BY <2>3, <1>t DEF Goto
    <3>2. worldPhase \in {"open", "marking"} \/ worldPhase \notin DeadPhases
      BY <2>3 DEF PhaseInv
    <3>3. worldPhase \notin {"finalizing", "counting", "freed", "leaked"}
      BY <3>2 DEF DeadPhases
    <3>4. t = Owner => worldPhase # "marking"
      BY <2>1 DEF PhaseInv
    <3> QED
      BY <2>1, <2>3, <3>1, <3>3, <3>4, <1>w, PhaseKeeps
  <2> QED
    BY <1>12, <2>2, <2>3 DEF CloneCheck
<1>14. ASSUME NEW t \in Threads, NEW r \in Refs, NEW to \in Holders, Move(r, t, to)
       PROVE  PhaseInv'
  <2>1. /\ ref' = [ref EXCEPT ![r].at = to] /\ cur[Owner] # r
        /\ UNCHANGED <<worldVars, isPanicking, pc, cur>>
    BY <1>14 DEF Move, ctxVars
  <2>2. pc[Owner] \in HandleSteps => ref'[cur[Owner]] = ref[cur[Owner]]
    BY <2>1, <1>op, <1>t DEF RefType
  <2> QED
    BY <2>1, <2>2, <1>still, <1>w
<1>15. ASSUME UNCHANGED <<ctxFreed, worldDead, worldPhase, isPanicking, ref, pc, cur>>,
              worldRc > worldObjs => worldRc' > worldObjs'
       PROVE  PhaseInv'
  BY <1>15, <1>still DEF PhaseKept
<1>16. \/ UNCHANGED vars \/ \E t \in Threads : UserPanic(t) \/ CatchPanic(t)
       \/ \E q \in Queries : FiniDeletesQuery(q)
       => PhaseInv'
  BY <1>15 DEF vars, worldVars, ctxVars, UserPanic, CatchPanic, FiniDeletesQuery
<1>17. CASE WorldClone
  BY <1>17, <1>15, <1>n DEF WorldClone, ctxVars
<1>18. CASE WorldDrop
  <2>1. /\ UNCHANGED <<ctxFreed, worldDead, isPanicking, ref, pc, cur>>
        /\ pc[Owner] = "idle" /\ worldPhase \in {"open", "finalizing"} /\ worldObjs > 0
        /\ worldObjs' = worldObjs - 1
    BY <1>18 DEF WorldDrop, ctxVars
  <2>2. CASE worldPhase' = worldPhase /\ worldRc' \in {worldRc, worldRc - 1}
    BY <2>1, <2>2, <1>15, <1>n
  <2>3. CASE worldRc = 1 /\ worldPhase' = "marking"
    <3>1. worldPhase = "open"
      BY <2>1, <2>3, <1>n DEF PhaseInv
    <3> QED
      BY <2>1, <2>3, <3>1 DEF PhaseInv, DeadPhases
  <2> QED
    BY <1>18, <2>2, <2>3 DEF WorldDrop
<1>19. CASE MarkWorldDead
  <2>1. /\ UNCHANGED <<ctxFreed, isPanicking, ref, pc, cur, worldObjs>>
        /\ worldPhase = "marking" /\ lock = None
        /\ worldDead' = TRUE /\ worldPhase' = "finalizing" /\ worldRc' = worldRc + 1
    BY <1>19 DEF MarkWorldDead, ctxVars
  <2>2. worldRc' > worldObjs'
    BY <2>1, <1>n DEF TypeInv, WorldInv
  <2>3. \A t \in Threads : pc[t] \notin HandleSteps
    BY <2>1, <1>op
  <2> QED
    BY <2>1, <2>2, <2>3 DEF PhaseInv, DeadPhases, Touching, HandleSteps
<1>20. CASE FiniEnds
  <2>1. /\ UNCHANGED <<ctxFreed, isPanicking, ref, pc, cur, worldDead>>
        /\ worldPhase = "finalizing" /\ pc[Owner] = "idle" /\ worldPhase' = "counting"
    BY <1>20 DEF FiniEnds, ctxVars
  <2> QED
    BY <2>1 DEF PhaseInv, DeadPhases
<1>21. CASE CountReferences
  <2>1. /\ UNCHANGED <<ref, pc, cur, worldDead>> /\ worldPhase = "counting"
        /\ \/ worldPhase' = "leaked" /\ isPanicking' /\ UNCHANGED ctxFreed
           \/ worldPhase' = "freed" /\ ctxFreed'
    BY <1>21 DEF CountReferences
  <2> QED
    BY <2>1 DEF PhaseInv, DeadPhases, Touching
<1> QED
  BY <1>1, <1>2, <1>3, <1>4, <1>5, <1>6, <1>7, <1>8, <1>9, <1>10, <1>11, <1>12, <1>14,
     <1>16, <1>17, <1>18, <1>19, <1>20, <1>21, Zenon DEF Next

LifetimeInv == TypeInv /\ CtxInv /\ Balanced /\ HeadersInv /\ PhaseInv

LEMMA LifetimeInit == Init => LifetimeInv
<1> SUFFICES ASSUME Init PROVE LifetimeInv
  OBVIOUS
<1>1. LiveRefs = {}
  BY DEF Init, LiveRefs, Live, Absent
<1>2. CtxInv
  BY <1>1, FS_EmptySet DEF Init, CtxInv, Ending
<1>3. Balanced
  BY DEF Init, Balanced, Unused
<1>4. HeadersInv
  BY <1>1 DEF HeadersInv
<1>5. PhaseInv
  BY DEF Init, PhaseInv, DeadPhases, Touching
<1> QED
  BY <1>2, <1>3, <1>4, <1>5, TypeInit DEF LifetimeInv

LEMMA LifetimeAlways ==
  ASSUME ~DestructMayPanic, ~CaptureEntityQueries
  PROVE  Spec => []LifetimeInv
<1>1. LifetimeInv /\ [Next]_vars => LifetimeInv'
  BY TypeStep, CtxStep, BalancedStep, HeadersStep, PhaseStep DEF LifetimeInv
<1> QED
  BY <1>1, LifetimeInit, PTL DEF Spec

\* As long as no destruct() panics and no callback captures the query of an
\* entity, both counts cover what they count: query_ref_count every Query and
\* QueryHandle, and the refcount of a header every reference to it, one that
\* Query::drop is about to release included.
THEOREM CountsCover ==
  ASSUME ~DestructMayPanic, ~CaptureEntityQueries
  PROVE  Spec => []CountsCoverRefs
<1>1. LifetimeInv => CountsCoverRefs
  BY DEF LifetimeInv, CtxInv, Balanced, CountsCoverRefs
<1> QED
  BY <1>1, LifetimeAlways, PTL

\* Under the same conditions the world_dead mutex does what the comment in
\* QueryHandle::drop says: while a drop or a clone of a handle, on any thread,
\* is past its checks, the header of the query it touches is alive, whatever
\* the teardown of the world is doing.
THEOREM TouchedHeadersLive ==
  ASSUME ~DestructMayPanic, ~CaptureEntityQueries
  PROVE  Spec => []TouchedHeaderAlive
<1>1. LifetimeInv => TouchedHeaderAlive
  <2> SUFFICES ASSUME LifetimeInv, NEW t \in Threads, pc[t] \in Touching
               PROVE  HeaderOf(cur[t]).state = "live"
    BY DEF TouchedHeaderAlive, Touching
  <2>1. cur[t] \in LiveRefs
    BY DEF LifetimeInv, TypeInv, OpsInv, Touching, HandleSteps, LiveRefs, Live
  <2>2. CASE ~worldDead
    BY <2>1, <2>2 DEF LifetimeInv, HeadersInv
  <2>3. CASE worldDead
    <3>1. t = Owner /\ pc[t] \in {"drop_touch", "drop_release"}
      BY <2>3 DEF LifetimeInv, PhaseInv, Touching
    <3>2. worldPhase = "finalizing"
      BY <2>3, <3>1 DEF LifetimeInv, PhaseInv, DeadPhases, Touching
    <3>3. ref[cur[t]].at = Closure
      BY <3>1, <3>2 DEF LifetimeInv, PhaseInv
    <3> QED
      BY <2>1, <3>2, <3>3 DEF LifetimeInv, HeadersInv
  <2> QED
    BY <2>2, <2>3
<1> QED
  BY <1>1, LifetimeAlways, PTL
=============================================================================
