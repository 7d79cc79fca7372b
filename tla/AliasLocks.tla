------------------------------ MODULE AliasLocks ------------------------------
(***************************************************************************)
(* The aliasing locks of the flecs_safety_locks feature: one signed        *)
(* counter per table column and stage, and one per sparse component, which *)
(* every typed access takes (core/safety_map.rs, core/utility/safety.rs,   *)
(* core/table/field.rs, core/table/mod.rs and the column_lock functions of *)
(* flecs.c).                                                               *)
(*                                                                         *)
(* A counter is the number of readers, or -1 while there is a writer.  A   *)
(* borrow is a guard object (Field, FieldMut, FieldAt, TableColumnMut,     *)
(* released by its Drop) or a term of a scope (each, first, get: released  *)
(* by code that runs after the callback returns).                          *)
(***************************************************************************)
EXTENDS Integers, Sequences, FiniteSets

CONSTANTS
    Main,          \* the thread of stage 0, the only one in single-threaded mode
    Workers,       \* the threads of the other stages
    Columns,       \* columns of tables
    Sparse,        \* sparse components
    Borrows,       \* slots for the borrows of the program
    Free,          \* an unused borrow slot
    MaxDepth,      \* bound on nested scopes and catch_unwind frames
    MaxCount,      \* bound on a counter's magnitude, which leaks can raise
    GetInWorkers,  \* callbacks of workers call EntityView::get and the like
    WideAccess,    \* a worker reaches rows that are not its own (iter_stage)
    CatchInside,   \* the program catches panics while the world is in use
    ResizeHeld     \* the program sets the stage count while it holds a guard

Threads == Workers \cup {Main}
Targets == Columns \cup Sparse
Slots   == Targets \X Threads
Modes   == {"read", "write"}
ScopeKinds == {"each", "get"}

ASSUME ConstAssumption ==
    /\ Main \notin Workers
    /\ Columns \cap Sparse = {}
    /\ IsFiniteSet(Borrows)
    /\ MaxDepth \in Nat /\ MaxCount \in Nat
    /\ GetInWorkers \in BOOLEAN /\ WideAccess \in BOOLEAN
    /\ CatchInside \in BOOLEAN /\ ResizeHeld \in BOOLEAN

Borrow == [thread : Threads, slot : Slots, mode : Modes,
           level : 0 .. MaxDepth, scoped : BOOLEAN]

ASSUME FreeAssumption == Free \notin Borrow

VARIABLES
    multi,    \* EcsWorldMultiThreaded: the workers run
    count,    \* column_lock and sparse_lock
    borrow,   \* the references the program holds
    stack,    \* the scopes and catch_unwind frames each thread is in
    status    \* what each thread is doing

vars == <<multi, count, borrow, stack, status>>

Held == {b \in Borrows : borrow[b] # Free}
HeldBy(t) == {b \in Held : borrow[b].thread = t}
On(s) == {b \in Held : borrow[b].slot = s}
Depth(t) == Len(stack[t])
Top(t) == stack[t][Depth(t)]
\* the borrows of the innermost frame of t
Guards(t) == {b \in HeldBy(t) : borrow[b].level = Depth(t) /\ ~borrow[b].scoped}
Terms(t)  == {b \in HeldBy(t) : borrow[b].level = Depth(t) /\ borrow[b].scoped}

Types ==
    /\ multi \in BOOLEAN
    /\ count \in [Slots -> Int]
    /\ borrow \in [Borrows -> Borrow \cup {Free}]
    /\ stack \in [Threads -> Seq(ScopeKinds \cup {"catch"})]
    /\ \A t \in Threads : Depth(t) <= MaxDepth
    /\ status \in [Threads -> {"run", "acquire", "release", "unwind", "ended"}]

\* while a thread locks or unlocks terms, its innermost frame is the scope
InScope(t) == Depth(t) > 0 /\ Top(t) \in ScopeKinds
ScopeInv == \A t \in Threads : status[t] \in {"acquire", "release"} => InScope(t)

TypeOK == Types /\ ScopeInv

Init ==
    /\ multi = FALSE
    /\ count = [s \in Slots |-> 0]
    /\ borrow = [b \in Borrows |-> Free]
    /\ stack = [t \in Threads |-> << >>]
    /\ status = [t \in Threads |-> "run"]

\* a panic that nothing catches ends the process
Ended == \E t \in Threads : status[t] = "ended"
Active(t) == ~Ended /\ (multi \/ t = Main)
Runs(t) == Active(t) /\ status[t] = "run"

(***************************************************************************)
(* The counters                                                            *)
(***************************************************************************)

\* The counter an access of thread t to x goes through.  Outside of
\* multithreaded mode it is the one of stage 0, the thread of which is the
\* only one that runs.
OwnSlot(t, x) == <<x, IF x \in Sparse THEN Main ELSE t>>
\* get takes the stage id of the real world, which is 0 in every thread
GetSlot(t, x) == <<x, Main>>

Delta(mode) == IF mode = "read" THEN 1 ELSE -1
BeginFails_NoWriterCheck(c, mode) == mode = "write" /\ c - 1 # -1
\* read_begin returns ++lock <= 0 and write_begin --lock != -1
BeginFails(c, mode) == IF mode = "read" THEN c + 1 <= 0 ELSE c - 1 # -1

Begin(s, mode) == count' = [count EXCEPT ![s] = @ + Delta(mode)]
End(s, mode)   == count' = [count EXCEPT ![s] = @ - Delta(mode)]
Bounded(s) == count[s] \in -MaxCount .. MaxCount

Take(b, t, s, mode, scoped) ==
    borrow' = [borrow EXCEPT ![b] = [thread |-> t, slot |-> s, mode |-> mode,
                                     level |-> Depth(t), scoped |-> scoped]]
Drop(b) == borrow' = [borrow EXCEPT ![b] = Free]
Become(t, st) == status' = [status EXCEPT ![t] = st]

(***************************************************************************)
(* Guards                                                                  *)
(***************************************************************************)

\* The accessors that panic: the counter is changed before it is tested, and
\* the panic leaves it changed.
Acquire(t, b, s, mode, scoped) ==
    /\ borrow[b] = Free /\ Bounded(s)
    /\ Begin(s, mode)
    /\ IF BeginFails(count[s], mode)
       THEN Become(t, "unwind") /\ UNCHANGED borrow
       ELSE Take(b, t, s, mode, scoped) /\ UNCHANGED status

\* Field::new, FieldMut::new, FieldAt::new, FieldAtMut::new, TableColumnMut::new
OpenGuard(t, b, x, mode) ==
    /\ Runs(t)
    /\ Acquire(t, b, OwnSlot(t, x), mode, FALSE)
    /\ UNCHANGED <<multi, stack>>

TryGuard_KeepsCount(t, b, x, mode) ==
    /\ Runs(t)
    /\ borrow[b] = Free /\ Bounded(OwnSlot(t, x))
    /\ Begin(OwnSlot(t, x), mode)
    /\ IF BeginFails(count[OwnSlot(t, x)], mode) THEN UNCHANGED borrow
       ELSE Take(b, t, OwnSlot(t, x), mode, FALSE)
    /\ UNCHANGED <<multi, stack, status>>
\* Field::new_result, FieldMut::new_result: a failed attempt is rolled back
TryGuard(t, b, x, mode) ==
    /\ Runs(t)
    /\ borrow[b] = Free
    /\ ~BeginFails(count[OwnSlot(t, x)], mode)
    /\ Begin(OwnSlot(t, x), mode)
    /\ Take(b, t, OwnSlot(t, x), mode, FALSE)
    /\ UNCHANGED <<multi, stack, status>>

\* Drop for the guards
DropGuard(t, b) ==
    /\ Runs(t)
    /\ b \in HeldBy(t) /\ ~borrow[b].scoped
    /\ End(borrow[b].slot, borrow[b].mode)
    /\ Drop(b)
    /\ UNCHANGED <<multi, stack, status>>

(***************************************************************************)
(* Scopes: each and its variants, get and its variants                     *)
(***************************************************************************)
Push(t, frame) == Depth(t) < MaxDepth /\ stack' = [stack EXCEPT ![t] = Append(@, frame)]
Pop(t) == stack' = [stack EXCEPT ![t] = SubSeq(@, 1, Depth(t) - 1)]

BeginScope(t, kind) ==
    /\ Runs(t)
    /\ kind = "get" /\ t # Main => GetInWorkers
    /\ Push(t, kind)
    /\ Become(t, "acquire")
    /\ UNCHANGED <<multi, count, borrow>>

\* the terms are locked one by one, before the callback
AcquireTerm(t, b, x, mode) ==
    /\ Active(t) /\ status[t] = "acquire"
    /\ Acquire(t, b, IF Top(t) = "get" THEN GetSlot(t, x) ELSE OwnSlot(t, x), mode, TRUE)
    /\ UNCHANGED <<multi, stack>>

EnterCallback(t) ==
    /\ Active(t) /\ status[t] = "acquire"
    /\ Become(t, "run")
    /\ UNCHANGED <<multi, count, borrow, stack>>

LeaveCallback_AnyFrame(t) ==
    /\ Runs(t) /\ Guards(t) = {}
    /\ Become(t, "release")
    /\ UNCHANGED <<multi, count, borrow, stack>>
\* the callback returns
LeaveCallback(t) ==
    /\ Runs(t) /\ InScope(t) /\ Guards(t) = {}
    /\ Become(t, "release")
    /\ UNCHANGED <<multi, count, borrow, stack>>

ReleaseTerm_Unlocked(t, b) ==
    /\ Active(t) /\ status[t] = "release"
    /\ b \in Terms(t)
    /\ Drop(b)
    /\ UNCHANGED <<multi, count, stack, status>>
ReleaseTerm(t, b) ==
    /\ Active(t) /\ status[t] = "release"
    /\ b \in Terms(t)
    /\ End(borrow[b].slot, borrow[b].mode)
    /\ Drop(b)
    /\ UNCHANGED <<multi, stack, status>>

FinishScope(t) ==
    /\ Active(t) /\ status[t] = "release"
    /\ Terms(t) = {}
    /\ Pop(t)
    /\ Become(t, "run")
    /\ UNCHANGED <<multi, count, borrow>>

(***************************************************************************)
(* Panics                                                                  *)
(***************************************************************************)

\* a callback panics for a reason of its own
UserPanic(t) ==
    /\ Runs(t)
    /\ Become(t, "unwind")
    /\ UNCHANGED <<multi, count, borrow, stack>>

\* unwinding runs the Drop of the guards, but not the code that would
\* release the terms of a scope
UnwindBorrow(t, b) ==
    /\ Active(t) /\ status[t] = "unwind"
    /\ b \in Guards(t) \cup Terms(t)
    /\ IF borrow[b].scoped THEN UNCHANGED count
       ELSE End(borrow[b].slot, borrow[b].mode)
    /\ Drop(b)
    /\ UNCHANGED <<multi, stack, status>>

UnwindFrame(t) ==
    /\ Active(t) /\ status[t] = "unwind"
    /\ Guards(t) \cup Terms(t) = {}
    /\ IF Depth(t) = 0
       THEN Become(t, "ended") /\ UNCHANGED stack
       ELSE /\ Pop(t)
            /\ IF Top(t) = "catch" THEN Become(t, "run") ELSE UNCHANGED status
    /\ UNCHANGED <<multi, count, borrow>>

BeginCatch(t) ==
    /\ CatchInside /\ Runs(t)
    /\ Push(t, "catch")
    /\ UNCHANGED <<multi, count, borrow, status>>

EndCatch(t) ==
    /\ Runs(t) /\ Depth(t) > 0 /\ Top(t) = "catch" /\ Guards(t) = {}
    /\ Pop(t)
    /\ UNCHANGED <<multi, count, borrow, status>>

(***************************************************************************)
(* Threading mode and stages                                               *)
(***************************************************************************)
Quiet == Held = {} /\ \A t \in Threads : status[t] = "run" /\ stack[t] = << >>

\* readonly_begin(multi_threaded) and readonly_end, by the pipeline
SetMulti(m) ==
    /\ ~Ended /\ Quiet
    /\ multi' = m
    /\ UNCHANGED <<count, borrow, stack, status>>

\* set_stage_count: every column counter starts again from zero
Resize ==
    /\ Runs(Main) /\ ~multi
    /\ ResizeHeld \/ Held = {}
    /\ count' = [s \in Slots |-> IF s[1] \in Columns THEN 0 ELSE count[s]]
    /\ UNCHANGED <<multi, borrow, stack, status>>

Next ==
    \/ \E t \in Threads, b \in Borrows, x \in Targets, mode \in Modes : OpenGuard(t, b, x, mode)
    \/ \E t \in Threads, b \in Borrows, x \in Columns, mode \in Modes : TryGuard(t, b, x, mode)
    \/ \E t \in Threads, b \in Borrows, x \in Targets, mode \in Modes : AcquireTerm(t, b, x, mode)
    \/ \E t \in Threads, b \in Borrows : DropGuard(t, b)
    \/ \E t \in Threads, b \in Borrows : ReleaseTerm(t, b)
    \/ \E t \in Threads, b \in Borrows : UnwindBorrow(t, b)
    \/ \E t \in Threads, kind \in ScopeKinds : BeginScope(t, kind)
    \/ \E t \in Threads : EnterCallback(t)
    \/ \E t \in Threads : LeaveCallback(t)
    \/ \E t \in Threads : FinishScope(t)
    \/ \E t \in Threads : UserPanic(t)
    \/ \E t \in Threads : UnwindFrame(t)
    \/ \E t \in Threads : BeginCatch(t)
    \/ \E t \in Threads : EndCatch(t)
    \/ \E m \in BOOLEAN : SetMulti(m)
    \/ Resize

Spec == Init /\ [][Next]_vars

(***************************************************************************)
(* What the locks are for                                                  *)
(***************************************************************************)
Panicking(t) == status[t] \in {"unwind", "ended"}
Panicked == \E t \in Threads : Panicking(t)

\* Two references reach the same component value: rows are split between the
\* threads, so within one thread, unless an access is not limited to its rows.
Overlap(a, b) ==
    /\ borrow[a].slot[1] = borrow[b].slot[1]
    /\ WideAccess \/ borrow[a].thread = borrow[b].thread

\* No component value is reachable through a mutable reference and another
\* reference at the same time, whichever kinds of access gave them out.  The
\* counter of a sparse component is shared by all threads, so a thread that
\* panics on it corrupts it for the others until the process ends.
NoAliasing ==
    \A a, b \in Held :
        a # b /\ Overlap(a, b) =>
            \/ borrow[a].mode = "read" /\ borrow[b].mode = "read"
            \/ /\ borrow[a].slot[1] \in Sparse
               /\ \E t \in Threads \ {borrow[a].thread} : Panicking(t)

\* Until something panics, a counter is 0 or more and counts the readers, or
\* is -1 and there is one writer and nobody else: no access path forgets its
\* release, releases twice, or releases another counter than it took.
CountsMatchBorrows ==
    ~Panicked =>
        \A s \in Slots :
            \/ /\ \A b \in On(s) : borrow[b].mode = "read"
               /\ count[s] = Cardinality(On(s))
            \/ /\ count[s] = -1
               /\ \E w \in On(s) : On(s) = {w} /\ borrow[w].mode = "write"

\* A counter comes to disagree with the borrows on it only when an access
\* panics on a conflict or when unwinding passes a scope that holds it, and
\* agrees again at the latest when the stage count is set.  In particular the
\* accessors that return an error, every normal release and the unwinding of
\* guards leave no trace.
Drift(s) == count[s] - Cardinality({b \in On(s) : borrow[b].mode = "read"})
                     + Cardinality({b \in On(s) : borrow[b].mode = "write"})
Conflict == \E t \in Threads : status[t] # "unwind" /\ status'[t] = "unwind"
ScopeUnwound == \E t \in Threads : status[t] = "unwind" /\ \E b \in Terms(t) : borrow'[b] = Free
DriftOnlyByPanic ==
    [][\A s \in Slots : Drift(s)' \in {Drift(s), 0} \/ Conflict \/ ScopeUnwound]_vars
==============================================================================
