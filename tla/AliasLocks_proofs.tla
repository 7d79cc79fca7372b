------------------------- MODULE AliasLocks_proofs -------------------------
(***************************************************************************)
(* For any number of threads, columns, sparse components and borrows: the  *)
(* types, and that the locks exclude aliasing and count exactly, as long   *)
(* as callbacks of workers stay within their rows and do not call get,     *)
(* panics are not caught, and stages are not resized under a guard.        *)
(* Without the first two conditions, a counter still comes apart from its  *)
(* borrows only where an access panics or a scope is unwound.              *)
(***************************************************************************)
EXTENDS AliasLocks, FiniteSetTheorems, SequenceTheorems, TLAPS

USE ConstAssumption, FreeAssumption DEF Threads, Targets, Slots, Modes, ScopeKinds

TypeInv == Types /\ ScopeInv

LEMMA PushType ==
    ASSUME NEW S, NEW s \in Seq(S), NEW e \in S
    PROVE  /\ Append(s, e) \in Seq(S) /\ Len(Append(s, e)) = Len(s) + 1
           /\ Append(s, e)[Len(s) + 1] = e
           /\ \A i \in 1 .. Len(s) : Append(s, e)[i] = s[i]
  BY AppendProperties

LEMMA PopType ==
    ASSUME NEW S, NEW s \in Seq(S), NEW n \in Nat, Len(s) = n + 1
    PROVE  /\ SubSeq(s, 1, n) \in Seq(S)
           /\ Len(SubSeq(s, 1, n)) = n
           /\ \A i \in 1 .. n : SubSeq(s, 1, n)[i] = s[i]
<1>1. \A i \in 1 .. n : s[i] \in S
  BY ElementOfSeq
<1> DEFINE p == SubSeq(s, 1, n)
<1>2. /\ p \in Seq(S)
      /\ Len(p) = IF 1 <= n THEN n - 1 + 1 ELSE 0
      /\ \A i \in 1 .. n - 1 + 1 : p[i] = s[1 + i - 1]
  BY <1>1, SubSeqProperties
<1> HIDE DEF p
<1>3. Len(p) = n /\ \A i \in 1 .. n : p[i] = s[i]
  BY <1>2
<1> QED
  BY <1>2, <1>3 DEF p

LEMMA TypeInit == Init => TypeInv
<1> SUFFICES ASSUME Init PROVE TypeInv
  OBVIOUS
<1>1. << >> \in Seq(ScopeKinds \cup {"catch"}) /\ Len(<< >>) = 0
  BY EmptySeq
<1>2. /\ stack \in [Threads -> Seq(ScopeKinds \cup {"catch"})]
      /\ \A t \in Threads : Len(stack[t]) = 0
  BY <1>1 DEF Init
<1>3. count \in [Slots -> Int]
  BY DEF Init
<1>4. Types
  <2>1. borrow \in [Borrows -> Borrow \cup {Free}] /\ multi \in BOOLEAN
    BY DEF Init
  <2>2. status \in [Threads -> {"run", "acquire", "release", "unwind", "ended"}]
    BY DEF Init
  <2> QED
    BY <1>2, <1>3, <2>1, <2>2 DEF Types, Depth
<1> QED
  BY <1>4 DEF Init, TypeInv, ScopeInv

\* What an attempt to lock does to the counters, borrows and statuses.
LEMMA AcquireType ==
    ASSUME TypeInv, NEW t \in Threads, NEW b \in Borrows, NEW s \in Slots, NEW mode \in Modes,
           NEW scoped \in BOOLEAN, Acquire(t, b, s, mode, scoped), UNCHANGED <<multi, stack>>
    PROVE  TypeInv'
<1>1. count' \in [Slots -> Int]
  BY DEF Acquire, Begin, Delta, TypeInv, Types
<1>2. stack[t] \in Seq(ScopeKinds \cup {"catch"}) /\ Depth(t) <= MaxDepth
  BY DEF TypeInv, Types
<1>3. Depth(t) \in 0 .. MaxDepth
  BY <1>2, LenProperties DEF Depth
<1>4. CASE BeginFails(count[s], mode)
  <2>1. status' = [status EXCEPT ![t] = "unwind"] /\ borrow' = borrow
    BY <1>4 DEF Acquire, Become
  <2> QED
    BY <1>1, <2>1 DEF TypeInv, Types, ScopeInv, InScope, Depth, Top
<1>5. CASE ~BeginFails(count[s], mode)
  <2>1. Take(b, t, s, mode, scoped) /\ UNCHANGED status
    BY <1>5 DEF Acquire
  <2>2. [thread |-> t, slot |-> s, mode |-> mode, level |-> Depth(t), scoped |-> scoped]
            \in Borrow
    BY <1>3 DEF Borrow
  <2>3. borrow' \in [Borrows -> Borrow \cup {Free}]
    BY <2>1, <2>2 DEF Take, TypeInv, Types
  <2> QED
    BY <1>1, <2>1, <2>3 DEF TypeInv, Types, ScopeInv, InScope, Depth, Top
<1> QED
  BY <1>4, <1>5

LEMMA SlotType ==
    ASSUME NEW t \in Threads, NEW x \in Targets
    PROVE  OwnSlot(t, x) \in Slots /\ GetSlot(t, x) \in Slots
  BY DEF OwnSlot, GetSlot

LEMMA EndType ==
    ASSUME TypeInv, NEW b \in Held, End(borrow[b].slot, borrow[b].mode)
    PROVE  /\ borrow[b] \in Borrow /\ borrow[b].slot \in Slots
           /\ count' \in [Slots -> Int]
  BY DEF Held, End, Delta, TypeInv, Types, Borrow

LEMMA TypeStep == TypeInv /\ [Next]_vars => TypeInv'
<1> SUFFICES ASSUME TypeInv, [Next]_vars PROVE TypeInv'
  OBVIOUS
<1>t. /\ \A t \in Threads : stack[t] \in Seq(ScopeKinds \cup {"catch"})
      /\ \A t \in Threads : Depth(t) \in Nat /\ Depth(t) <= MaxDepth
  BY LenProperties DEF TypeInv, Types, Depth
<1>1. ASSUME NEW t \in Threads, NEW b \in Borrows, NEW x \in Targets, NEW mode \in Modes,
             OpenGuard(t, b, x, mode)
      PROVE  TypeInv'
  <2>1. Acquire(t, b, OwnSlot(t, x), mode, FALSE) /\ UNCHANGED <<multi, stack>>
    BY <1>1 DEF OpenGuard
  <2>2. OwnSlot(t, x) \in Slots /\ FALSE \in BOOLEAN
    BY SlotType
  <2> QED
    BY <2>1, <2>2, AcquireType
<1>2. ASSUME NEW t \in Threads, NEW b \in Borrows, NEW x \in Columns, NEW mode \in Modes,
             TryGuard(t, b, x, mode)
      PROVE  TypeInv'
  <2>1. [thread |-> t, slot |-> OwnSlot(t, x), mode |-> mode, level |-> Depth(t),
         scoped |-> FALSE] \in Borrow
    BY <1>t, SlotType DEF Borrow
  <2>2. borrow' \in [Borrows -> Borrow \cup {Free}]
    BY <1>2, <2>1 DEF TryGuard, Take, TypeInv, Types
  <2>3. count' \in [Slots -> Int]
    BY <1>2, SlotType DEF TryGuard, Begin, Delta, TypeInv, Types
  <2>4. UNCHANGED <<multi, stack, status>>
    BY <1>2 DEF TryGuard
  <2> QED
    BY <2>2, <2>3, <2>4 DEF TypeInv, Types, ScopeInv, InScope, Depth, Top
<1>3. ASSUME NEW t \in Threads, NEW b \in Borrows, NEW x \in Targets, NEW mode \in Modes,
             AcquireTerm(t, b, x, mode)
      PROVE  TypeInv'
  <2>1. PICK s \in Slots : Acquire(t, b, s, mode, TRUE) /\ UNCHANGED <<multi, stack>>
    BY <1>3, SlotType DEF AcquireTerm
  <2> QED
    BY <2>1, AcquireType
<1>4. ASSUME NEW t \in Threads, NEW b \in Borrows, DropGuard(t, b)
      PROVE  TypeInv'
  BY <1>4, EndType DEF DropGuard, HeldBy, Drop, TypeInv, Types, ScopeInv, InScope, Depth, Top
<1>5. ASSUME NEW t \in Threads, NEW b \in Borrows, ReleaseTerm(t, b)
      PROVE  TypeInv'
  BY <1>5, EndType DEF ReleaseTerm, Terms, HeldBy, Drop, TypeInv, Types, ScopeInv, InScope,
                      Depth, Top
<1>6. ASSUME NEW t \in Threads, NEW b \in Borrows, UnwindBorrow(t, b)
      PROVE  TypeInv'
  <2>1. b \in Held /\ Drop(b) /\ UNCHANGED <<multi, stack, status>>
    BY <1>6 DEF UnwindBorrow, Guards, Terms, HeldBy
  <2>2. count' \in [Slots -> Int]
    <3>1. CASE borrow[b].scoped
      BY <1>6, <3>1 DEF UnwindBorrow, TypeInv, Types
    <3>2. CASE ~borrow[b].scoped
      BY <1>6, <2>1, <3>2, EndType DEF UnwindBorrow
    <3> QED
      BY <3>1, <3>2
  <2> QED
    BY <2>1, <2>2 DEF Drop, TypeInv, Types, ScopeInv, InScope, Depth, Top
<1>7. ASSUME NEW t \in Threads, NEW kind \in ScopeKinds, BeginScope(t, kind)
      PROVE  TypeInv'
  <2>1. /\ stack' = [stack EXCEPT ![t] = Append(stack[t], kind)] /\ Depth(t) < MaxDepth
        /\ status' = [status EXCEPT ![t] = "acquire"]
        /\ UNCHANGED <<multi, count, borrow>>
    BY <1>7 DEF BeginScope, Push, Become
  <2>2. /\ Append(stack[t], kind) \in Seq(ScopeKinds \cup {"catch"})
        /\ Len(Append(stack[t], kind)) = Depth(t) + 1
        /\ Append(stack[t], kind)[Depth(t) + 1] = kind
    BY <1>t, PushType DEF Depth
  <2> QED
    BY <1>t, <2>1, <2>2 DEF TypeInv, Types, ScopeInv, InScope, Depth, Top
<1>8. ASSUME NEW t \in Threads, EnterCallback(t) \/ UserPanic(t)
      PROVE  TypeInv'
  <2>1. \E st \in {"run", "unwind"} : status' = [status EXCEPT ![t] = st]
    BY <1>8 DEF EnterCallback, UserPanic, Become
  <2>2. UNCHANGED <<multi, count, borrow, stack>>
    BY <1>8 DEF EnterCallback, UserPanic
  <2> QED
    BY <2>1, <2>2 DEF TypeInv, Types, ScopeInv, InScope, Depth, Top
<1>9. ASSUME NEW t \in Threads, LeaveCallback(t)
      PROVE  TypeInv'
  BY <1>9 DEF LeaveCallback, Become, TypeInv, Types, ScopeInv, InScope, Depth, Top
<1>10. ASSUME NEW t \in Threads, Pop(t), Depth(t) > 0,
              UNCHANGED <<multi, count, borrow>>,
              \E st \in {"run", "unwind"} : status' = [status EXCEPT ![t] = st]
       PROVE  TypeInv'
  <2>1. /\ stack' = [stack EXCEPT ![t] = SubSeq(stack[t], 1, Depth(t) - 1)]
        /\ SubSeq(stack[t], 1, Depth(t) - 1) \in Seq(ScopeKinds \cup {"catch"})
        /\ Len(SubSeq(stack[t], 1, Depth(t) - 1)) = Depth(t) - 1
    <3>1. Depth(t) - 1 \in Nat /\ Len(stack[t]) = (Depth(t) - 1) + 1
      BY <1>10, <1>t DEF Depth
    <3> QED
      BY <1>10, <1>t, <3>1, PopType DEF Pop
  <2> QED
    BY <1>10, <1>t, <2>1 DEF TypeInv, Types, ScopeInv, InScope, Depth, Top
<1>11. ASSUME NEW t \in Threads, FinishScope(t)
       PROVE  TypeInv'
  <2>1. Depth(t) > 0
    BY <1>11 DEF FinishScope, TypeInv, ScopeInv, InScope
  <2> QED
    BY <1>10, <1>11, <2>1 DEF FinishScope, Become
<1>12. ASSUME NEW t \in Threads, UnwindFrame(t)
       PROVE  TypeInv'
  <2>1. CASE Depth(t) = 0
    BY <1>12, <2>1 DEF UnwindFrame, Become, TypeInv, Types, ScopeInv, InScope, Depth, Top
  <2>2. CASE Depth(t) # 0
    <3>1. status' = [status EXCEPT ![t] = "run"] \/ status' = [status EXCEPT ![t] = "unwind"]
      BY <1>12, <2>2 DEF UnwindFrame, Become, TypeInv, Types
    <3>2. Pop(t) /\ UNCHANGED <<multi, count, borrow>>
      BY <1>12, <2>2 DEF UnwindFrame
    <3> QED
      BY <1>10, <1>t, <2>2, <3>1, <3>2
  <2> QED
    BY <2>1, <2>2
<1>13. ASSUME NEW t \in Threads, BeginCatch(t)
       PROVE  TypeInv'
  <2>1. /\ stack' = [stack EXCEPT ![t] = Append(stack[t], "catch")] /\ Depth(t) < MaxDepth
        /\ UNCHANGED <<multi, count, borrow, status>> /\ status[t] = "run"
    BY <1>13 DEF BeginCatch, Push, Runs
  <2>2. /\ Append(stack[t], "catch") \in Seq(ScopeKinds \cup {"catch"})
        /\ Len(Append(stack[t], "catch")) = Depth(t) + 1
    BY <1>t, PushType DEF Depth
  <2> QED
    BY <1>t, <2>1, <2>2 DEF TypeInv, Types, ScopeInv, InScope, Depth, Top
<1>14. ASSUME NEW t \in Threads, EndCatch(t)
       PROVE  TypeInv'
  <2>1. status' = [status EXCEPT ![t] = "run"]
    BY <1>14 DEF EndCatch, Runs, TypeInv, Types
  <2> QED
    BY <1>10, <1>14, <2>1 DEF EndCatch
<1>15. ASSUME NEW m \in BOOLEAN, SetMulti(m)
       PROVE  TypeInv'
  BY <1>15 DEF SetMulti, TypeInv, Types, ScopeInv, InScope, Depth, Top
<1>16. CASE Resize
  <2>1. count' \in [Slots -> Int]
    BY <1>16 DEF Resize, TypeInv, Types
  <2> QED
    BY <1>16, <2>1 DEF Resize, TypeInv, Types, ScopeInv, InScope, Depth, Top
<1>17. CASE UNCHANGED vars
  BY <1>17 DEF vars, TypeInv, Types, ScopeInv, InScope, Depth, Top
<1> HIDE DEF TypeInv
<1> QED
  BY <1>1, <1>2, <1>3, <1>4, <1>5, <1>6, <1>7, <1>8, <1>9, <1>11, <1>12, <1>13, <1>14,
     <1>15, <1>16, <1>17, Zenon DEF Next

\* Counters, borrows, frames and statuses keep their types, and frames nest
\* no deeper than the bound.
THEOREM TypeCorrect == Spec => []TypeOK
<1>1. Init => TypeInv
  BY TypeInit
<1>2. TypeInv /\ [Next]_vars => TypeInv'
  BY TypeStep
<1>3. TypeInv => TypeOK
  BY DEF TypeInv, TypeOK
<1> QED
  BY <1>1, <1>2, <1>3, PTL DEF Spec

(***************************************************************************)
(* Exclusion                                                               *)
(***************************************************************************)
Disciplined == ~GetInWorkers /\ ~WideAccess /\ ~CatchInside /\ ~ResizeHeld

\* nobody catches a panic, and only the main thread is in a get
FrameInv ==
    \A t \in Threads : \A i \in 1 .. Len(stack[t]) :
        stack[t][i] \in ScopeKinds /\ (stack[t][i] = "get" => t = Main)

\* every borrow is counted in the slot of its thread
SlotInv == \A b \in Held : borrow[b].slot = OwnSlot(borrow[b].thread, borrow[b].slot[1])

\* a counter that no panic can have disturbed
Trusted(s) == ~Panicked \/ (s[1] \in Columns /\ ~Panicking(s[2]))
Counts(s) ==
    \/ (\A b \in On(s) : borrow[b].mode = "read") /\ count[s] = Cardinality(On(s))
    \/ count[s] = -1 /\ \E w \in On(s) : On(s) = {w} /\ borrow[w].mode = "write"
CountInv == \A s \in Slots : Trusted(s) => Counts(s)

LockInv == FrameInv /\ SlotInv /\ CountInv /\ NoAliasing

\* What a step can do to the counters and the borrows.
Took(t, b, s, mode) ==
    /\ ~Panicking(t) /\ s = OwnSlot(t, s[1])
    /\ borrow[b] = Free /\ ~BeginFails(count[s], mode)
    /\ Begin(s, mode)
    /\ \E scoped \in BOOLEAN : Take(b, t, s, mode, scoped)
    /\ status' = status
Clashed(t, s) ==
    /\ s = OwnSlot(t, s[1])
    /\ \E mode \in Modes : Begin(s, mode)
    /\ borrow' = borrow /\ status' = [status EXCEPT ![t] = "unwind"]
Gave(b) == End(borrow[b].slot, borrow[b].mode) /\ Drop(b) /\ status' = status
Lost(b) == Panicking(borrow[b].thread) /\ count' = count /\ Drop(b) /\ status' = status
Still ==
    /\ count' = count /\ borrow' = borrow
    /\ \A t \in Threads : Panicking(t) => status'[t] \in {"unwind", "ended"}
Reset ==
    /\ Held = {} /\ borrow' = borrow /\ status' = status
    /\ \A s \in Slots : count'[s] \in {0, count[s]}

Effect ==
    \/ \E t \in Threads, b \in Borrows, s \in Slots, mode \in Modes : Took(t, b, s, mode)
    \/ \E t \in Threads, s \in Slots : Clashed(t, s)
    \/ \E b \in Held : Gave(b)
    \/ \E b \in Held : Lost(b)
    \/ Still
    \/ Reset

LEMMA AcquireEffect ==
    ASSUME NEW t \in Threads, NEW b \in Borrows, NEW s \in Slots, NEW mode \in Modes,
           NEW scoped \in BOOLEAN, ~Panicking(t), s = OwnSlot(t, s[1]),
           Acquire(t, b, s, mode, scoped)
    PROVE  Effect
<1>1. CASE BeginFails(count[s], mode)
  <2>1. Begin(s, mode) /\ borrow' = borrow /\ status' = [status EXCEPT ![t] = "unwind"]
    BY <1>1 DEF Acquire, Become
  <2>2. Clashed(t, s)
    BY <2>1, Zenon DEF Clashed
  <2> QED
    BY <2>2, Zenon DEF Effect
<1>2. CASE ~BeginFails(count[s], mode)
  <2>1. /\ borrow[b] = Free /\ Begin(s, mode) /\ Take(b, t, s, mode, scoped)
        /\ status' = status
    BY <1>2 DEF Acquire
  <2>2. Took(t, b, s, mode)
    BY <1>2, <2>1, Zenon DEF Took
  <2> QED
    BY <2>2, Zenon DEF Effect
<1> QED
  BY <1>1, <1>2

LEMMA OwnSlotOwn ==
    ASSUME NEW t \in Threads, NEW x \in Targets
    PROVE  /\ OwnSlot(t, x) \in Slots
           /\ OwnSlot(t, x)[1] = x
           /\ OwnSlot(t, x) = OwnSlot(t, OwnSlot(t, x)[1])
           /\ t = Main => GetSlot(t, x) = OwnSlot(t, x)
  BY DEF OwnSlot, GetSlot

LEMMA StepEffect ==
    ASSUME TypeInv, FrameInv, Disciplined, [Next]_vars
    PROVE  Effect
<1> USE DEF Panicking
<1>1. ASSUME NEW t \in Threads, NEW b \in Borrows, NEW x \in Targets, NEW mode \in Modes,
             OpenGuard(t, b, x, mode)
      PROVE  Effect
  <2> DEFINE s == OwnSlot(t, x)
  <2>1. s \in Slots /\ s = OwnSlot(t, s[1])
    BY OwnSlotOwn
  <2>2. Acquire(t, b, s, mode, FALSE) /\ ~Panicking(t)
    BY <1>1 DEF OpenGuard, Runs
  <2> HIDE DEF s
  <2> QED
    BY <2>1, <2>2, AcquireEffect
<1>2. ASSUME NEW t \in Threads, NEW b \in Borrows, NEW x \in Columns, NEW mode \in Modes,
             TryGuard(t, b, x, mode)
      PROVE  Effect
  <2> DEFINE s == OwnSlot(t, x)
  <2>1. s \in Slots /\ s = OwnSlot(t, s[1])
    BY OwnSlotOwn
  <2>2. /\ ~Panicking(t) /\ borrow[b] = Free /\ ~BeginFails(count[s], mode)
        /\ Begin(s, mode) /\ Take(b, t, s, mode, FALSE) /\ status' = status
    BY <1>2 DEF TryGuard, Runs
  <2> HIDE DEF s
  <2>3. Took(t, b, s, mode)
    BY <2>1, <2>2, Zenon DEF Took
  <2> QED
    BY <2>1, <2>3, Zenon DEF Effect
<1>3. ASSUME NEW t \in Threads, NEW b \in Borrows, NEW x \in Targets, NEW mode \in Modes,
             AcquireTerm(t, b, x, mode)
      PROVE  Effect
  <2>1. Top(t) = "get" => t = Main
    <3>1. Depth(t) \in 1 .. Len(stack[t])
      BY <1>3, LenProperties DEF AcquireTerm, TypeInv, Types, ScopeInv, InScope, Depth
    <3> QED
      BY <3>1 DEF FrameInv, Top
  <2> DEFINE s == IF Top(t) = "get" THEN GetSlot(t, x) ELSE OwnSlot(t, x)
  <2>2. s \in Slots /\ s = OwnSlot(t, s[1])
    <3>1. s = OwnSlot(t, x)
      BY <2>1, OwnSlotOwn
    <3> HIDE DEF s
    <3> QED
      BY <3>1, OwnSlotOwn
  <2>3. Acquire(t, b, s, mode, TRUE) /\ ~Panicking(t)
    BY <1>3 DEF AcquireTerm
  <2> HIDE DEF s
  <2> QED
    BY <2>2, <2>3, AcquireEffect
<1>4. ASSUME NEW t \in Threads, NEW b \in Borrows, DropGuard(t, b)
      PROVE  Effect
  <2>1. b \in Held /\ Gave(b)
    BY <1>4 DEF DropGuard, HeldBy, Gave
  <2> QED
    BY <2>1, Zenon DEF Effect
<1>5. ASSUME NEW t \in Threads, NEW b \in Borrows, ReleaseTerm(t, b)
      PROVE  Effect
  <2>1. b \in Held /\ Gave(b)
    BY <1>5 DEF ReleaseTerm, Terms, HeldBy, Gave
  <2> QED
    BY <2>1, Zenon DEF Effect
<1>6. ASSUME NEW t \in Threads, NEW b \in Borrows, UnwindBorrow(t, b)
      PROVE  Effect
  <2>1. /\ b \in Held /\ borrow[b].thread = t /\ Panicking(t)
        /\ Drop(b) /\ status' = status
    BY <1>6 DEF UnwindBorrow, Guards, Terms, HeldBy
  <2>2. CASE borrow[b].scoped
    <3>1. Lost(b)
      BY <1>6, <2>1, <2>2 DEF UnwindBorrow, Lost
    <3> QED
      BY <2>1, <3>1, Zenon DEF Effect
  <2>3. CASE ~borrow[b].scoped
    <3>1. Gave(b)
      BY <1>6, <2>1, <2>3 DEF UnwindBorrow, Gave
    <3> QED
      BY <2>1, <3>1, Zenon DEF Effect
  <2> QED
    BY <2>2, <2>3
<1>7. ASSUME NEW t \in Threads, UNCHANGED <<count, borrow>>,
             ~Panicking(t),
             \E st \in {"run", "acquire", "release", "unwind"} :
                 status' = [status EXCEPT ![t] = st]
      PROVE  Effect
  <2>1. Still
    BY <1>7 DEF Still, TypeInv, Types
  <2> QED
    BY <2>1 DEF Effect
<1>8. ASSUME NEW t \in Threads, NEW kind \in ScopeKinds, BeginScope(t, kind)
      PROVE  Effect
  BY <1>7, <1>8 DEF BeginScope, Runs, Become
<1>9. ASSUME NEW t \in Threads, EnterCallback(t)
      PROVE  Effect
  BY <1>7, <1>9 DEF EnterCallback, Become
<1>10. ASSUME NEW t \in Threads, LeaveCallback(t)
       PROVE  Effect
  BY <1>7, <1>10 DEF LeaveCallback, Runs, Become
<1>11. ASSUME NEW t \in Threads, FinishScope(t)
       PROVE  Effect
  BY <1>7, <1>11 DEF FinishScope, Become
<1>12. ASSUME NEW t \in Threads, UserPanic(t)
       PROVE  Effect
  BY <1>7, <1>12 DEF UserPanic, Runs, Become
<1>13. ASSUME NEW t \in Threads, UnwindFrame(t)
       PROVE  Effect
  <2>1. UNCHANGED <<count, borrow>>
    BY <1>13 DEF UnwindFrame
  <2>2. status'[t] \in {"unwind", "ended"} /\ \A u \in Threads \ {t} : status'[u] = status[u]
    <3>1. CASE Depth(t) = 0
      BY <1>13, <3>1 DEF UnwindFrame, Become, TypeInv, Types
    <3>2. CASE Depth(t) # 0
      <4>1. Top(t) # "catch"
        BY <3>2, LenProperties DEF FrameInv, TypeInv, Types, Depth, Top
      <4> QED
        BY <1>13, <3>2, <4>1 DEF UnwindFrame
    <3> QED
      BY <3>1, <3>2
  <2>3. Still
    BY <2>1, <2>2 DEF Still
  <2> QED
    BY <2>3 DEF Effect
<1>14. ASSUME NEW t \in Threads, BeginCatch(t)
       PROVE  Effect
  BY <1>14 DEF BeginCatch, Disciplined
<1>15. ASSUME UNCHANGED <<count, borrow, status>>
       PROVE  Effect
  BY <1>15 DEF Still, Effect
<1>16. ASSUME NEW t \in Threads, EndCatch(t)
       PROVE  Effect
  BY <1>15, <1>16 DEF EndCatch
<1>17. ASSUME NEW m \in BOOLEAN, SetMulti(m)
       PROVE  Effect
  BY <1>15, <1>17 DEF SetMulti
<1>18. CASE Resize
  <2>1. Reset
    BY <1>18 DEF Resize, Reset, Disciplined
  <2> QED
    BY <2>1 DEF Effect
<1>19. CASE UNCHANGED vars
  BY <1>15, <1>19 DEF vars
<1> HIDE DEF Panicking
<1> QED
  BY <1>1, <1>2, <1>3, <1>4, <1>5, <1>6, <1>8, <1>9, <1>10, <1>11, <1>12, <1>13, <1>14,
     <1>16, <1>17, <1>18, <1>19, Zenon DEF Next

LEMMA Finite == ASSUME NEW s PROVE IsFiniteSet(On(s))
  BY FS_Subset DEF On, Held

\* The slots a step does not touch keep their borrows.
LEMMA OtherSlots ==
    ASSUME NEW s \in Slots, On(s)' = On(s), count'[s] = count[s],
           \A b \in On(s) : borrow'[b] = borrow[b], Counts(s)
    PROVE  Counts(s)'
  BY DEF Counts

LEMMA TookHeld ==
    ASSUME TypeInv, NEW t \in Threads, NEW b \in Borrows, NEW s \in Slots, NEW mode \in Modes,
           Took(t, b, s, mode)
    PROVE  /\ b \notin Held /\ Held' = Held \cup {b}
           /\ \A a \in Held : borrow'[a] = borrow[a]
           /\ borrow'[b].thread = t /\ borrow'[b].slot = s /\ borrow'[b].mode = mode
           /\ On(s)' = On(s) \cup {b}
           /\ \A r \in Slots \ {s} : On(r)' = On(r) /\ count'[r] = count[r]
           /\ count'[s] = count[s] + Delta(mode)
           /\ Panicked' = Panicked /\ \A u : Panicking(u)' = Panicking(u)
<1>1. PICK scoped \in BOOLEAN : Take(b, t, s, mode, scoped)
  BY DEF Took
<1>2. borrow[b] = Free /\ Begin(s, mode) /\ status' = status
  BY DEF Took
<1> DEFINE e == [thread |-> t, slot |-> s, mode |-> mode, level |-> Depth(t), scoped |-> scoped]
<1>3. borrow' = [borrow EXCEPT ![b] = e]
  BY <1>1 DEF Take
<1>4. e.thread = t /\ e.slot = s /\ e.mode = mode /\ e # Free
  <2>1. Depth(t) \in 0 .. MaxDepth
    BY LenProperties DEF TypeInv, Types, Depth
  <2>2. e \in Borrow
    BY <2>1 DEF Borrow
  <2> QED
    BY <2>2
<1> HIDE DEF e
<1>5. /\ b \notin Held /\ Held' = Held \cup {b}
      /\ \A a \in Held : borrow'[a] = borrow[a]
      /\ borrow'[b] = e
  BY <1>2, <1>3, <1>4 DEF Held, TypeInv, Types
<1>6. /\ On(s)' = On(s) \cup {b}
      /\ \A r \in Slots \ {s} : On(r)' = On(r)
  BY <1>4, <1>5 DEF On
<1>7. /\ \A r \in Slots \ {s} : count'[r] = count[r]
      /\ count'[s] = count[s] + Delta(mode)
  BY <1>2 DEF Begin, TypeInv, Types
<1> QED
  BY <1>2, <1>4, <1>5, <1>6, <1>7 DEF Panicked, Panicking

LEMMA TookCounts ==
    ASSUME TypeInv, NEW t \in Threads, NEW b \in Borrows, NEW s \in Slots, NEW mode \in Modes,
           Took(t, b, s, mode), Counts(s)
    PROVE  /\ Counts(s)'
           /\ mode = "write" => On(s) = {}
           /\ mode = "read" => \A a \in On(s) : borrow[a].mode = "read"
<1>1. ~BeginFails(count[s], mode)
  BY DEF Took
<1>2. /\ b \notin On(s) /\ On(s)' = On(s) \cup {b} /\ borrow'[b].mode = mode
      /\ \A a \in On(s) : borrow'[a] = borrow[a]
      /\ count'[s] = count[s] + Delta(mode)
  BY TookHeld DEF On
<1>3. /\ Cardinality(On(s)) \in Nat /\ Cardinality(On(s)') = Cardinality(On(s)) + 1
      /\ Cardinality(On(s)) = 0 => On(s) = {}
  BY <1>2, Finite, FS_AddElement, FS_CardinalityType, FS_EmptySet
<1>4. count[s] \in Int
  BY DEF TypeInv, Types
<1>5. CASE mode = "read"
  <2>1. count[s] >= 0
    BY <1>1, <1>4, <1>5 DEF BeginFails
  <2>2. (\A a \in On(s) : borrow[a].mode = "read") /\ count[s] = Cardinality(On(s))
    BY <2>1 DEF Counts
  <2>3. (\A a \in On(s)' : borrow'[a].mode = "read") /\ count'[s] = Cardinality(On(s)')
    BY <1>2, <1>3, <1>5, <2>2 DEF Delta
  <2> QED
    BY <1>5, <2>2, <2>3 DEF Counts
<1>6. CASE mode = "write"
  <2>1. count[s] = 0
    BY <1>1, <1>4, <1>6 DEF BeginFails
  <2>2. On(s) = {}
    BY <1>3, <2>1 DEF Counts
  <2>3. count'[s] = -1 /\ On(s)' = {b} /\ borrow'[b].mode = "write"
    BY <1>2, <1>6, <2>1, <2>2 DEF Delta
  <2> QED
    BY <1>6, <2>2, <2>3 DEF Counts
<1> QED
  BY <1>5, <1>6

LEMMA DropHeld ==
    ASSUME TypeInv, NEW b \in Held, Drop(b), status' = status
    PROVE  /\ Held' = Held \ {b} /\ \A a \in Held' : borrow'[a] = borrow[a]
           /\ borrow[b].slot \in Slots /\ borrow[b].mode \in Modes
           /\ \A r \in Slots : On(r)' = On(r) \ {b}
           /\ Panicked' = Panicked /\ \A u : Panicking(u)' = Panicking(u)
<1>1. Held' = Held \ {b} /\ \A a \in Held' : borrow'[a] = borrow[a]
  BY DEF Drop, Held, TypeInv, Types
<1>2. borrow[b] \in Borrow
  BY DEF Held, TypeInv, Types
<1>3. borrow[b].slot \in Slots /\ borrow[b].mode \in Modes
  BY <1>2 DEF Borrow
<1>4. \A r \in Slots : On(r)' = On(r) \ {b}
  BY <1>1 DEF On
<1> QED
  BY <1>1, <1>3, <1>4 DEF Panicked, Panicking

LEMMA GaveCounts ==
    ASSUME TypeInv, NEW b \in Held, Gave(b), NEW s \in Slots, Counts(s)
    PROVE  Counts(s)'
<1>1. /\ Drop(b) /\ status' = status /\ End(borrow[b].slot, borrow[b].mode)
  BY DEF Gave
<1>2. /\ On(s)' = On(s) \ {b} /\ \A a \in On(s)' : borrow'[a] = borrow[a]
      /\ borrow[b].mode \in Modes /\ borrow[b].slot \in Slots
  BY <1>1, DropHeld DEF On
<1>3. CASE borrow[b].slot # s
  <2>1. count'[s] = count[s] /\ b \notin On(s)
    BY <1>1, <1>3 DEF End, On, TypeInv, Types
  <2>2. On(s)' = On(s)
    BY <1>2, <2>1
  <2> QED
    BY <1>2, <2>1, <2>2, OtherSlots
<1>4. CASE borrow[b].slot = s
  <2>1. b \in On(s) /\ count'[s] = count[s] - Delta(borrow[b].mode)
    BY <1>1, <1>4 DEF End, On, TypeInv, Types
  <2>2. Cardinality(On(s)') = Cardinality(On(s)) - 1 /\ Cardinality(On(s)) \in Nat
    BY <1>2, <2>1, Finite, FS_RemoveElement, FS_CardinalityType
  <2>3. CASE (\A a \in On(s) : borrow[a].mode = "read") /\ count[s] = Cardinality(On(s))
    <3>1. (\A a \in On(s)' : borrow'[a].mode = "read") /\ count'[s] = Cardinality(On(s)')
      BY <1>2, <2>1, <2>2, <2>3 DEF Delta
    <3> QED
      BY <3>1 DEF Counts
  <2>4. CASE count[s] = -1 /\ \E w \in On(s) : On(s) = {w} /\ borrow[w].mode = "write"
    <3>1. On(s) = {b} /\ borrow[b].mode = "write"
      BY <2>1, <2>4
    <3>2. On(s)' = {} /\ count'[s] = 0
      BY <1>2, <2>1, <2>4, <3>1 DEF Delta
    <3> QED
      BY <3>2, FS_EmptySet DEF Counts
  <2> QED
    BY <2>3, <2>4 DEF Counts
<1> QED
  BY <1>3, <1>4

LEMMA FrameStep ==
    ASSUME TypeInv, FrameInv, Disciplined, [Next]_vars
    PROVE  FrameInv'
<1>t. \A t \in Threads : stack[t] \in Seq(ScopeKinds \cup {"catch"}) /\ Depth(t) \in Nat
  BY LenProperties DEF TypeInv, Types, Depth
<1>0. ASSUME UNCHANGED stack
      PROVE  FrameInv'
  BY <1>0 DEF FrameInv
<1>1. ASSUME NEW t \in Threads, NEW kind \in ScopeKinds, BeginScope(t, kind)
      PROVE  FrameInv'
  <2>1. /\ stack' = [stack EXCEPT ![t] = Append(stack[t], kind)]
        /\ kind = "get" => t = Main
    BY <1>1 DEF BeginScope, Push, Disciplined
  <2>2. /\ Len(Append(stack[t], kind)) = Len(stack[t]) + 1
        /\ Append(stack[t], kind)[Len(stack[t]) + 1] = kind
        /\ \A i \in 1 .. Len(stack[t]) : Append(stack[t], kind)[i] = stack[t][i]
    BY <1>t, PushType
  <2>3. /\ stack'[t] = Append(stack[t], kind)
        /\ \A u \in Threads \ {t} : stack'[u] = stack[u]
    BY <2>1 DEF TypeInv, Types
  <2>4. \A i \in 1 .. Len(stack'[t]) :
            stack'[t][i] \in ScopeKinds /\ (stack'[t][i] = "get" => t = Main)
    <3> SUFFICES ASSUME NEW i \in 1 .. Len(stack[t]) + 1
                 PROVE  /\ Append(stack[t], kind)[i] \in ScopeKinds
                        /\ Append(stack[t], kind)[i] = "get" => t = Main
      BY <2>2, <2>3
    <3>1. CASE i = Len(stack[t]) + 1
      BY <2>1, <2>2, <3>1
    <3>2. CASE i \in 1 .. Len(stack[t])
      BY <2>2, <3>2 DEF FrameInv
    <3> QED
      BY <1>t, <3>1, <3>2 DEF Depth
  <2> QED
    BY <2>3, <2>4 DEF FrameInv
<1>2. ASSUME NEW t \in Threads, Pop(t), Depth(t) > 0
      PROVE  FrameInv'
  <2> DEFINE n == Depth(t) - 1
  <2>1. /\ n \in Nat /\ Len(stack[t]) = n + 1
        /\ stack'[t] = SubSeq(stack[t], 1, n)
        /\ \A u \in Threads \ {t} : stack'[u] = stack[u]
    BY <1>2, <1>t DEF Pop, Depth, TypeInv, Types
  <2> HIDE DEF n
  <2>2. Len(stack'[t]) = n /\ \A i \in 1 .. n : stack'[t][i] = stack[t][i]
    BY <1>t, <2>1, PopType
  <2> QED
    BY <2>1, <2>2 DEF FrameInv
<1>3. ASSUME NEW t \in Threads, FinishScope(t)
      PROVE  FrameInv'
  BY <1>2, <1>3 DEF FinishScope, TypeInv, ScopeInv, InScope
<1>4. ASSUME NEW t \in Threads, UnwindFrame(t)
      PROVE  FrameInv'
  <2>1. CASE Depth(t) = 0
    BY <1>0, <1>4, <2>1 DEF UnwindFrame
  <2>2. CASE Depth(t) # 0
    BY <1>2, <1>4, <1>t, <2>2 DEF UnwindFrame
  <2> QED
    BY <2>1, <2>2
<1>5. ASSUME NEW t \in Threads, EndCatch(t)
      PROVE  FrameInv'
  BY <1>2, <1>5 DEF EndCatch
<1>6. ASSUME NEW t \in Threads, BeginCatch(t)
      PROVE  FrameInv'
  BY <1>6 DEF BeginCatch, Disciplined
<1>7. ASSUME NEW t \in Threads, NEW b \in Borrows, NEW x \in Targets, NEW mode \in Modes,
             OpenGuard(t, b, x, mode)
      PROVE  FrameInv'
  BY <1>0, <1>7 DEF OpenGuard
<1>8. ASSUME NEW t \in Threads, NEW b \in Borrows, NEW x \in Columns, NEW mode \in Modes,
             TryGuard(t, b, x, mode)
      PROVE  FrameInv'
  BY <1>0, <1>8 DEF TryGuard
<1>9. ASSUME NEW t \in Threads, NEW b \in Borrows, NEW x \in Targets, NEW mode \in Modes,
             AcquireTerm(t, b, x, mode)
      PROVE  FrameInv'
  BY <1>0, <1>9 DEF AcquireTerm
<1>10. ASSUME NEW t \in Threads, NEW b \in Borrows, DropGuard(t, b)
      PROVE  FrameInv'
  BY <1>0, <1>10 DEF DropGuard
<1>11. ASSUME NEW t \in Threads, NEW b \in Borrows, ReleaseTerm(t, b)
      PROVE  FrameInv'
  BY <1>0, <1>11 DEF ReleaseTerm
<1>12. ASSUME NEW t \in Threads, NEW b \in Borrows, UnwindBorrow(t, b)
      PROVE  FrameInv'
  BY <1>0, <1>12 DEF UnwindBorrow
<1>13. ASSUME NEW t \in Threads, EnterCallback(t)
      PROVE  FrameInv'
  BY <1>0, <1>13 DEF EnterCallback
<1>14. ASSUME NEW t \in Threads, LeaveCallback(t)
      PROVE  FrameInv'
  BY <1>0, <1>14 DEF LeaveCallback
<1>15. ASSUME NEW t \in Threads, UserPanic(t)
      PROVE  FrameInv'
  BY <1>0, <1>15 DEF UserPanic
<1>16. ASSUME NEW m \in BOOLEAN, SetMulti(m)
      PROVE  FrameInv'
  BY <1>0, <1>16 DEF SetMulti
<1>17. ASSUME Resize
      PROVE  FrameInv'
  BY <1>0, <1>17 DEF Resize
<1>18. ASSUME UNCHANGED vars
      PROVE  FrameInv'
  BY <1>0, <1>18 DEF vars
<1> QED
  BY <1>1, <1>3, <1>4, <1>5, <1>6, <1>7, <1>8, <1>9, <1>10, <1>11, <1>12,
     <1>13, <1>14, <1>15, <1>16, <1>17, <1>18, Zenon DEF Next

\* Two borrows of one component value are counted in the same slot.
LEMMA SameSlot ==
    ASSUME SlotInv, Disciplined, NEW a \in Held, NEW b \in Held, Overlap(a, b)
    PROVE  borrow[a].slot = borrow[b].slot /\ borrow[a].thread = borrow[b].thread
  BY DEF SlotInv, Disciplined, Overlap

LEMMA TookStep ==
    ASSUME TypeInv, SlotInv, CountInv, NoAliasing, Disciplined,
           NEW t \in Threads, NEW b \in Borrows, NEW s \in Slots, NEW mode \in Modes,
           Took(t, b, s, mode)
    PROVE  SlotInv' /\ CountInv' /\ NoAliasing'
<1>1. /\ b \notin Held /\ Held' = Held \cup {b}
      /\ \A a \in Held : borrow'[a] = borrow[a]
      /\ borrow'[b].thread = t /\ borrow'[b].slot = s /\ borrow'[b].mode = mode
      /\ \A r \in Slots \ {s} : On(r)' = On(r) /\ count'[r] = count[r]
      /\ Panicked' = Panicked /\ \A u : Panicking(u)' = Panicking(u)
  BY TookHeld
<1>2. ~Panicking(t) /\ s = OwnSlot(t, s[1])
  BY DEF Took
<1>3. SlotInv'
  BY <1>1, <1>2 DEF SlotInv
<1>4. CountInv'
  <2> SUFFICES ASSUME NEW r \in Slots, Trusted(r)' PROVE Counts(r)'
    BY DEF CountInv
  <2>1. Counts(r)
    BY <1>1 DEF CountInv, Trusted
  <2>2. CASE r = s
    BY <2>1, <2>2, TookCounts
  <2>3. CASE r # s
    <3>1. \A a \in On(r) : borrow'[a] = borrow[a]
      BY <1>1 DEF On
    <3> QED
      BY <1>1, <2>1, <2>3, <3>1, OtherSlots
  <2> QED
    BY <2>2, <2>3
<1>5. ASSUME NEW a \in Held, borrow[a].thread = t, borrow[a].slot[1] = s[1]
      PROVE  \/ borrow[a].mode = "read" /\ mode = "read"
             \/ s[1] \in Sparse /\ \E u \in Threads \ {t} : Panicking(u)
  <2>1. a \in On(s)
    BY <1>2, <1>5 DEF SlotInv, On
  <2>2. CASE Trusted(s)
    BY <2>1, <2>2, TookCounts DEF CountInv
  <2>3. CASE ~Trusted(s)
    <3>1. PICK u \in Threads : Panicking(u)
      BY <2>3 DEF Trusted, Panicked
    <3>2. s[1] \in Sparse
      BY <1>2, <2>3 DEF Trusted, OwnSlot
    <3> QED
      BY <1>2, <3>1, <3>2
  <2> QED
    BY <2>2, <2>3
<1>6. NoAliasing'
  <2> SUFFICES ASSUME NEW c \in Held', NEW d \in Held', c # d, Overlap(c, d)'
               PROVE  \/ borrow'[c].mode = "read" /\ borrow'[d].mode = "read"
                      \/ /\ borrow'[c].slot[1] \in Sparse
                         /\ \E u \in Threads \ {borrow'[c].thread} : Panicking(u)'
    BY DEF NoAliasing
  <2>1. borrow'[c].slot[1] = borrow'[d].slot[1] /\ borrow'[c].thread = borrow'[d].thread
    BY DEF Overlap, Disciplined
  <2>2. CASE c = b
    BY <1>1, <1>5, <2>1, <2>2
  <2>3. CASE d = b
    BY <1>1, <1>5, <2>1, <2>3
  <2>4. CASE c \in Held /\ d \in Held
    <3>1. borrow'[c] = borrow[c] /\ borrow'[d] = borrow[d]
      BY <1>1, <2>4
    <3>2. Overlap(c, d)
      BY <2>1, <3>1 DEF Overlap
    <3>3. \/ borrow[c].mode = "read" /\ borrow[d].mode = "read"
          \/ /\ borrow[c].slot[1] \in Sparse
             /\ \E u \in Threads \ {borrow[c].thread} : Panicking(u)
      BY <2>4, <3>2 DEF NoAliasing
    <3> QED
      BY <1>1, <3>1, <3>3
  <2> QED
    BY <1>1, <2>2, <2>3, <2>4
<1> QED
  BY <1>3, <1>4, <1>6

\* Fewer borrows and more panics can only make aliasing rarer.
LEMMA FewerBorrows ==
    ASSUME NoAliasing, Held' \subseteq Held, \A a \in Held' : borrow'[a] = borrow[a],
           \A t \in Threads : Panicking(t) => Panicking(t)'
    PROVE  NoAliasing'
<1> SUFFICES ASSUME NEW c \in Held', NEW d \in Held', c # d, Overlap(c, d)'
             PROVE  \/ borrow'[c].mode = "read" /\ borrow'[d].mode = "read"
                    \/ /\ borrow'[c].slot[1] \in Sparse
                       /\ \E u \in Threads \ {borrow'[c].thread} : Panicking(u)'
  BY DEF NoAliasing
<1>1. c \in Held /\ d \in Held /\ borrow'[c] = borrow[c] /\ borrow'[d] = borrow[d]
  OBVIOUS
<1>2. Overlap(c, d)
  BY <1>1 DEF Overlap
<1>3. \/ borrow[c].mode = "read" /\ borrow[d].mode = "read"
      \/ /\ borrow[c].slot[1] \in Sparse
         /\ \E u \in Threads \ {borrow[c].thread} : Panicking(u)
  BY <1>1, <1>2 DEF NoAliasing
<1> QED
  BY <1>1, <1>3

LEMMA LockInit == Init => LockInv
<1> SUFFICES ASSUME Init PROVE LockInv
  OBVIOUS
<1>1. Held = {} /\ \A s : On(s) = {}
  BY DEF Init, Held, On
<1>2. \A t \in Threads : 1 .. Len(stack[t]) = {}
  <2>1. Len(<< >>) = 0
    BY EmptySeq
  <2> QED
    BY <2>1 DEF Init
<1>3. \A s \in Slots : Counts(s)
  BY <1>1, FS_EmptySet DEF Init, Counts
<1> QED
  BY <1>1, <1>2, <1>3 DEF LockInv, FrameInv, SlotInv, CountInv, NoAliasing

LEMMA LockStep ==
    ASSUME TypeInv, LockInv, Disciplined, [Next]_vars
    PROVE  LockInv'
<1>1. FrameInv'
  BY FrameStep DEF LockInv
<1>2. Effect
  BY StepEffect DEF LockInv
<1>3. ASSUME NEW t \in Threads, NEW b \in Borrows, NEW s \in Slots, NEW mode \in Modes,
             Took(t, b, s, mode)
      PROVE  SlotInv' /\ CountInv' /\ NoAliasing'
  BY <1>3, TookStep DEF LockInv
<1>4. ASSUME NEW t \in Threads, NEW s \in Slots, Clashed(t, s)
      PROVE  SlotInv' /\ CountInv' /\ NoAliasing'
  <2>1. /\ s = OwnSlot(t, s[1]) /\ borrow' = borrow
        /\ status' = [status EXCEPT ![t] = "unwind"]
        /\ \A r \in Slots \ {s} : count'[r] = count[r]
    BY <1>4 DEF Clashed, Begin, TypeInv, Types
  <2>2. /\ Held' = Held /\ \A r : On(r)' = On(r)
        /\ \A u \in Threads : Panicking(u) => Panicking(u)'
        /\ Panicking(t)' /\ Panicked'
    BY <2>1 DEF Held, On, Panicking, Panicked, TypeInv, Types
  <2>3. CountInv'
    <3> SUFFICES ASSUME NEW r \in Slots, Trusted(r)' PROVE Counts(r)'
      BY DEF CountInv
    <3>1. r[1] \in Columns /\ r[2] # t /\ Trusted(r) /\ r[2] \in Threads
      BY <2>2 DEF Trusted
    <3>2. r # s
      BY <2>1, <3>1 DEF OwnSlot
    <3>3. Counts(r)
      BY <3>1 DEF LockInv, CountInv
    <3> QED
      BY <2>1, <2>2, <3>2, <3>3, OtherSlots
  <2> QED
    BY <2>1, <2>2, <2>3, FewerBorrows DEF LockInv, SlotInv
<1>5. ASSUME NEW b \in Held, Drop(b), status' = status,
             \A s \in Slots : Trusted(s) => Counts(s)'
      PROVE  SlotInv' /\ CountInv' /\ NoAliasing'
  <2>1. /\ Held' = Held \ {b} /\ \A a \in Held' : borrow'[a] = borrow[a]
        /\ Panicked' = Panicked /\ \A u : Panicking(u)' = Panicking(u)
    BY <1>5, DropHeld
  <2>2. SlotInv'
    BY <2>1 DEF LockInv, SlotInv
  <2>3. CountInv'
    BY <1>5, <2>1 DEF CountInv, Trusted
  <2>4. NoAliasing'
    BY <2>1, FewerBorrows DEF LockInv
  <2> QED
    BY <2>2, <2>3, <2>4
<1>6. ASSUME NEW b \in Held, Gave(b)
      PROVE  SlotInv' /\ CountInv' /\ NoAliasing'
  <2>1. \A s \in Slots : Trusted(s) => Counts(s)'
    BY <1>6, GaveCounts DEF LockInv, CountInv
  <2> QED
    BY <1>5, <1>6, <2>1 DEF Gave
<1>7. ASSUME NEW b \in Held, Lost(b)
      PROVE  SlotInv' /\ CountInv' /\ NoAliasing'
  <2>1. /\ Drop(b) /\ status' = status /\ count' = count
        /\ Panicking(borrow[b].thread) /\ borrow[b].thread \in Threads
    BY <1>7 DEF Lost, Held, TypeInv, Types, Borrow
  <2>2. ASSUME NEW s \in Slots, Trusted(s) PROVE Counts(s)'
    <3>1. b \notin On(s)
      <4>1. s[1] \in Columns /\ s[2] # borrow[b].thread
        BY <2>1, <2>2 DEF Trusted, Panicked
      <4> QED
        BY <4>1 DEF LockInv, SlotInv, OwnSlot, On
    <3>2. On(s)' = On(s) /\ \A a \in On(s) : borrow'[a] = borrow[a]
      BY <2>1, <3>1, DropHeld DEF On
    <3>3. Counts(s)
      BY <2>2 DEF LockInv, CountInv
    <3> QED
      BY <2>1, <3>2, <3>3, OtherSlots
  <2> QED
    BY <1>5, <2>1, <2>2
<1>8. ASSUME Still
      PROVE  SlotInv' /\ CountInv' /\ NoAliasing'
  <2>1. /\ count' = count /\ borrow' = borrow
        /\ \A u \in Threads : Panicking(u) => Panicking(u)'
    BY <1>8 DEF Still, Panicking
  <2>2. Held' = Held /\ \A r : On(r)' = On(r)
    BY <2>1 DEF Held, On
  <2>3. ASSUME NEW r \in Slots, Trusted(r)' PROVE Counts(r)'
    <3>1. Trusted(r) /\ r[2] \in Threads
      BY <2>1, <2>3 DEF Trusted, Panicked
    <3> QED
      BY <2>1, <2>2, <3>1, OtherSlots DEF LockInv, CountInv
  <2> QED
    BY <2>1, <2>2, <2>3, FewerBorrows DEF LockInv, SlotInv, CountInv
<1>9. ASSUME Reset
      PROVE  SlotInv' /\ CountInv' /\ NoAliasing'
  <2>1. /\ Held' = {} /\ Held = {} /\ status' = status
        /\ \A s \in Slots : count'[s] \in {0, count[s]}
    BY <1>9 DEF Reset, Held
  <2>2. ASSUME NEW r \in Slots, Trusted(r)' PROVE Counts(r)'
    <3>1. Trusted(r)
      BY <2>1, <2>2 DEF Trusted, Panicked, Panicking
    <3>2. Counts(r) /\ On(r) = {} /\ On(r)' = {}
      BY <2>1, <3>1 DEF LockInv, CountInv, On
    <3>3. count'[r] = 0
      BY <2>1, <3>2, FS_EmptySet DEF Counts
    <3> QED
      BY <3>2, <3>3, FS_EmptySet DEF Counts
  <2> QED
    BY <2>1, <2>2 DEF SlotInv, CountInv, NoAliasing
<1> QED
  BY <1>1, <1>2, <1>3, <1>4, <1>6, <1>7, <1>8, <1>9, Zenon DEF Effect, LockInv

LEMMA LocksHold == ASSUME Disciplined PROVE Spec => [](TypeInv /\ LockInv)
<1>1. Init => TypeInv /\ LockInv
  BY TypeInit, LockInit
<1>2. (TypeInv /\ LockInv) /\ [Next]_vars => (TypeInv /\ LockInv)'
  BY TypeStep, LockStep
<1> QED
  BY <1>1, <1>2, PTL DEF Spec

\* Under the discipline the locks keep every component value free of a
\* mutable reference beside another reference, whatever mix of guards and
\* scopes the threads use.
THEOREM LocksExcludeAliasing ==
    ASSUME ~GetInWorkers, ~WideAccess, ~CatchInside, ~ResizeHeld
    PROVE  Spec => []NoAliasing
<1>1. Spec => [](TypeInv /\ LockInv)
  BY LocksHold DEF Disciplined
<1>2. TypeInv /\ LockInv => NoAliasing
  BY DEF LockInv
<1> QED
  BY <1>1, <1>2, PTL

\* Under the discipline a counter is exactly its readers, or -1 for its one
\* writer, until the first panic.
THEOREM CountsAreExact ==
    ASSUME ~GetInWorkers, ~WideAccess, ~CatchInside, ~ResizeHeld
    PROVE  Spec => []CountsMatchBorrows
<1>1. Spec => [](TypeInv /\ LockInv)
  BY LocksHold DEF Disciplined
<1>2. TypeInv /\ LockInv => CountsMatchBorrows
  <2> SUFFICES ASSUME LockInv, ~Panicked, NEW s \in Slots PROVE Counts(s)
    BY DEF CountsMatchBorrows, Counts
  <2> QED
    BY DEF LockInv, CountInv, Trusted
<1> QED
  BY <1>1, <1>2, PTL

(***************************************************************************)
(* Drift                                                                   *)
(***************************************************************************)
Reading(s) == {b \in On(s) : borrow[b].mode = "read"}
Writing(s) == {b \in On(s) : borrow[b].mode = "write"}

LEMMA DriftIs ==
    ASSUME NEW s
    PROVE  /\ Drift(s) = count[s] - Cardinality(Reading(s)) + Cardinality(Writing(s))
           /\ IsFiniteSet(Reading(s)) /\ IsFiniteSet(Writing(s))
           /\ Cardinality(Reading(s)) \in Nat /\ Cardinality(Writing(s)) \in Nat
           /\ Drift(s)' = count'[s] - Cardinality(Reading(s)') + Cardinality(Writing(s)')
<1>1. IsFiniteSet(Reading(s)) /\ IsFiniteSet(Writing(s))
  BY Finite, FS_Subset DEF Reading, Writing
<1>2. Drift(s) = count[s] - Cardinality(Reading(s)) + Cardinality(Writing(s))
  BY DEF Drift, Reading, Writing
<1>3. Drift(s)' = count'[s] - Cardinality(Reading(s)') + Cardinality(Writing(s)')
  BY DEF Drift, Reading, Writing
<1> QED
  BY <1>1, <1>2, <1>3, FS_CardinalityType

\* A reference more or less together with its change of the counter.
LEMMA DriftMore ==
    ASSUME NEW s, NEW b, count[s] \in Int, count'[s] \in Int,
           \/ /\ b \notin Reading(s) /\ Reading(s)' = Reading(s) \cup {b}
              /\ Writing(s)' = Writing(s) /\ count'[s] = count[s] + 1
           \/ /\ b \notin Writing(s) /\ Writing(s)' = Writing(s) \cup {b}
              /\ Reading(s)' = Reading(s) /\ count'[s] = count[s] - 1
    PROVE  Drift(s)' = Drift(s)
<1>1. \A S : IsFiniteSet(S) /\ b \notin S => Cardinality(S \cup {b}) = Cardinality(S) + 1
  BY FS_AddElement
<1> QED
  BY <1>1, DriftIs

LEMMA DriftLess ==
    ASSUME NEW s, NEW b, count[s] \in Int, count'[s] \in Int,
           \/ /\ b \in Reading(s) /\ Reading(s)' = Reading(s) \ {b}
              /\ Writing(s)' = Writing(s) /\ count'[s] = count[s] - 1
           \/ /\ b \in Writing(s) /\ Writing(s)' = Writing(s) \ {b}
              /\ Reading(s)' = Reading(s) /\ count'[s] = count[s] + 1
    PROVE  Drift(s)' = Drift(s)
<1>1. \A S : IsFiniteSet(S) /\ b \in S => Cardinality(S \ {b}) = Cardinality(S) - 1
  BY FS_RemoveElement
<1> QED
  BY <1>1, DriftIs

LEMMA DriftTaken ==
    ASSUME TypeInv, NEW t \in Threads, NEW b \in Borrows, NEW s \in Slots, NEW mode \in Modes,
           NEW scoped \in BOOLEAN, borrow[b] = Free, Begin(s, mode), Take(b, t, s, mode, scoped),
           NEW r \in Slots
    PROVE  Drift(r)' = Drift(r)
<1> DEFINE e == [thread |-> t, slot |-> s, mode |-> mode, level |-> Depth(t), scoped |-> scoped]
<1>1. borrow' = [borrow EXCEPT ![b] = e]
  BY DEF Take
<1>2. e.slot = s /\ e.mode = mode /\ e # Free
  <2>1. Depth(t) \in 0 .. MaxDepth
    BY LenProperties DEF TypeInv, Types, Depth
  <2>2. e \in Borrow
    BY <2>1 DEF Borrow
  <2> QED
    BY <2>2
<1> HIDE DEF e
<1>3. /\ b \notin Held /\ Held' = Held \cup {b}
      /\ \A a \in Held : borrow'[a] = borrow[a]
      /\ borrow'[b] = e
  BY <1>1, <1>2 DEF Held, TypeInv, Types
<1>4. /\ count[r] \in Int /\ count'[r] \in Int
      /\ count'[r] = IF r = s THEN count[r] + Delta(mode) ELSE count[r]
  BY DEF Begin, Delta, TypeInv, Types
<1>5. CASE r # s
  <2>1. Reading(r)' = Reading(r) /\ Writing(r)' = Writing(r)
    BY <1>2, <1>3, <1>5 DEF Reading, Writing, On
  <2> QED
    BY <1>4, <1>5, <2>1, DriftIs
<1>6. CASE r = s /\ mode = "read"
  <2>1. /\ b \notin Reading(r) /\ Reading(r)' = Reading(r) \cup {b} /\ Writing(r)' = Writing(r)
    BY <1>2, <1>3, <1>6 DEF Reading, Writing, On
  <2> QED
    BY <1>4, <1>6, <2>1, DriftMore DEF Delta
<1>7. CASE r = s /\ mode = "write"
  <2>1. /\ b \notin Writing(r) /\ Writing(r)' = Writing(r) \cup {b} /\ Reading(r)' = Reading(r)
    BY <1>2, <1>3, <1>7 DEF Reading, Writing, On
  <2> QED
    BY <1>4, <1>7, <2>1, DriftMore DEF Delta
<1> QED
  BY <1>5, <1>6, <1>7

LEMMA DriftGiven ==
    ASSUME TypeInv, NEW b \in Held, End(borrow[b].slot, borrow[b].mode), Drop(b),
           NEW r \in Slots
    PROVE  Drift(r)' = Drift(r)
<1>1. Held' = Held \ {b} /\ \A a \in Held' : borrow'[a] = borrow[a]
  BY DEF Drop, Held, TypeInv, Types
<1>2. borrow[b].slot \in Slots /\ borrow[b].mode \in Modes
  BY DEF Held, TypeInv, Types, Borrow
<1>3. /\ count[r] \in Int /\ count'[r] \in Int
      /\ count'[r] = IF r = borrow[b].slot THEN count[r] - Delta(borrow[b].mode) ELSE count[r]
  BY <1>2 DEF End, Delta, TypeInv, Types
<1>4. CASE borrow[b].slot # r
  <2>1. Reading(r)' = Reading(r) /\ Writing(r)' = Writing(r)
    BY <1>1, <1>4 DEF Reading, Writing, On
  <2> QED
    BY <1>3, <1>4, <2>1, DriftIs
<1>5. CASE borrow[b].slot = r /\ borrow[b].mode = "read"
  <2>1. b \in Reading(r) /\ Reading(r)' = Reading(r) \ {b} /\ Writing(r)' = Writing(r)
    BY <1>1, <1>5 DEF Reading, Writing, On
  <2> QED
    BY <1>3, <1>5, <2>1, DriftLess DEF Delta
<1>6. CASE borrow[b].slot = r /\ borrow[b].mode = "write"
  <2>1. b \in Writing(r) /\ Writing(r)' = Writing(r) \ {b} /\ Reading(r)' = Reading(r)
    BY <1>1, <1>6 DEF Reading, Writing, On
  <2> QED
    BY <1>3, <1>6, <2>1, DriftLess DEF Delta
<1> QED
  BY <1>2, <1>4, <1>5, <1>6

LEMMA DriftKept ==
    ASSUME UNCHANGED <<count, borrow>>, NEW r \in Slots
    PROVE  Drift(r)' = Drift(r)
  BY DEF Drift, On, Held

\* What a step may do to the drift of a counter.
DriftAllowed == \A s \in Slots : Drift(s)' \in {Drift(s), 0} \/ Conflict \/ ScopeUnwound

LEMMA AcquireDrift ==
    ASSUME TypeInv, NEW t \in Threads, NEW b \in Borrows, NEW s \in Slots, NEW mode \in Modes,
           NEW scoped \in BOOLEAN, status[t] # "unwind", Acquire(t, b, s, mode, scoped)
    PROVE  DriftAllowed
<1>1. CASE BeginFails(count[s], mode)
  <2>1. status' = [status EXCEPT ![t] = "unwind"]
    BY <1>1 DEF Acquire, Become
  <2>2. Conflict
    BY <2>1 DEF Conflict, TypeInv, Types
  <2> QED
    BY <2>2 DEF DriftAllowed
<1>2. CASE ~BeginFails(count[s], mode)
  <2>1. borrow[b] = Free /\ Begin(s, mode) /\ Take(b, t, s, mode, scoped)
    BY <1>2 DEF Acquire
  <2> QED
    BY <2>1, DriftTaken DEF DriftAllowed
<1> QED
  BY <1>1, <1>2

LEMMA DriftStep ==
    ASSUME TypeInv, ~ResizeHeld, [Next]_vars
    PROVE  DriftAllowed
<1>1. ASSUME NEW t \in Threads, NEW b \in Borrows, NEW x \in Targets, NEW mode \in Modes,
             OpenGuard(t, b, x, mode)
      PROVE  DriftAllowed
  <2> DEFINE s == OwnSlot(t, x)
  <2>1. TypeInv /\ status[t] # "unwind" /\ Acquire(t, b, s, mode, FALSE) /\ FALSE \in BOOLEAN
    BY <1>1 DEF OpenGuard, Runs
  <2>2. s \in Slots
    BY SlotType
  <2>3. t \in Threads /\ b \in Borrows /\ mode \in Modes
    OBVIOUS
  <2> HIDE DEF s
  <2> QED
    BY ONLY <2>1, <2>2, <2>3, AcquireDrift
<1>2. ASSUME NEW t \in Threads, NEW b \in Borrows, NEW x \in Columns, NEW mode \in Modes,
             TryGuard(t, b, x, mode)
      PROVE  DriftAllowed
  <2>1. /\ borrow[b] = Free /\ Begin(OwnSlot(t, x), mode)
        /\ Take(b, t, OwnSlot(t, x), mode, FALSE)
    BY <1>2 DEF TryGuard
  <2>2. OwnSlot(t, x) \in Slots
    BY SlotType
  <2> QED
    BY <2>1, <2>2, DriftTaken DEF DriftAllowed
<1>3. ASSUME NEW t \in Threads, NEW b \in Borrows, NEW x \in Targets, NEW mode \in Modes,
             AcquireTerm(t, b, x, mode)
      PROVE  DriftAllowed
  <2> DEFINE s == IF Top(t) = "get" THEN GetSlot(t, x) ELSE OwnSlot(t, x)
  <2>1. TypeInv /\ status[t] # "unwind" /\ Acquire(t, b, s, mode, TRUE) /\ TRUE \in BOOLEAN
    BY <1>3 DEF AcquireTerm
  <2>2. s \in Slots
    BY SlotType
  <2>3. t \in Threads /\ b \in Borrows /\ mode \in Modes
    OBVIOUS
  <2> HIDE DEF s
  <2> QED
    BY ONLY <2>1, <2>2, <2>3, AcquireDrift
<1>4. ASSUME NEW b \in Held, End(borrow[b].slot, borrow[b].mode), Drop(b)
      PROVE  DriftAllowed
  BY <1>4, DriftGiven DEF DriftAllowed
<1>5. ASSUME UNCHANGED <<count, borrow>>
      PROVE  DriftAllowed
  BY <1>5, DriftKept DEF DriftAllowed
<1>6. ASSUME NEW t \in Threads, NEW b \in Borrows, UnwindBorrow(t, b)
      PROVE  DriftAllowed
  <2>1. status[t] = "unwind" /\ b \in Held /\ Drop(b)
    BY <1>6 DEF UnwindBorrow, Guards, Terms, HeldBy
  <2>2. CASE b \in Terms(t)
    <3>1. borrow'[b] = Free
      BY <2>1 DEF Drop, Held, TypeInv, Types
    <3> QED
      BY <2>1, <2>2, <3>1 DEF DriftAllowed, ScopeUnwound
  <2>3. CASE b \notin Terms(t)
    <3>1. End(borrow[b].slot, borrow[b].mode)
      BY <1>6, <2>3 DEF UnwindBorrow, Guards, HeldBy
    <3> QED
      BY <1>4, <2>1, <3>1
  <2> QED
    BY <2>2, <2>3
<1>7. ASSUME Resize
      PROVE  DriftAllowed
  <2>1. Held = {} /\ borrow' = borrow
    BY <1>7 DEF Resize
  <2>2. \A r \in Slots : count'[r] = IF r[1] \in Columns THEN 0 ELSE count[r]
    BY <1>7 DEF Resize
  <2>3. \A r \in Slots : count[r] \in Int
    BY DEF TypeInv, Types
  <2>4. ASSUME NEW r \in Slots
        PROVE  Drift(r)' \in {Drift(r), 0}
    <3>1. /\ Reading(r) = {} /\ Writing(r) = {} /\ Reading(r)' = {} /\ Writing(r)' = {}
      BY <2>1 DEF Reading, Writing, On, Held
    <3>2. Drift(r) = count[r] /\ Drift(r)' = count'[r]
      <4>1. count'[r] \in Int /\ count[r] \in Int
        BY <2>2, <2>3
      <4>2. Drift(r) = count[r] - 0 + 0 /\ Drift(r)' = count'[r] - 0 + 0
        <5>1. Cardinality({}) = 0
          BY FS_EmptySet
        <5>2. /\ Drift(r) = count[r] - Cardinality(Reading(r)) + Cardinality(Writing(r))
              /\ Drift(r)' = count'[r] - Cardinality(Reading(r)') + Cardinality(Writing(r)')
          BY DriftIs
        <5> QED
          BY <3>1, <5>1, <5>2
      <4> QED
        BY ONLY <4>1, <4>2
    <3> QED
      BY <2>2, <3>2
  <2> QED
    BY <2>4 DEF DriftAllowed
<1>8. ASSUME NEW t \in Threads, NEW b \in Borrows, DropGuard(t, b) \/ ReleaseTerm(t, b)
      PROVE  DriftAllowed
  <2>1. b \in Held /\ End(borrow[b].slot, borrow[b].mode) /\ Drop(b)
    BY <1>8 DEF DropGuard, ReleaseTerm, Terms, HeldBy
  <2> QED
    BY <1>4, <2>1
<1>9. ASSUME NEW t \in Threads,
             \/ (\E kind \in ScopeKinds : BeginScope(t, kind)) \/ EnterCallback(t) \/ LeaveCallback(t)
             \/ FinishScope(t) \/ UserPanic(t) \/ UnwindFrame(t) \/ BeginCatch(t) \/ EndCatch(t)
      PROVE  DriftAllowed
  BY <1>5, <1>9 DEF BeginScope, EnterCallback, LeaveCallback, FinishScope, UserPanic,
     UnwindFrame, BeginCatch, EndCatch
<1>10. ASSUME (\E m \in BOOLEAN : SetMulti(m)) \/ UNCHANGED vars
       PROVE  DriftAllowed
  BY <1>5, <1>10 DEF SetMulti, vars
<1> QED
  BY <1>1, <1>2, <1>3, <1>6, <1>7, <1>8, <1>9, <1>10 DEF Next

\* Whatever callbacks of workers access, and whether or not panics are caught,
\* a counter comes to disagree with its borrows only by an access that panics
\* or by the unwinding of a scope, unless stages are resized under a guard.
THEOREM OnlyPanicsDrift ==
    ASSUME ~ResizeHeld
    PROVE  Spec => DriftOnlyByPanic
<1>1. Init => TypeInv
  BY TypeInit
<1>2. TypeInv /\ [Next]_vars => TypeInv'
  BY TypeStep
<1>3. TypeInv /\ [Next]_vars => [DriftAllowed]_vars
  BY DriftStep
<1> QED
  BY <1>1, <1>2, <1>3, PTL DEF Spec, DriftOnlyByPanic, DriftAllowed
=============================================================================
