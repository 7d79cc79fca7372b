--------------------------- MODULE Workers_proofs ---------------------------
(***************************************************************************)
(* For any number of workers and operations: nothing is merged, rebuilt or *)
(* freed while a worker runs, the counters are exact when they are tested, *)
(* and the threads implement the supersteps of Barrier.                    *)
(***************************************************************************)
EXTENDS Workers, FiniteSetTheorems, TLAPS

USE ConstantsAssumption

(***************************************************************************)
(* Counting the workers that are at some places                            *)
(***************************************************************************)
Step == {"none", "start", "asleep", "woken", "run", "sync", "fini", "ended"}
Count(f, A) == Cardinality({w \in Workers : f[w] \in A})

LEMMA WorkersFinite == IsFiniteSet(Workers)
  BY FS_Interval DEF Workers

LEMMA CountNat ==
  ASSUME NEW f, NEW A
  PROVE  Count(f, A) \in Nat /\ IsFiniteSet({w \in Workers : f[w] \in A})
<1> DEFINE P == {w \in Workers : f[w] \in A}
<1>1. IsFiniteSet(P)
  BY WorkersFinite, FS_Subset
<1> QED
  BY <1>1, FS_CardinalityType DEF Count

\* Workers move within the places, or outside of them.
LEMMA CountSame ==
  ASSUME NEW f, NEW g, NEW A, \A w \in Workers : f[w] \in A <=> g[w] \in A
  PROVE  Count(f, A) = Count(g, A)
<1>1. {w \in Workers : f[w] \in A} = {w \in Workers : g[w] \in A}
  OBVIOUS
<1> QED
  BY <1>1 DEF Count

\* A worker that moves within the places, or outside of them.
LEMMA CountStays ==
  ASSUME NEW f, NEW A, NEW w \in Workers, NEW s, f \in [Workers -> Step],
         f[w] \in A <=> s \in A
  PROVE  Count([f EXCEPT ![w] = s], A) = Count(f, A)
<1> DEFINE P == {v \in Workers : f[v] \in A}
           Q == {v \in Workers : [f EXCEPT ![w] = s][v] \in A}
<1>1. P = Q
  OBVIOUS
<1> QED
  BY <1>1 DEF Count

LEMMA CountEnters ==
  ASSUME NEW f, NEW A, NEW w \in Workers, NEW s, f \in [Workers -> Step],
         f[w] \notin A, s \in A
  PROVE  Count([f EXCEPT ![w] = s], A) = Count(f, A) + 1
<1> DEFINE P == {v \in Workers : f[v] \in A}
           Q == {v \in Workers : [f EXCEPT ![w] = s][v] \in A}
<1>1. IsFiniteSet(P)
  BY CountNat
<1>2. Q = P \cup {w} /\ w \notin P
  OBVIOUS
<1> HIDE DEF P, Q
<1>3. Cardinality(Q) = Cardinality(P) + 1
  BY <1>1, <1>2, FS_AddElement
<1> QED
  BY <1>3 DEF Count, P, Q

LEMMA CountLeaves ==
  ASSUME NEW f, NEW A, NEW w \in Workers, NEW s, f \in [Workers -> Step],
         f[w] \in A, s \notin A
  PROVE  Count([f EXCEPT ![w] = s], A) = Count(f, A) - 1 /\ Count(f, A) > 0
<1> DEFINE P == {v \in Workers : f[v] \in A}
           Q == {v \in Workers : [f EXCEPT ![w] = s][v] \in A}
<1>1. IsFiniteSet(P) /\ Cardinality(P) \in Nat
  BY CountNat DEF Count
<1>2. Q = P \ {w} /\ w \in P
  OBVIOUS
<1> HIDE DEF P, Q
<1>3. Cardinality(Q) = Cardinality(P) - 1
  BY <1>1, <1>2, FS_RemoveElement
<1>4. Cardinality(P) # 0
  BY <1>1, <1>2, FS_EmptySet
<1> QED
  BY <1>1, <1>3, <1>4 DEF Count, P, Q

LEMMA CountNone ==
  ASSUME NEW f, NEW A, \A w \in Workers : f[w] \notin A
  PROVE  Count(f, A) = 0
<1>1. {w \in Workers : f[w] \in A} = {}
  OBVIOUS
<1> QED
  BY <1>1, FS_EmptySet DEF Count

\* The workers 1..k are at the places, and nobody else is.
LEMMA CountAll ==
  ASSUME NEW f, NEW A, NEW k \in 0..MaxWorkers,
         \A w \in Workers : f[w] \in A <=> w \in 1..k
  PROVE  Count(f, A) = k
<1> DEFINE P == {w \in Workers : f[w] \in A}
<1>1. P = 1..k
  BY DEF Workers
<1>2. Cardinality(1..k) = k
  BY FS_Interval
<1> QED
  BY <1>1, <1>2 DEF Count

\* If as many of 1..k are there as there are, all are.
LEMMA CountFull ==
  ASSUME NEW f, NEW A, NEW k \in 0..MaxWorkers, Count(f, A) = k,
         \A w \in Workers : f[w] \in A => w \in 1..k
  PROVE  \A w \in 1..k : f[w] \in A
<1> DEFINE P == {w \in Workers : f[w] \in A}
<1>1. P \subseteq 1..k
  OBVIOUS
<1>2. IsFiniteSet(1..k) /\ Cardinality(1..k) = k
  BY FS_Interval
<1>3. Cardinality(P) = k
  BY DEF Count
<1> HIDE DEF P
<1>4. P = 1..k
  BY <1>1, <1>2, <1>3, FS_Subset
<1> QED
  BY <1>4 DEF P

(***************************************************************************)
(* The inductive invariant                                                 *)
(***************************************************************************)
\* The stages outside of the startup systems.
Size == IF savedCount > 0 THEN savedCount ELSE stageCount

\* The places of a thread between start and end.
Active == {"asleep", "woken", "run", "sync", "fini"}

\* An operation that the whole team computes.
TeamOp == InOp /\ OpThreaded /\ stageCount > 1
InRun == main \in {"update", "begin", "signal", "ops", "sync", "asleep", "woken", "merge", "end"}
InJoin == main \in {"join", "quit", "joining"}

ThreadsInv ==
  /\ thread \in {{}, 1..Size - 1}
  /\ savedCount > 0 =>
       /\ stageCount = 1
       /\ main \in {"ready", "update", "begin", "signal", "ops", "sync", "merge", "end"}
  /\ Size > 1 => cond = "live"
  /\ main = "reconfigure" => thread = {}
  /\ taskApi /\ (main \in {"idle", "create"} \/ savedCount > 0) => thread = {}
  /\ InRun \/ main = "ready" => savedCount > 0 \/ thread = 1..stageCount - 1
  /\ ~taskApi /\ main # "reconfigure" => thread = 1..Size - 1
  /\ InJoin => stageCount > 1 /\ thread = 1..stageCount - 1 /\ (after = "idle" => taskApi)

CountsInv ==
  /\ running = Count(pc, Active)
  /\ waiting = IF TeamOp THEN Count(pc, {"asleep"}) ELSE 0
  /\ main = "asleep" => TeamOp /\ waiting # stageCount - 1
  /\ main = "woken" => TeamOp /\ waiting = stageCount - 1
  /\ main = "signal" => OpThreaded

\* Where the main thread expects a thread to be.
Places ==
  IF TeamOp THEN {"asleep", "woken", "run", "sync"}
  ELSE IF main = "quit" \/ (InRun /\ stageCount > 1) THEN {"asleep"}
  ELSE IF main = "joining" THEN {"woken", "fini", "ended"}
  ELSE {"start", "asleep"}

PlacesInv ==
  /\ quit <=> main \in {"quit", "joining"}
  /\ \A w \in Workers : w \notin thread => pc[w] = "none"
  /\ \A w \in thread : pc[w] \in Places

QueuedInv ==
  /\ ~InOp /\ main # "merge" => queued = {}
  /\ InOp => queued \subseteq InTeam
  /\ main = "merge" => /\ queued \subseteq merged..stageCount - 1 /\ merged < stageCount
                       /\ immediate => queued \subseteq {0}
  /\ main # "merge" => merged = 0
  /\ immediate => merged = 0 /\ ~threaded

WInv == TypeOK /\ ThreadsInv /\ CountsInv /\ PlacesInv /\ QueuedInv

\* What the invariant says of the numbers and of the threads.
LEMMA Facts ==
  ASSUME WInv
  PROVE  /\ stageCount \in 1..MaxWorkers + 1 /\ Size \in 1..MaxWorkers + 1
         /\ thread \subseteq Workers /\ thread \subseteq 1..Size - 1
         /\ pc \in [Workers -> Step] /\ running \in Nat /\ waiting \in Nat
         /\ \A w \in Workers : pc[w] # "none" => w \in thread
<1>1. stageCount \in 1..MaxWorkers + 1 /\ Size \in 1..MaxWorkers + 1
  BY DEF WInv, TypeOK, Size
<1>2. thread \subseteq Workers /\ running \in Nat /\ waiting \in Nat
  BY DEF WInv, TypeOK
<1>3. thread \subseteq 1..Size - 1
  BY DEF WInv, ThreadsInv
<1>4. pc \in [Workers -> Step]
  BY DEF WInv, TypeOK, Step
<1>5. \A w \in Workers : pc[w] # "none" => w \in thread
  BY DEF WInv, PlacesInv
<1> QED
  BY <1>1, <1>2, <1>3, <1>4, <1>5

LEMMA InitW ==
  ASSUME Init
  PROVE  WInv
<1> USE DEF Init
<1>1. TypeOK
  <2>1. goal \in (0..MaxWorkers + 1) \X BOOLEAN
    <3>1. 1 \in 0..MaxWorkers + 1 /\ goal = <<1, FALSE>>
      OBVIOUS
    <3>2. ASSUME NEW S, NEW T, NEW a \in S, NEW b \in T PROVE <<a, b>> \in S \X T
      OBVIOUS
    <3>3. FALSE \in BOOLEAN
      OBVIOUS
    <3> HIDE DEF Init
    <3> QED
      BY <3>1, <3>2, <3>3, Zenon
  <2>2. pc \in [Workers -> {"none", "start", "asleep", "woken", "run", "sync", "fini", "ended"}]
    OBVIOUS
  <2>3. stageCount \in 1..MaxWorkers + 1 /\ savedCount \in 0..MaxWorkers + 1
        /\ opsLeft \in 0..MaxOps /\ merged \in 0..MaxWorkers + 1
    OBVIOUS
  <2> QED
    BY <2>1, <2>2, <2>3 DEF TypeOK
<1>2. ThreadsInv
  BY DEF ThreadsInv, Size, InRun, InJoin
<1>3. Count(pc, Active) = 0
  BY CountNone DEF Active
<1>4. CountsInv
  BY <1>3 DEF CountsInv, TeamOp, InOp
<1>5. PlacesInv
  BY DEF PlacesInv
<1>6. QueuedInv
  BY DEF QueuedInv, InOp
<1> QED
  BY <1>1, <1>2, <1>4, <1>5, <1>6 DEF WInv

(***************************************************************************)
(* The workers                                                             *)
(***************************************************************************)
\* A worker moves from one of its places to another one.
LEMMA WorkerMoves ==
  ASSUME WInv, NEW w \in Workers, pc[w] # "none", NEW s \in Places,
         pc' = [pc EXCEPT ![w] = s], UNCHANGED <<setup, quit, frame, main>>,
         running' = Count(pc', Active),
         waiting' = IF TeamOp THEN Count(pc', {"asleep"}) ELSE 0,
         main \in {"asleep", "woken"} => waiting' = waiting
  PROVE  WInv'
<1>1. w \in thread /\ pc \in [Workers -> Step] /\ WInv
  BY Facts
<1>2. s \in {"none", "start", "asleep", "woken", "run", "sync", "fini", "ended"}
  BY DEF Places
<1>3. running' \in Nat /\ waiting' \in Nat
  BY CountNat
<1>4. TypeOK'
  BY <1>2, <1>3 DEF WInv, TypeOK, setup, frame
<1>5. UNCHANGED <<InOp, OpThreaded, TeamOp, InRun, InJoin, Size, Places, InTeam>>
  BY DEF setup, frame, InOp, TeamOp, InRun, InJoin, Size, Places, InTeam, OpThreaded, MultiThreaded
<1>6. ThreadsInv'
  BY <1>5 DEF WInv, ThreadsInv, setup, frame
<1>7. CountsInv'
  BY <1>5 DEF WInv, CountsInv, setup
<1>8. PlacesInv'
  BY <1>1, <1>5 DEF WInv, PlacesInv, setup
<1>9. QueuedInv'
  BY <1>5 DEF WInv, QueuedInv, setup, frame
<1> QED
  BY <1>4, <1>6, <1>7, <1>8, <1>9 DEF WInv

LEMMA WorkerStartsStep ==
  ASSUME WInv, NEW w \in Workers, WorkerStarts(w)
  PROVE  WInv'
<1>1. pc[w] = "start" /\ w \in thread /\ pc \in [Workers -> Step] /\ pc[w] \in Places
  BY Facts DEF WorkerStarts, WInv, PlacesInv
<1>2. Places = {"start", "asleep"} /\ ~quit /\ ~TeamOp
  BY <1>1 DEF Places, WInv, PlacesInv
<1>3. pc' = [pc EXCEPT ![w] = "asleep"] /\ running' = running + 1 /\ waiting' = waiting
      /\ UNCHANGED <<setup, quit, frame, main>>
  BY <1>2 DEF WorkerStarts, WorkerTo
<1>4. Count(pc', Active) = Count(pc, Active) + 1
  BY <1>1, <1>3, CountEnters DEF Active
<1> QED
  BY <1>1, <1>2, <1>3, <1>4, WorkerMoves DEF WInv, CountsInv

\* Where a worker is that was woken up.
LEMMA Awake ==
  ASSUME WInv, NEW w \in Workers, pc[w] \in {"woken", "run", "sync", "fini"}
  PROVE  /\ w \in thread /\ pc \in [Workers -> Step]
         /\ IF quit THEN ~TeamOp /\ Places = {"woken", "fini", "ended"}
                         /\ main = "joining" /\ pc[w] \in {"woken", "fini"}
            ELSE TeamOp /\ Places = {"asleep", "woken", "run", "sync"} /\ pc[w] # "fini"
<1>1. w \in thread /\ pc \in [Workers -> Step] /\ pc[w] \in Places
  BY Facts DEF WInv, PlacesInv
<1>2. CASE TeamOp
  BY <1>1, <1>2 DEF Places, WInv, PlacesInv, TeamOp, InOp
<1>3. CASE ~TeamOp
  BY <1>1, <1>3 DEF Places, WInv, PlacesInv
<1> QED
  BY <1>2, <1>3

LEMMA WorkerResumesStep ==
  ASSUME WInv, NEW w \in Workers, WorkerResumes(w)
  PROVE  WInv'
<1> DEFINE s == IF quit THEN "fini" ELSE "run"
<1>1. /\ pc[w] = "woken" /\ w \in thread /\ pc \in [Workers -> Step] /\ s \in Places
      /\ pc' = [pc EXCEPT ![w] = s] /\ UNCHANGED <<setup, counters, quit, frame, main>>
  BY Awake DEF WorkerResumes, WorkerTo
<1>2. s \in {"fini", "run"}
  OBVIOUS
<1> HIDE DEF s
<1>3. Count(pc', Active) = Count(pc, Active)
  BY <1>1, <1>2, CountStays DEF Active
<1>4. Count(pc', {"asleep"}) = Count(pc, {"asleep"})
  BY <1>1, <1>2, CountStays
<1> QED
  BY <1>1, <1>3, <1>4, WorkerMoves DEF WInv, CountsInv, counters

LEMMA WorkerRunsStep ==
  ASSUME WInv, NEW w \in Workers, WorkerRuns(w)
  PROVE  WInv'
<1>1. /\ pc[w] = "run" /\ w \in thread /\ pc \in [Workers -> Step] /\ "sync" \in Places
      /\ pc' = [pc EXCEPT ![w] = "sync"] /\ UNCHANGED <<setup, counters, quit, frame, main>>
  BY Awake DEF WorkerRuns, WorkerTo
<1>2. Count(pc', Active) = Count(pc, Active)
  BY <1>1, CountStays DEF Active
<1>3. Count(pc', {"asleep"}) = Count(pc, {"asleep"})
  BY <1>1, CountStays
<1> QED
  BY <1>1, <1>2, <1>3, WorkerMoves DEF WInv, CountsInv, counters

LEMMA WorkerEndsStep ==
  ASSUME WInv, NEW w \in Workers, WorkerEnds(w)
  PROVE  WInv'
<1>1. /\ pc[w] = "fini" /\ w \in thread /\ pc \in [Workers -> Step] /\ "ended" \in Places
      /\ pc' = [pc EXCEPT ![w] = "ended"] /\ running' = running - 1 /\ waiting' = waiting
      /\ UNCHANGED <<setup, quit, frame, main>> /\ ~TeamOp
  BY Awake DEF WorkerEnds, WorkerTo
<1>2. Count(pc', Active) = Count(pc, Active) - 1
  BY <1>1, CountLeaves DEF Active
<1> QED
  BY <1>1, <1>2, WorkerMoves DEF WInv, CountsInv

LEMMA WorkerRecordsStep ==
  ASSUME WInv, NEW w \in Workers, WorkerRecords(w)
  PROVE  WInv'
<1>1. /\ pc[w] = "run" /\ queued' = queued \cup {w}
      /\ UNCHANGED <<setup, counters, quit, readonly, threaded, immediate, opsLeft, merged, main, pc>>
  BY DEF WorkerRecords
<1>2. TeamOp /\ w \in thread /\ w \in 1..Size - 1
  BY <1>1, Awake, Facts DEF WInv, PlacesInv, TeamOp, InOp
<1>3. savedCount = 0 /\ stageCount \in Nat /\ w \in 0..stageCount - 1
  BY <1>2, Facts DEF WInv, ThreadsInv, TypeOK, TeamOp, Size
<1>4. UNCHANGED <<InOp, OpThreaded, TeamOp, InRun, InJoin, Size, Places, InTeam>>
  BY <1>1 DEF setup, InOp, TeamOp, InRun, InJoin, Size, Places, InTeam, OpThreaded, MultiThreaded
<1>5. TypeOK'
  BY <1>1 DEF WInv, TypeOK, setup, counters, Stages, Workers
<1>6. ThreadsInv' /\ CountsInv' /\ PlacesInv'
  BY <1>1, <1>4 DEF WInv, ThreadsInv, CountsInv, PlacesInv, setup, counters
<1>7. QueuedInv'
  BY <1>1, <1>2, <1>3, <1>4 DEF WInv, QueuedInv, setup, TeamOp, InTeam, InOp
<1> QED
  BY <1>5, <1>6, <1>7 DEF WInv

LEMMA WorkerSyncsStep ==
  ASSUME WInv, NEW w \in Workers, WorkerSyncs(w)
  PROVE  WInv'
<1>1. pc[w] = "sync" /\ w \in thread /\ pc \in [Workers -> Step] /\ TeamOp /\ ~quit
      /\ Places = {"asleep", "woken", "run", "sync"}
  BY Awake DEF WorkerSyncs
<1>2. stageCount \in 1..MaxWorkers + 1 /\ stageCount > 1
  BY <1>1, Facts DEF TeamOp
<1>3. /\ waiting' = waiting + 1 /\ pc' = [pc EXCEPT ![w] = "asleep"]
      /\ IF waiting' = stageCount - 1 THEN SignalMain ELSE main' = main
      /\ UNCHANGED <<setup, running, quit, frame>>
  BY <1>2 DEF WorkerSyncs, WorkerTo
<1>4. Count(pc', Active) = Count(pc, Active)
  BY <1>1, <1>3, CountStays DEF Active
<1>5. Count(pc', {"asleep"}) = Count(pc, {"asleep"}) + 1
  BY <1>1, <1>3, CountEnters
<1>6. Count(pc, {"asleep"}) # stageCount - 1
  <2>1. thread = 1..stageCount - 1 /\ stageCount - 1 \in 0..MaxWorkers
    BY <1>1, <1>2 DEF WInv, ThreadsInv, TeamOp, InOp, InRun
  <2>2. \A v \in Workers : pc[v] \in {"asleep"} => v \in 1..stageCount - 1
    BY <2>1, Facts
  <2>3. w \in 1..stageCount - 1 /\ pc[w] \notin {"asleep"}
    BY <2>1, <1>1
  <2> QED
    BY <2>1, <2>2, <2>3, CountFull
<1>7. waiting = Count(pc, {"asleep"}) /\ waiting \in Nat
  BY <1>1, Facts DEF WInv, CountsInv
<1>8. main # "woken"
  BY <1>6, <1>7 DEF WInv, CountsInv
<1>9. \/ main' = main /\ (main = "asleep" => waiting' # stageCount - 1)
      \/ main = "asleep" /\ main' = "woken" /\ waiting' = stageCount - 1
  BY <1>3 DEF SignalMain
<1>10. UNCHANGED <<InOp, OpThreaded, TeamOp, InRun, InJoin, Size, Places, InTeam>>
  BY <1>1, <1>3, <1>9 DEF setup, frame, InOp, TeamOp, InRun, InJoin, Size, Places, InTeam,
                          OpThreaded, MultiThreaded
<1>11. TypeOK'
  BY <1>1, <1>3, <1>7, <1>9 DEF WInv, TypeOK, setup, frame
<1>12. ThreadsInv'
  BY <1>3, <1>9, <1>10 DEF WInv, ThreadsInv, setup, frame, TeamOp, InOp
<1>13. CountsInv'
  BY <1>1, <1>3, <1>4, <1>5, <1>7, <1>8, <1>9, <1>10 DEF WInv, CountsInv, setup
<1>14. PlacesInv'
  BY <1>1, <1>3, <1>9, <1>10 DEF WInv, PlacesInv, setup
<1>15. QueuedInv'
  BY <1>3, <1>9, <1>10 DEF WInv, QueuedInv, setup, frame
<1> QED
  BY <1>11, <1>12, <1>13, <1>14, <1>15 DEF WInv

(***************************************************************************)
(* The main thread                                                         *)
(***************************************************************************)
LEMMA ProgressStartupStep ==
  ASSUME WInv, ProgressStartup
  PROVE  WInv'
<1> USE DEF ProgressStartup, Goto, setup, counters, frame
<1>1. TypeOK'
  BY DEF WInv, TypeOK
<1>2. ThreadsInv'
  BY Facts DEF WInv, ThreadsInv, Size, InRun, InJoin
<1>3. CountsInv'
  BY DEF WInv, CountsInv, TeamOp, InOp, OpThreaded, MultiThreaded
<1>4. PlacesInv'
  BY DEF WInv, PlacesInv, Places, TeamOp, InOp, InRun, OpThreaded, MultiThreaded
<1>5. QueuedInv'
  BY DEF WInv, QueuedInv, InOp, InTeam, OpThreaded, MultiThreaded
<1> QED
  BY <1>1, <1>2, <1>3, <1>4, <1>5 DEF WInv

LEMMA ProgressStep ==
  ASSUME WInv, Progress
  PROVE  WInv'
<1> USE DEF Progress, Goto, setup, counters, frame
<1>1. TypeOK'
  BY DEF WInv, TypeOK
<1>2. ThreadsInv'
  BY Facts DEF WInv, ThreadsInv, Size, InRun, InJoin
<1>3. CountsInv'
  BY DEF WInv, CountsInv, TeamOp, InOp, OpThreaded, MultiThreaded
<1>4. PlacesInv'
  BY DEF WInv, PlacesInv, Places, TeamOp, InOp, InRun, OpThreaded, MultiThreaded
<1>5. QueuedInv'
  BY DEF WInv, QueuedInv, InOp, InTeam, OpThreaded, MultiThreaded
<1> QED
  BY <1>1, <1>2, <1>3, <1>4, <1>5 DEF WInv

LEMMA NextOpStep ==
  ASSUME WInv, NEW mt \in BOOLEAN, NEW imm \in BOOLEAN, NextOp(mt,imm)
  PROVE  WInv'
<1> USE DEF NextOp, Goto, setup, counters, frame
<1>1. TypeOK'
  BY DEF WInv, TypeOK
<1>2. ThreadsInv'
  BY Facts DEF WInv, ThreadsInv, Size, InRun, InJoin
<1>3. CountsInv'
  BY DEF WInv, CountsInv, TeamOp, InOp, OpThreaded, MultiThreaded
<1>4. PlacesInv'
  BY DEF WInv, PlacesInv, Places, TeamOp, InOp, InRun, OpThreaded, MultiThreaded
<1>5. QueuedInv'
  BY DEF WInv, QueuedInv, InOp, InTeam, OpThreaded, MultiThreaded
<1> QED
  BY <1>1, <1>2, <1>3, <1>4, <1>5 DEF WInv

LEMMA NoMoreOpsStep ==
  ASSUME WInv, NoMoreOps
  PROVE  WInv'
<1> USE DEF NoMoreOps, Goto, setup, counters, frame
<1>1. TypeOK'
  BY DEF WInv, TypeOK
<1>2. ThreadsInv'
  BY Facts DEF WInv, ThreadsInv, Size, InRun, InJoin
<1>3. CountsInv'
  BY DEF WInv, CountsInv, TeamOp, InOp, OpThreaded, MultiThreaded
<1>4. PlacesInv'
  BY DEF WInv, PlacesInv, Places, TeamOp, InOp, InRun, OpThreaded, MultiThreaded
<1>5. QueuedInv'
  BY DEF WInv, QueuedInv, InOp, InTeam, OpThreaded, MultiThreaded
<1> QED
  BY <1>1, <1>2, <1>3, <1>4, <1>5 DEF WInv

LEMMA BeginOpStep ==
  ASSUME WInv, BeginOp
  PROVE  WInv'
<1> USE DEF BeginOp, Goto, setup, counters, frame
<1>1. TypeOK'
  BY DEF WInv, TypeOK
<1>2. ThreadsInv'
  BY Facts DEF WInv, ThreadsInv, Size, InRun, InJoin
<1>3. CountsInv'
  BY DEF WInv, CountsInv, TeamOp, InOp, OpThreaded, MultiThreaded
<1>4. PlacesInv'
  BY DEF WInv, PlacesInv, Places, TeamOp, InOp, InRun, OpThreaded, MultiThreaded
<1>5. QueuedInv'
  BY DEF WInv, QueuedInv, InOp, InTeam, OpThreaded, MultiThreaded
<1> QED
  BY <1>1, <1>2, <1>3, <1>4, <1>5 DEF WInv

LEMMA MainRecordsStep ==
  ASSUME WInv, MainRecords
  PROVE  WInv'
<1> USE DEF MainRecords, Goto, setup, counters, frame
<1>1. TypeOK'
  BY DEF WInv, TypeOK, Stages
<1>2. ThreadsInv'
  BY Facts DEF WInv, ThreadsInv, Size, InRun, InJoin
<1>3. CountsInv'
  BY DEF WInv, CountsInv, TeamOp, InOp, OpThreaded, MultiThreaded
<1>4. PlacesInv'
  BY DEF WInv, PlacesInv, Places, TeamOp, InOp, InRun, OpThreaded, MultiThreaded
<1>5. QueuedInv'
  BY Facts DEF WInv, QueuedInv, InOp, InTeam, OpThreaded, MultiThreaded
<1> QED
  BY <1>1, <1>2, <1>3, <1>4, <1>5 DEF WInv

LEMMA MainRunsStep ==
  ASSUME WInv, MainRuns
  PROVE  WInv'
<1> USE DEF MainRuns, Goto, setup, counters, frame
<1>1. TypeOK'
  BY DEF WInv, TypeOK
<1>2. ThreadsInv'
  BY Facts DEF WInv, ThreadsInv, Size, InRun, InJoin
<1>3. CountsInv'
  BY DEF WInv, CountsInv, TeamOp, InOp, OpThreaded, MultiThreaded
<1>4. PlacesInv'
  BY DEF WInv, PlacesInv, Places, TeamOp, InOp, InRun, OpThreaded, MultiThreaded
<1>5. QueuedInv'
  BY DEF WInv, QueuedInv, InOp, InTeam, OpThreaded, MultiThreaded
<1> QED
  BY <1>1, <1>2, <1>3, <1>4, <1>5 DEF WInv

LEMMA EndStartupStep ==
  ASSUME WInv, EndStartup
  PROVE  WInv'
<1> USE DEF EndStartup, Goto, setup, counters, frame
<1>1. TypeOK'
  BY DEF WInv, TypeOK
<1>2. ThreadsInv'
  BY Facts DEF WInv, ThreadsInv, Size, InRun, InJoin
<1>3. CountsInv'
  BY DEF WInv, CountsInv, TeamOp, InOp, OpThreaded, MultiThreaded
<1>4. PlacesInv'
  BY DEF WInv, PlacesInv, Places, TeamOp, InOp, InRun, OpThreaded, MultiThreaded
<1>5. QueuedInv'
  BY DEF WInv, QueuedInv, InOp, InTeam, OpThreaded, MultiThreaded
<1> QED
  BY <1>1, <1>2, <1>3, <1>4, <1>5 DEF WInv

LEMMA EndRunStep ==
  ASSUME WInv, NEW progress \in BOOLEAN, EndRun(progress)
  PROVE  WInv'
<1> USE DEF EndRun, Goto, setup, counters, frame
<1>1. TypeOK'
  BY DEF WInv, TypeOK
<1>2. ThreadsInv'
  BY Facts DEF WInv, ThreadsInv, Size, InRun, InJoin
<1>3. CountsInv'
  BY DEF WInv, CountsInv, TeamOp, InOp, OpThreaded, MultiThreaded
<1>4. PlacesInv'
  BY DEF WInv, PlacesInv, Places, TeamOp, InOp, InRun, OpThreaded, MultiThreaded
<1>5. QueuedInv'
  BY DEF WInv, QueuedInv, InOp, InTeam, OpThreaded, MultiThreaded
<1> QED
  BY <1>1, <1>2, <1>3, <1>4, <1>5 DEF WInv

LEMMA SetThreadsStep ==
  ASSUME WInv, NEW n \in 0..MaxWorkers + 1, NEW task \in BOOLEAN, SetThreads(n,task)
  PROVE  WInv'
<1> USE DEF SetThreads, Goto, setup, counters, frame
<1>1. TypeOK'
  BY DEF WInv, TypeOK
<1>2. ThreadsInv'
  BY Facts DEF WInv, ThreadsInv, Size, InRun, InJoin
<1>3. CountsInv'
  BY DEF WInv, CountsInv, TeamOp, InOp, OpThreaded, MultiThreaded
<1>4. PlacesInv'
  BY DEF WInv, PlacesInv, Places, TeamOp, InOp, InRun, OpThreaded, MultiThreaded
<1>5. QueuedInv'
  BY DEF WInv, QueuedInv, InOp, InTeam, OpThreaded, MultiThreaded
<1> QED
  BY <1>1, <1>2, <1>3, <1>4, <1>5 DEF WInv

\* All threads run: those of the team wait for an operation.
LEMMA AllAsleep ==
  ASSUME WInv, AllRunning, stageCount > 1, main = "ready" \/ main = "join"
  PROVE  /\ thread = 1..stageCount - 1 /\ savedCount = 0
         /\ \A w \in thread : pc[w] = "asleep"
<1>1. savedCount = 0 /\ thread = 1..stageCount - 1 /\ running = stageCount - 1
  BY DEF WInv, TypeOK, ThreadsInv, AllRunning, InRun, InJoin
<1>2. Places = {"start", "asleep"}
  BY DEF Places, TeamOp, InOp, InRun
<1>3. stageCount - 1 \in 0..MaxWorkers /\ Count(pc, Active) = stageCount - 1
  BY <1>1, Facts DEF WInv, CountsInv
<1>4. \A w \in Workers : pc[w] \in Active => w \in 1..stageCount - 1
  BY <1>1, Facts DEF Active
<1>5. \A w \in 1..stageCount - 1 : pc[w] \in Active
  BY <1>3, <1>4, CountFull
<1> QED
  BY <1>1, <1>2, <1>5 DEF WInv, PlacesInv, Active

\* The threads of a new team have not started.
LEMMA NoneActive ==
  ASSUME WInv, thread = {}, ~TeamOp, NEW n \in 0..MaxWorkers + 1, StartThreads(n)
  PROVE  /\ pc' \in [Workers -> Step] /\ thread' \subseteq Workers
         /\ \A w \in Workers : pc'[w] = IF w \in thread' THEN "start" ELSE "none"
         /\ thread' = 1..n - 1
         /\ running = 0 /\ Count(pc', Active) = 0 /\ waiting = 0
<1>1. \A w \in Workers : pc[w] = "none"
  BY DEF WInv, PlacesInv
<1>2. thread' = 1..n - 1 /\ pc' = [w \in Workers |-> IF w < n THEN "start" ELSE "none"]
  BY <1>1 DEF StartThreads
<1>3. /\ pc' \in [Workers -> Step] /\ thread' \subseteq Workers
      /\ \A w \in Workers : pc'[w] = IF w \in thread' THEN "start" ELSE "none"
  BY <1>2 DEF Workers, Step
<1>4. Count(pc', Active) = 0 /\ Count(pc, Active) = 0
  BY <1>1, <1>3, CountNone DEF Active
<1> QED
  BY <1>2, <1>3, <1>4 DEF WInv, CountsInv

LEMMA CreateTasksStep ==
  ASSUME WInv, CreateTasks
  PROVE  WInv'
<1> USE DEF CreateTasks, Goto, setup, counters, frame
<1>1. ~TeamOp /\ ~TeamOp' /\ stageCount \in 0..MaxWorkers + 1
      /\ (taskApi => thread = {} /\ savedCount = 0 /\ StartThreads(stageCount))
      /\ (~taskApi => UNCHANGED <<thread, pc>>)
  BY Facts DEF TeamOp, InOp, WInv, ThreadsInv, TypeOK
<1>2. taskApi => /\ pc' \in [Workers -> Step] /\ thread' \subseteq Workers
                 /\ \A w \in Workers : pc'[w] = IF w \in thread' THEN "start" ELSE "none"
                 /\ thread' = 1..stageCount - 1
                 /\ running = 0 /\ Count(pc', Active) = 0 /\ waiting = 0
  BY <1>1, NoneActive
<1>3. TypeOK'
  BY <1>1, <1>2, Facts DEF WInv, TypeOK, Step
<1>4. ThreadsInv'
  BY <1>1, <1>2, Facts DEF WInv, ThreadsInv, Size, InRun, InJoin
<1>5. CountsInv'
  BY <1>1, <1>2, Facts DEF WInv, CountsInv, TeamOp, InOp, OpThreaded, MultiThreaded
<1>6. PlacesInv'
  BY <1>1, <1>2, Facts DEF WInv, PlacesInv, Places, TeamOp, InOp, InRun, OpThreaded, MultiThreaded
<1>7. QueuedInv'
  BY Facts DEF WInv, QueuedInv, InOp, InTeam, OpThreaded, MultiThreaded
<1> QED
  BY <1>3, <1>4, <1>5, <1>6, <1>7 DEF WInv

LEMMA WaitForWorkersStep ==
  ASSUME WInv, WaitForWorkers
  PROVE  WInv'
<1> USE DEF WaitForWorkers, Goto, setup, counters, frame
<1>1. stageCount > 1 => \A w \in thread : pc[w] = "asleep"
  BY AllAsleep
<1>2. TypeOK'
  BY Facts DEF WInv, TypeOK
<1>3. ThreadsInv'
  BY Facts DEF WInv, ThreadsInv, Size, InRun, InJoin
<1>4. CountsInv'
  BY Facts DEF WInv, CountsInv, TeamOp, InOp, OpThreaded, MultiThreaded
<1>5. PlacesInv'
  BY <1>1, Facts DEF WInv, PlacesInv, Places, TeamOp, InOp, InRun, OpThreaded, MultiThreaded
<1>6. QueuedInv'
  BY Facts DEF WInv, QueuedInv, InOp, InTeam, OpThreaded, MultiThreaded
<1> QED
  BY <1>2, <1>3, <1>4, <1>5, <1>6 DEF WInv

LEMMA SignalWorkersStep ==
  ASSUME WInv, SignalWorkers
  PROVE  WInv'
<1> USE DEF SignalWorkers, Goto, setup, counters, frame
<1>1. IF stageCount <= 1 THEN pc' = pc
      ELSE /\ \A w \in thread : pc[w] = "asleep"
           /\ pc' = [w \in Workers |-> IF pc[w] = "asleep" THEN "woken" ELSE pc[w]]
  BY Facts DEF Broadcast, WInv, PlacesInv, Places, InRun, TeamOp, InOp
<1>2. Count(pc', Active) = Count(pc, Active)
  BY <1>1, CountSame DEF Active
<1>3. stageCount > 1 => Count(pc', {"asleep"}) = 0
  <2> SUFFICES ASSUME stageCount > 1 PROVE \A w \in Workers : pc'[w] \notin {"asleep"}
    BY CountNone
  <2> QED
    BY <1>1, Facts
<1>4. /\ waiting = 0 /\ waiting' = 0 /\ running' = running /\ main' = "ops"
      /\ stageCount > 1 => TeamOp'
      /\ ~(stageCount > 1) => ~TeamOp'
  BY Facts DEF WInv, CountsInv, TeamOp, InOp, OpThreaded, MultiThreaded
<1>5. TypeOK'
  BY <1>1, Facts DEF WInv, TypeOK
<1>6. ThreadsInv'
  BY Facts DEF WInv, ThreadsInv, Size, InRun, InJoin
<1>7. CountsInv'
  <2>1. running' = Count(pc', Active)
    BY <1>2, <1>4 DEF WInv, CountsInv
  <2>2. waiting' = IF TeamOp' THEN Count(pc', {"asleep"}) ELSE 0
    BY <1>3, <1>4
  <2> QED
    BY <2>1, <2>2, <1>4 DEF CountsInv
<1>8. PlacesInv'
  <2>1. Places = IF stageCount > 1 THEN {"asleep"} ELSE {"start", "asleep"}
    BY DEF Places, InRun, TeamOp, InOp
  <2>2. Places' = IF stageCount > 1 THEN {"asleep", "woken", "run", "sync"} ELSE {"start", "asleep"}
    BY <1>4 DEF Places
  <2> QED
    BY <2>1, <2>2, <1>1, Facts DEF WInv, PlacesInv
<1>9. QueuedInv'
  BY Facts DEF WInv, QueuedInv, InOp, InTeam, OpThreaded, MultiThreaded
<1> QED
  BY <1>5, <1>6, <1>7, <1>8, <1>9 DEF WInv

\* When as many wait as the team has workers, all of them wait.
LEMMA EveryoneWaits ==
  ASSUME WInv, TeamOp, waiting = stageCount - 1
  PROVE  \A w \in thread : pc[w] = "asleep"
<1>1. thread = 1..stageCount - 1 /\ stageCount - 1 \in 0..MaxWorkers
  BY Facts DEF WInv, ThreadsInv, TeamOp, InOp, InRun
<1>2. Count(pc, {"asleep"}) = stageCount - 1
  BY DEF WInv, CountsInv
<1>3. \A w \in Workers : pc[w] \in {"asleep"} => w \in 1..stageCount - 1
  BY <1>1, Facts
<1>4. \A w \in 1..stageCount - 1 : pc[w] \in {"asleep"}
  BY <1>1, <1>2, <1>3, CountFull
<1> QED
  BY <1>1, <1>4

LEMMA WaitForSyncStep ==
  ASSUME WInv, WaitForSync
  PROVE  WInv'
<1> USE DEF WaitForSync, Goto, setup, counters, frame
<1>1. TeamOp /\ waiting = stageCount - 1 => \A w \in thread : pc[w] = "asleep"
  BY EveryoneWaits
<1>2. TypeOK'
  BY Facts DEF WInv, TypeOK
<1>3. ThreadsInv'
  BY Facts DEF WInv, ThreadsInv, Size, InRun, InJoin
<1>4. CountsInv'
  BY Facts DEF WInv, CountsInv, TeamOp, InOp, OpThreaded, MultiThreaded
<1>5. PlacesInv'
  BY <1>1, Facts DEF WInv, PlacesInv, Places, TeamOp, InOp, InRun, OpThreaded, MultiThreaded
<1>6. QueuedInv'
  BY Facts DEF WInv, QueuedInv, InOp, InTeam, OpThreaded, MultiThreaded
<1> QED
  BY <1>2, <1>3, <1>4, <1>5, <1>6 DEF WInv

LEMMA SyncedStep ==
  ASSUME WInv, Synced
  PROVE  WInv'
<1> USE DEF Synced, Goto, setup, counters, frame
<1>1. TeamOp /\ \A w \in thread : pc[w] = "asleep"
  BY EveryoneWaits DEF WInv, CountsInv
<1>2. TypeOK'
  BY Facts DEF WInv, TypeOK
<1>3. ThreadsInv'
  BY <1>1, Facts DEF WInv, ThreadsInv, Size, InRun, InJoin
<1>4. CountsInv'
  BY Facts DEF WInv, CountsInv, TeamOp, InOp, OpThreaded, MultiThreaded
<1>5. PlacesInv'
  BY <1>1, Facts DEF WInv, PlacesInv, Places, TeamOp, InOp, InRun, OpThreaded, MultiThreaded
<1>6. QueuedInv'
  BY <1>1, Facts DEF WInv, QueuedInv, InOp, InTeam, OpThreaded, MultiThreaded
<1> QED
  BY <1>2, <1>3, <1>4, <1>5, <1>6 DEF WInv

LEMMA MergeStageStep ==
  ASSUME WInv, MergeStage
  PROVE  WInv'
<1> USE DEF MergeStage, Goto, setup, counters, frame
<1>1. merged \in Nat /\ merged < stageCount
  BY DEF WInv, TypeOK, QueuedInv
<1>2. TypeOK'
  <2>1. merged' \in 0..MaxWorkers + 1 /\ main' \in {"update", "merge"}
    BY <1>1, Facts
  <2> QED
    BY <2>1 DEF WInv, TypeOK
<1>3. ThreadsInv'
  BY Facts DEF WInv, ThreadsInv, Size, InRun, InJoin
<1>4. CountsInv'
  BY Facts DEF WInv, CountsInv, TeamOp, InOp, OpThreaded, MultiThreaded
<1>5. PlacesInv'
  BY <1>1, Facts DEF WInv, PlacesInv, Places, TeamOp, InOp, InRun, OpThreaded, MultiThreaded
<1>6. QueuedInv'
  BY <1>1, Facts DEF WInv, QueuedInv, InOp, InTeam, OpThreaded, MultiThreaded
<1> QED
  BY <1>2, <1>3, <1>4, <1>5, <1>6 DEF WInv

LEMMA JoinWaitsStep ==
  ASSUME WInv, JoinWaits
  PROVE  WInv'
<1> USE DEF JoinWaits, Goto, setup, counters, frame
<1>1. stageCount > 1 /\ \A w \in thread : pc[w] = "asleep"
  BY AllAsleep DEF WInv, ThreadsInv, InJoin
<1>2. TypeOK'
  BY Facts DEF WInv, TypeOK
<1>3. ThreadsInv'
  BY Facts DEF WInv, ThreadsInv, Size, InRun, InJoin
<1>4. CountsInv'
  BY Facts DEF WInv, CountsInv, TeamOp, InOp, OpThreaded, MultiThreaded
<1>5. PlacesInv'
  BY <1>1, Facts DEF WInv, PlacesInv, Places, TeamOp, InOp, InRun, OpThreaded, MultiThreaded
<1>6. QueuedInv'
  BY Facts DEF WInv, QueuedInv, InOp, InTeam, OpThreaded, MultiThreaded
<1> QED
  BY <1>2, <1>3, <1>4, <1>5, <1>6 DEF WInv

LEMMA JoinSignalsStep ==
  ASSUME WInv, JoinSignals
  PROVE  WInv'
<1> USE DEF JoinSignals, Goto, setup, counters, frame
<1>1. /\ \A w \in thread : pc[w] = "asleep"
      /\ pc' = [w \in Workers |-> IF pc[w] = "asleep" THEN "woken" ELSE pc[w]]
  BY Facts DEF Broadcast, WInv, PlacesInv, Places, ThreadsInv, InRun, InJoin, TeamOp, InOp
<1>2. Count(pc', Active) = Count(pc, Active)
  BY <1>1, CountSame DEF Active
<1>3. TypeOK'
  BY <1>1, Facts DEF WInv, TypeOK
<1>4. ThreadsInv'
  BY Facts DEF WInv, ThreadsInv, Size, InRun, InJoin
<1>5. CountsInv'
  BY <1>2, Facts DEF WInv, CountsInv, TeamOp, InOp, OpThreaded, MultiThreaded
<1>6. PlacesInv'
  BY <1>1, Facts DEF WInv, PlacesInv, Places, TeamOp, InOp, InRun, OpThreaded, MultiThreaded
<1>7. QueuedInv'
  BY Facts DEF WInv, QueuedInv, InOp, InTeam, OpThreaded, MultiThreaded
<1> QED
  BY <1>3, <1>4, <1>5, <1>6, <1>7 DEF WInv

LEMMA JoinStep ==
  ASSUME WInv, Join
  PROVE  WInv'
<1> USE DEF Join, Goto, setup, counters, frame
<1>1. /\ \A w \in Workers : pc'[w] = "none" /\ pc[w] \notin Active
      /\ pc' \in [Workers -> Step]
  BY Facts DEF Active, Step
<1>2. Count(pc', Active) = 0 /\ Count(pc, Active) = 0
  BY <1>1, CountNone DEF Active
<1>3. /\ main' \in {"idle", "reconfigure"} /\ main' = after /\ ~TeamOp /\ ~TeamOp'
      /\ thread' = {} /\ quit' = FALSE
      /\ UNCHANGED <<stageCount, savedCount, taskApi, cond, firstFrame, goal, after, counters, frame>>
  BY DEF WInv, TypeOK, TeamOp, InOp
<1>4. main = "joining"
  OBVIOUS
<1> HIDE DEF Join
<1>5. TypeOK'
  BY <1>1, <1>3 DEF WInv, TypeOK, Step
<1>6. ThreadsInv'
  BY <1>3, <1>4 DEF WInv, ThreadsInv, Size, InRun, InJoin
<1>7. CountsInv'
  BY <1>2, <1>3 DEF WInv, CountsInv
<1>8. PlacesInv'
  BY <1>1, <1>3 DEF PlacesInv
<1>9. QueuedInv'
  BY <1>3, <1>4 DEF WInv, QueuedInv, InOp
<1> QED
  BY <1>5, <1>6, <1>7, <1>8, <1>9 DEF WInv

LEMMA ReconfigureStep ==
  ASSUME WInv, Reconfigure
  PROVE  WInv'
<1> DEFINE n == goal[1]
<1>1. /\ main = "reconfigure" /\ main' = "idle" /\ taskApi' = goal[2]
      /\ IF n > 1
         THEN /\ stageCount' = n /\ cond' = "live"
              /\ IF goal[2] THEN UNCHANGED <<thread, pc>> ELSE StartThreads(n)
         ELSE stageCount' = 1 /\ cond' \in {"freed", cond} /\ UNCHANGED <<thread, pc>>
      /\ UNCHANGED <<savedCount, firstFrame, goal, after, counters, quit, frame>>
  BY DEF Reconfigure, Goto
<1>2. n \in 0..MaxWorkers + 1 /\ goal[2] \in BOOLEAN
  BY DEF WInv, TypeOK
<1> HIDE DEF n
<1>3. /\ ~TeamOp /\ ~TeamOp' /\ thread = {} /\ savedCount = 0 /\ ~quit
      /\ \A w \in Workers : pc[w] = "none"
  BY <1>1 DEF TeamOp, InOp, WInv, TypeOK, ThreadsInv, PlacesInv
<1>4. /\ pc' \in [Workers -> Step] /\ thread' \subseteq Workers
      /\ \A w \in Workers : pc'[w] = IF w \in thread' THEN "start" ELSE "none"
      /\ thread' = IF n > 1 /\ ~goal[2] THEN 1..n - 1 ELSE {}
  <2>1. CASE n > 1 /\ ~goal[2]
    BY <2>1, <1>1, <1>2, <1>3, NoneActive
  <2>2. CASE ~(n > 1 /\ ~goal[2])
    BY <2>2, <1>1, <1>3, Facts
  <2> QED
    BY <2>1, <2>2
<1>5. Count(pc', Active) = 0 /\ Count(pc, Active) = 0
  BY <1>3, <1>4, CountNone DEF Active
<1>6. TypeOK'
  BY <1>1, <1>2, <1>4 DEF WInv, TypeOK, Step, counters, frame
<1>7. ThreadsInv'
  BY <1>1, <1>2, <1>3, <1>4 DEF ThreadsInv, Size, InRun, InJoin
<1>8. CountsInv'
  BY <1>1, <1>3, <1>5 DEF WInv, CountsInv, counters
<1>9. PlacesInv'
  BY <1>1, <1>3, <1>4 DEF PlacesInv, Places, InRun
<1>10. QueuedInv'
  BY <1>1 DEF WInv, QueuedInv, InOp, frame
<1> QED
  BY <1>6, <1>7, <1>8, <1>9, <1>10 DEF WInv

(***************************************************************************)
(* Theorems                                                                *)
(***************************************************************************)
LEMMA NextW ==
  ASSUME WInv, [Next]_vars
  PROVE  WInv'
<1>1. ASSUME NEW w \in Workers, WorkerStep(w) \/ WorkerRecords(w) PROVE WInv'
  BY <1>1, WorkerStartsStep, WorkerResumesStep, WorkerRunsStep, WorkerSyncsStep, WorkerEndsStep,
     WorkerRecordsStep DEF WorkerStep
<1>2. CASE MainStep
  BY <1>2, CreateTasksStep, WaitForWorkersStep, NextOpStep, NoMoreOpsStep, BeginOpStep,
     SignalWorkersStep, MainRunsStep, WaitForSyncStep, SyncedStep, MergeStageStep,
     EndStartupStep, EndRunStep, JoinWaitsStep, JoinSignalsStep, JoinStep, ReconfigureStep
     DEF MainStep
<1>3. CASE MainRecords
  BY <1>3, MainRecordsStep
<1>4. CASE Call
  BY <1>4, ProgressStartupStep, ProgressStep, SetThreadsStep DEF Call
<1>5. CASE UNCHANGED vars
  BY <1>5 DEF vars, setup, counters, frame, WInv, TypeOK, ThreadsInv, CountsInv, PlacesInv,
              QueuedInv, Size, Places, TeamOp, InOp, InRun, InJoin, InTeam, OpThreaded, MultiThreaded
<1> QED
  BY <1>1, <1>2, <1>3, <1>4, <1>5 DEF Next

LEMMA Invariance == SafeSpec => []WInv
<1>1. Init => WInv
  BY InitW
<1>2. WInv /\ [Next]_vars => WInv'
  BY NextW
<1> QED
  BY <1>1, <1>2, PTL DEF SafeSpec

\* The counters never go below zero, and the stages and threads of every
\* reachable state are those that a world can have.
THEOREM WorkersTypes == SafeSpec => []TypeOK
<1>1. WInv => TypeOK
  BY DEF WInv
<1> QED
  BY <1>1, Invariance, PTL

\* With any number of workers, stages are merged, pipelines rebuilt and stages
\* reallocated only while no worker runs systems.
THEOREM MergeExclusive == SafeSpec => []MergeExcludesWorkers
<1>1. WInv => MergeExcludesWorkers
  <2> SUFFICES ASSUME WInv, ~InOp, ~quit, NEW w \in Workers
               PROVE  pc[w] \in {"none", "start", "asleep", "ended"}
    BY DEF MergeExcludesWorkers
  <2>1. Places \subseteq {"start", "asleep"}
    BY DEF WInv, PlacesInv, Places, TeamOp
  <2> QED
    BY <2>1 DEF WInv, PlacesInv
<1> QED
  BY <1>1, Invariance, PTL

\* The assertions on workers_waiting: nobody is counted as waiting when an
\* operation starts, and everybody when the main thread has been woken.
THEOREM SyncExact == SafeSpec => []SyncCountExact
<1>1. WInv => SyncCountExact
  BY DEF WInv, CountsInv, SyncCountExact, TeamOp, InOp
<1> QED
  BY <1>1, Invariance, PTL

\* Threads use only stages, conditions and the mutex that exist: those are
\* freed after the threads were joined.
THEOREM NothingUsedAfterFree == SafeSpec => []FreedUnused
<1>1. WInv => FreedUnused
  <2> SUFFICES ASSUME WInv PROVE FreedUnused
    OBVIOUS
  <2>1. ASSUME NEW w \in Workers, pc[w] # "none" PROVE w \in thread /\ cond = "live"
    <3>1. w \in thread /\ Size > 1
      BY <2>1, Facts
    <3> QED
      BY <3>1 DEF WInv, ThreadsInv
  <2>2. ASSUME main = "idle", NEW w \in thread PROVE w < stageCount
    <3>1. w \in 1..Size - 1 /\ savedCount = 0 /\ stageCount \in Nat
      BY <2>2, Facts DEF WInv, ThreadsInv, TypeOK
    <3> QED
      BY <3>1 DEF Size
  <2>3. ASSUME main = "reconfigure" PROVE thread = {} /\ running = 0
    <3>1. thread = {} /\ \A w \in Workers : pc[w] \notin Active
      BY <2>3 DEF WInv, ThreadsInv, PlacesInv, Active
    <3> QED
      BY <3>1, CountNone DEF WInv, CountsInv
  <2> QED
    BY <2>1, <2>2, <2>3 DEF FreedUnused
<1> QED
  BY <1>1, Invariance, PTL

\* When an operation ends, or a call returns, the commands of all stages have
\* been merged, whatever stage counts the world went through.
THEOREM AllMerged == SafeSpec => []NothingUnmerged
<1>1. WInv => NothingUnmerged
  BY DEF WInv, QueuedInv, NothingUnmerged, InOp
<1> QED
  BY <1>1, Invariance, PTL

(***************************************************************************)
(* The refinement of Barrier                                               *)
(***************************************************************************)
\* A step that is none of an operation of the pipeline.
LEMMA Stutters ==
  ASSUME ~InOp, ~InOp', queued' = queued
  PROVE  UNCHANGED B!vars
  BY DEF InTeam, TeamDone, B!vars

\* Steps of a worker while the main thread stays where it is.
LEMMA WorkerOutside ==
  ASSUME WInv, NEW w \in Workers, WorkerStep(w), ~TeamOp
  PROVE  UNCHANGED B!vars
<1>1. UNCHANGED <<setup, quit, frame, main>>
  <2>1. pc[w] # "sync"
    BY Awake DEF WInv, PlacesInv
  <2> QED
    BY <2>1 DEF WorkerStep, WorkerStarts, WorkerResumes, WorkerRuns, WorkerSyncs, WorkerEnds, counters
<1>2. InTeam' = InTeam
  BY <1>1 DEF setup, frame, InTeam, InOp, OpThreaded, MultiThreaded
<1>3. InTeam \subseteq {0}
  BY Facts DEF TeamOp, InTeam
<1>4. TeamDone' = TeamDone
  BY <1>1, <1>2, <1>3 DEF TeamDone
<1> QED
  BY <1>1, <1>2, <1>4 DEF B!vars, frame

\* The stages of the team.
LEMMA TeamFacts ==
  ASSUME WInv, TeamOp
  PROVE  /\ InTeam = 0..stageCount - 1 /\ thread = 1..stageCount - 1 /\ stageCount \in Nat
         /\ InTeam \subseteq Stages
         /\ \A i \in Stages : i \in InTeam <=> i = 0 \/ i \in thread
         /\ \A w \in Workers : w # 0
<1>1. stageCount \in 1..MaxWorkers + 1 /\ thread = 1..stageCount - 1
  BY Facts DEF WInv, ThreadsInv, TeamOp, InOp, InRun
<1>2. InTeam = 0..stageCount - 1
  BY DEF TeamOp, InTeam
<1> QED
  BY <1>1, <1>2 DEF Stages, Workers

LEMMA WorkerInside ==
  ASSUME WInv, WInv', NEW w \in Workers, WorkerStep(w), TeamOp
  PROVE  [B!Next]_(B!vars)
<1>1. w \in Stages /\ w # 0
  BY DEF Workers, Stages
<1>2. stageCount > 1
  BY DEF TeamOp
<1>3. CASE WorkerSyncs(w)
  <2>1. pc[w] = "sync" /\ pc' = [pc EXCEPT ![w] = "asleep"]
        /\ \/ main' = main
           \/ main = "asleep" /\ main' = "woken"
        /\ UNCHANGED <<setup, running, quit, frame>>
    <3>1. ~(stageCount <= 1)
      BY <1>2, Facts
    <3> QED
      BY <1>3, <3>1 DEF WorkerSyncs, WorkerTo, SignalMain
  <2>2. InTeam' = InTeam
    BY <2>1 DEF setup, frame, InTeam, InOp, OpThreaded, MultiThreaded
  <2>3. w \in InTeam /\ pc \in [Workers -> Step] /\ InTeam \subseteq Stages
    <3>1. w \in thread
      BY <2>1, Facts
    <3>2. InTeam \subseteq Stages /\ (w \in Stages /\ w \in thread => w \in InTeam)
      BY TeamFacts
    <3> QED
      BY <3>1, <3>2, <1>1, Facts
  <2>4. \A i \in InTeam : i # 0 => i \in Workers
    BY <2>3 DEF Stages, Workers
  <2>5. TeamDone' = TeamDone \cup {w} /\ w \notin TeamDone
    BY <2>1, <2>2, <2>3, <2>4, <1>1 DEF TeamDone
  <2>6. B!Finish(w)
    BY <2>1, <2>2, <2>3, <2>5 DEF B!Finish, frame
  <2> QED
    BY <2>6, <1>1 DEF B!Next
<1>4. CASE ~WorkerSyncs(w)
  <2>1. pc[w] # "start" /\ pc[w] # "asleep"
    BY <1>4, Facts DEF WInv, PlacesInv, Places, WorkerStep, WorkerStarts, WorkerResumes,
                    WorkerRuns, WorkerEnds
  <2>2. UNCHANGED <<setup, frame, main>>
        /\ \E s \in {"fini", "run", "sync", "ended"} : pc' = [pc EXCEPT ![w] = s]
    BY <1>4, <2>1 DEF WorkerStep, WorkerStarts, WorkerResumes, WorkerRuns, WorkerEnds, WorkerTo
  <2>3. InTeam' = InTeam /\ pc \in [Workers -> Step] /\ InTeam \subseteq Stages
    BY <2>2, TeamFacts, Facts DEF setup, frame, InTeam, InOp, OpThreaded, MultiThreaded
  <2>4. \A i \in InTeam : i # 0 => i \in Workers
    BY <2>3 DEF Stages, Workers
  <2>5. TeamDone' = TeamDone
    BY <2>1, <2>2, <2>3, <2>4 DEF TeamDone
  <2> QED
    BY <2>2, <2>3, <2>5 DEF B!vars, frame
<1> QED
  BY <1>3, <1>4

LEMMA RecordsRefine ==
  ASSUME WInv, WInv', MainRecords \/ \E w \in Workers : WorkerRecords(w)
  PROVE  [B!Next]_(B!vars)
<1>1. PICK i \in Stages : /\ queued' = queued \cup {i} /\ i \in InTeam \ TeamDone
                          /\ UNCHANGED <<setup, main, pc, threaded>>
  <2>1. CASE MainRecords
    <3>1. 0 \in Stages /\ 0 \in InTeam \ TeamDone
      BY <2>1, Facts DEF MainRecords, Stages, InTeam, TeamDone, InOp
    <3> QED
      BY <2>1, <3>1 DEF MainRecords
  <2>2. ASSUME NEW w \in Workers, WorkerRecords(w)
        PROVE  w \in Stages /\ w \in InTeam \ TeamDone
    <3>1. pc[w] = "run" /\ w # 0 /\ w \in Stages
      BY <2>2 DEF WorkerRecords, Workers, Stages
    <3>2. TeamOp /\ w \in thread
      BY <3>1, Awake DEF WInv, PlacesInv, TeamOp, InOp
    <3> QED
      BY <3>1, <3>2, TeamFacts DEF TeamDone
  <2>3. ASSUME NEW w \in Workers, WorkerRecords(w)
        PROVE  queued' = queued \cup {w} /\ UNCHANGED <<setup, main, pc, threaded>>
    BY <2>3 DEF WorkerRecords
  <2> QED
    BY <2>1, <2>2, <2>3
<1>2. InTeam' = InTeam /\ TeamDone' = TeamDone
  BY <1>1 DEF setup, InTeam, TeamDone, InOp, OpThreaded, MultiThreaded
<1>3. B!Record(i)
  BY <1>1, <1>2 DEF B!Record
<1> QED
  BY <1>1, <1>3 DEF B!Next

\* An operation begins, for the team or for the main thread alone.
LEMMA BeginRefines ==
  ASSUME WInv, WInv', SignalWorkers \/ BeginOp
  PROVE  [B!Next]_(B!vars)
<1>1. ~InOp /\ queued = {} /\ queued' = queued
  BY DEF SignalWorkers, BeginOp, WInv, QueuedInv, InOp, frame
<1>2. CASE ~InOp'
  BY <1>1, <1>2, Stutters
<1>3. CASE InOp'
  <2>1. main' = "ops" /\ (OpThreaded' => SignalWorkers)
    BY <1>3 DEF SignalWorkers, BeginOp, Goto, InOp, OpThreaded, MultiThreaded, setup
  <2>2. InTeam = {} /\ TeamDone = {}
    BY <1>1 DEF InTeam, TeamDone
  <2>3. 0 \in InTeam' /\ InTeam' \subseteq Stages
    <3>1. stageCount' \in 1..MaxWorkers + 1
      BY DEF WInv, TypeOK
    <3>2. InTeam' = 0..stageCount' - 1 \/ InTeam' = {0}
      BY <1>3 DEF InTeam
    <3> QED
      BY <3>1, <3>2 DEF Stages
  <2>4. TeamDone' = {}
    <3> SUFFICES ASSUME NEW i \in InTeam', i # 0 PROVE pc'[i] # "asleep"
      BY <2>1 DEF TeamDone
    <3>1. OpThreaded' /\ i \in Workers /\ i \in 0..stageCount' - 1 /\ stageCount' \in Nat
      BY <1>3, <2>3, Facts, SMTT(20) DEF InTeam, Stages, Workers, WInv, TypeOK
    <3>2. SignalWorkers /\ stageCount' = stageCount /\ ~(stageCount <= 1)
      BY <2>1, <3>1 DEF SignalWorkers, setup
    <3>3. pc' = [w \in Workers |-> IF pc[w] = "asleep" THEN "woken" ELSE pc[w]]
      BY <3>2 DEF SignalWorkers, Broadcast
    <3> QED
      BY <3>1, <3>3
  <2>5. B!Open(InTeam')
    BY <1>1, <2>2, <2>3, <2>4 DEF B!Open
  <2> QED
    BY <2>3, <2>5 DEF B!Next
<1> QED
  BY <1>2, <1>3

LEMMA MainRunsRefines ==
  ASSUME WInv, MainRuns
  PROVE  [B!Next]_(B!vars)
<1>1. main = "ops" /\ main' = "sync" /\ UNCHANGED <<setup, frame, pc>>
  BY DEF MainRuns, Goto
<1>2. InTeam' = InTeam /\ 0 \in InTeam
  BY <1>1, Facts DEF setup, frame, InTeam, InOp, OpThreaded, MultiThreaded
<1>3. TeamDone' = TeamDone \cup {0} /\ 0 \notin TeamDone
  BY <1>1, <1>2 DEF TeamDone
<1>4. B!Finish(0) /\ 0 \in Stages
  BY <1>1, <1>2, <1>3 DEF B!Finish, frame, Stages
<1> QED
  BY <1>4 DEF B!Next

\* The operation ends when the whole team has finished.
LEMMA SyncRefines ==
  ASSUME WInv, WaitForSync \/ Synced
  PROVE  [B!Next]_(B!vars)
<1>1. InOp /\ main # "ops" /\ main' \in {"asleep", "merge"} /\ UNCHANGED <<setup, frame, pc>>
  BY DEF WaitForSync, Synced, Goto, InOp
<1>2. CASE main' = "asleep"
  <2>1. InTeam' = InTeam /\ TeamDone' = TeamDone
    BY <1>1, <1>2 DEF setup, frame, InTeam, TeamDone, InOp, OpThreaded, MultiThreaded
  <2> QED
    BY <1>1, <2>1 DEF B!vars, frame
<1>3. CASE main' = "merge"
  <2>1. ~TeamOp \/ waiting = stageCount - 1
    BY <1>3, Facts DEF WaitForSync, Synced, Goto, TeamOp, WInv, CountsInv
  <2>2. TeamDone = InTeam
    <3>1. CASE ~TeamOp
      BY <3>1, <1>1, Facts DEF TeamOp, InTeam, TeamDone
    <3>2. CASE TeamOp
      BY <3>2, <2>1, <1>1, TeamFacts, EveryoneWaits DEF TeamDone
    <3> QED
      BY <3>1, <3>2
  <2>3. InTeam # {} /\ InTeam' = {} /\ TeamDone' = {}
    <3>1. ~InOp' /\ stageCount \in 1..MaxWorkers + 1
      BY <1>3, Facts DEF InOp
    <3>2. 0 \in InTeam
      BY <1>1, <3>1 DEF InTeam
    <3> QED
      BY <3>1, <3>2 DEF InTeam, TeamDone
  <2>4. B!Close
    BY <1>1, <2>2, <2>3 DEF B!Close, frame
  <2> QED
    BY <2>4 DEF B!Next
<1> QED
  BY <1>1, <1>2, <1>3

LEMMA MergeRefines ==
  ASSUME WInv, MergeStage
  PROVE  [B!Next]_(B!vars)
<1>1. ~InOp /\ ~InOp' /\ queued' = queued \ {merged} /\ queued \subseteq Stages
  BY DEF MergeStage, Goto, InOp, WInv, TypeOK
<1>2. InTeam = {} /\ InTeam' = {} /\ TeamDone = {} /\ TeamDone' = {}
  BY <1>1 DEF InTeam, TeamDone
<1>3. CASE merged \in queued
  <2>1. B!Merge(merged)
    BY <1>1, <1>2, <1>3 DEF B!Merge
  <2> QED
    BY <1>1, <1>3, <2>1 DEF B!Next
<1>4. CASE merged \notin queued
  BY <1>1, <1>4, Stutters
<1> QED
  BY <1>3, <1>4

\* The other steps of the main thread are outside of operations.
LEMMA OtherSteps ==
  ASSUME WInv, WInv',
         \/ CreateTasks \/ WaitForWorkers \/ (\E mt, imm \in BOOLEAN : NextOp(mt, imm))
         \/ NoMoreOps \/ EndStartup \/ (\E progress \in BOOLEAN : EndRun(progress))
         \/ JoinWaits \/ JoinSignals \/ Join \/ Reconfigure \/ Call
  PROVE  UNCHANGED B!vars
<1>1. ~InOp /\ ~InOp' /\ queued' = queued
  BY DEF CreateTasks, WaitForWorkers, NextOp, NoMoreOps, EndStartup, EndRun, JoinWaits, JoinSignals,
         Join, Reconfigure, Call, ProgressStartup, Progress, SetThreads, Goto, InOp, frame,
         WInv, TypeOK
<1> QED
  BY <1>1, Stutters

\* The threads implement the supersteps of Barrier: the whole team finishes an
\* operation before any stage is merged, and all stages are merged before the
\* next one begins.
THEOREM ThreadsAreSupersteps == SafeSpec => B!SafeSpec
<1>1. Init => B!Init
  BY DEF Init, B!Init, InTeam, TeamDone, InOp
<1>2. ASSUME WInv, WInv', [Next]_vars PROVE [B!Next]_(B!vars)
  <2>1. ASSUME NEW w \in Workers, WorkerStep(w) PROVE [B!Next]_(B!vars)
    BY <1>2, <2>1, WorkerInside, WorkerOutside
  <2>2. CASE MainRecords \/ \E w \in Workers : WorkerRecords(w)
    BY <1>2, <2>2, RecordsRefine
  <2>3. CASE MainStep
    BY <1>2, <2>3, BeginRefines, MainRunsRefines, SyncRefines, MergeRefines, OtherSteps DEF MainStep
  <2>4. CASE Call
    BY <1>2, <2>4, OtherSteps
  <2>5. CASE UNCHANGED vars
    BY <2>5 DEF vars, setup, counters, frame, InTeam, TeamDone, InOp, OpThreaded, MultiThreaded, B!vars
  <2> QED
    BY <1>2, <2>1, <2>2, <2>3, <2>4, <2>5 DEF Next
<1> QED
  BY <1>1, <1>2, Invariance, PTL DEF SafeSpec, B!SafeSpec
=============================================================================
