------------------------------ MODULE Workers ------------------------------
(***************************************************************************)
(* The worker threads of the pipeline addon of flecs.c and the main thread *)
(* that runs ecs_progress, ecs_run_pipeline and ecs_set_threads.           *)
(*                                                                         *)
(* Worker w runs the multi-threaded operations of the pipeline on stage w; *)
(* the main thread runs every operation on stage 0.  They meet through the *)
(* condition variables worker_cond and sync_cond and the two counters that *)
(* sync_mutex protects.  What a thread does under the mutex up to its wait *)
(* is one action.  Which systems an operation has is Pipeline's subject;   *)
(* here only whether it is multi-threaded matters.                         *)
(***************************************************************************)
EXTENDS Integers, FiniteSets

CONSTANTS
  MaxWorkers,  \* bound on the worker threads
  MaxOps       \* bound on the operations of one run of a pipeline

ASSUME ConstantsAssumption == MaxWorkers \in Nat /\ MaxOps \in Nat

Workers == 1..MaxWorkers
Stages == 0..MaxWorkers

VARIABLES
  stageCount,  \* world->stage_count
  savedCount,  \* stage_count during the startup systems, else 0
  taskApi,     \* world->workers_use_task_api
  cond,        \* worker_cond, sync_cond and sync_mutex: "none", "live", "freed"
  thread,      \* the stages whose thread handle is set
  running,     \* world->workers_running
  waiting,     \* world->workers_waiting
  quit,        \* EcsWorldQuitWorkers
  readonly,    \* EcsWorldReadonly
  threaded,    \* pq->cur_op->multi_threaded
  immediate,   \* pq->cur_op->immediate
  opsLeft,     \* operations the pipeline may still have
  queued,      \* the stages whose command queue is not empty
  merged,      \* how many stages flecs_stage_merge has done
  firstFrame,  \* info.frame_count_total == 0
  goal,        \* the <<threads, task>> of the ecs_set_threads in progress
  after,       \* where the main thread goes from flecs_join_worker_threads
  main,        \* where the main thread is
  pc           \* where each worker is

counters == <<running, waiting>>
setup == <<stageCount, savedCount, taskApi, cond, thread, firstFrame, goal, after>>
frame == <<readonly, threaded, immediate, opsLeft, queued, merged>>
vars == <<setup, counters, quit, frame, main, pc>>

\* world->worker_cond != 0, which stays true after the condition is freed
MultiThreaded == cond # "none"
OpThreaded == MultiThreaded /\ threaded
Team == 1..stageCount - 1

TypeOK ==
  /\ stageCount \in 1..MaxWorkers + 1 /\ savedCount \in 0..MaxWorkers + 1
  /\ taskApi \in BOOLEAN /\ cond \in {"none", "live", "freed"}
  /\ thread \subseteq Workers
  /\ running \in Nat /\ waiting \in Nat
  /\ {quit, readonly, threaded, immediate} \subseteq BOOLEAN
  /\ opsLeft \in 0..MaxOps /\ queued \subseteq Stages /\ merged \in 0..MaxWorkers + 1
  /\ firstFrame \in BOOLEAN
  /\ goal \in (0..MaxWorkers + 1) \X BOOLEAN /\ after \in {"idle", "reconfigure"}
  /\ main \in {"idle", "create", "ready", "update", "begin", "signal", "ops", "sync",
               "asleep", "woken", "merge", "end",
               "join", "quit", "joining", "reconfigure"}
  /\ pc \in [Workers -> {"none", "start", "asleep", "woken", "run", "sync", "fini", "ended"}]

Init ==
  /\ stageCount = 1 /\ savedCount = 0 /\ taskApi = FALSE /\ cond = "none"
  /\ thread = {} /\ firstFrame = TRUE /\ goal = <<1, FALSE>> /\ after = "idle"
  /\ running = 0 /\ waiting = 0 /\ quit = FALSE
  /\ readonly = FALSE /\ threaded = FALSE /\ immediate = FALSE /\ opsLeft = 0 /\ queued = {} /\ merged = 0
  /\ main = "idle" /\ pc = [w \in Workers |-> "none"]

Goto(step) == main' = step
WorkerTo(w, step) == pc' = [pc EXCEPT ![w] = step]

-----------------------------------------------------------------------------
(* External: the condition variables of the OS API. *)

Broadcast == pc' = [w \in Workers |-> IF pc[w] = "asleep" THEN "woken" ELSE pc[w]]
SignalMain == main' = IF main = "asleep" THEN "woken" ELSE main

\* POSIX: pthread_cond_wait may return without a signal.
SpuriousWorker(w) ==
  /\ pc[w] = "asleep"
  /\ WorkerTo(w, "woken")
  /\ UNCHANGED <<setup, counters, quit, frame, main>>

SpuriousMain ==
  /\ main = "asleep"
  /\ Goto("woken")
  /\ UNCHANGED <<setup, counters, quit, frame, pc>>

-----------------------------------------------------------------------------
(* A worker. *)

\* flecs_worker up to its first wait; a thread that starts late sees the flag.
WorkerStarts(w) ==
  /\ pc[w] = "start"
  /\ running' = running + 1
  /\ WorkerTo(w, IF quit THEN "woken" ELSE "asleep")
  /\ UNCHANGED <<setup, waiting, quit, frame, main>>

\* The test of the loop, outside of the mutex.
WorkerResumes(w) ==
  /\ pc[w] = "woken"
  /\ WorkerTo(w, IF quit THEN "fini" ELSE "run")
  /\ UNCHANGED <<setup, counters, quit, frame, main>>

\* A system records a command on the worker's stage.
WorkerRecords(w) ==
  /\ pc[w] = "run" /\ w \notin queued
  /\ queued' = queued \cup {w}
  /\ UNCHANGED <<setup, counters, quit, readonly, threaded, immediate, opsLeft, merged, main, pc>>

WorkerRuns(w) ==
  /\ pc[w] = "run"
  /\ WorkerTo(w, "sync")
  /\ UNCHANGED <<setup, counters, quit, frame, main>>

\* Mutant: the main thread is signalled by every worker.
WorkerSyncs_AlwaysSignals(w) ==
  /\ pc[w] = "sync"
  /\ waiting' = waiting + 1
  /\ SignalMain
  /\ WorkerTo(w, "asleep")
  /\ UNCHANGED <<setup, running, quit, frame>>

\* Mutant: the stage of the main thread is counted with the workers.
WorkerSyncs_CountsMain(w) ==
  /\ pc[w] = "sync"
  /\ waiting' = waiting + 1
  /\ IF waiting' = stageCount THEN SignalMain ELSE UNCHANGED main
  /\ WorkerTo(w, "asleep")
  /\ UNCHANGED <<setup, running, quit, frame>>

\* flecs_sync_worker
WorkerSyncs(w) ==
  /\ pc[w] = "sync"
  /\ IF stageCount <= 1
     THEN WorkerTo(w, "woken") /\ UNCHANGED <<waiting, main>>
     ELSE /\ waiting' = waiting + 1
          /\ IF waiting' = stageCount - 1 THEN SignalMain ELSE UNCHANGED main
          /\ WorkerTo(w, "asleep")
  /\ UNCHANGED <<setup, running, quit, frame>>

WorkerEnds(w) ==
  /\ pc[w] = "fini"
  /\ running' = running - 1
  /\ WorkerTo(w, "ended")
  /\ UNCHANGED <<setup, waiting, quit, frame, main>>

-----------------------------------------------------------------------------
(* ecs_progress and flecs_run_pipeline, on the main thread. *)

\* flecs_create_worker_threads
StartThreads(n) ==
  /\ thread' = 1..n - 1
  /\ pc' = [w \in Workers |-> IF w < n THEN "start" ELSE pc[w]]

\* The first frame runs the startup systems with stage_count set to 1.
ProgressStartup ==
  /\ main = "idle" /\ firstFrame
  /\ savedCount' = stageCount /\ stageCount' = 1
  /\ opsLeft' = MaxOps
  /\ Goto("ready")
  /\ UNCHANGED <<taskApi, cond, thread, firstFrame, goal, after, counters, quit, readonly,
                 threaded, immediate, queued, merged, pc>>

Progress ==
  /\ main = "idle"
  /\ opsLeft' = MaxOps
  /\ Goto("create")
  /\ UNCHANGED <<setup, counters, quit, readonly, threaded, immediate, queued, merged, pc>>

CreateTasks ==
  /\ main = "create"
  /\ IF taskApi THEN StartThreads(stageCount) ELSE UNCHANGED <<thread, pc>>
  /\ Goto("ready")
  /\ UNCHANGED <<stageCount, savedCount, taskApi, cond, firstFrame, goal, after, counters,
                 quit, frame>>

\* flecs_wait_for_workers tests the counter until it has the value.
AllRunning == stageCount <= 1 \/ running = stageCount - 1

WaitForWorkers ==
  /\ main = "ready" /\ AllRunning
  /\ Goto("update")
  /\ UNCHANGED <<setup, counters, quit, frame, pc>>

\* flecs_pipeline_update finds the next operation, or none.  A system that is
\* immediate must not be multi-threaded.
NextOp(mt, imm) ==
  /\ main = "update" /\ opsLeft > 0
  /\ ~(mt /\ imm)
  /\ threaded' = mt /\ immediate' = imm /\ opsLeft' = opsLeft - 1
  /\ Goto("begin")
  /\ UNCHANGED <<setup, counters, quit, readonly, queued, merged, pc>>

NoMoreOps ==
  /\ main = "update"
  /\ Goto("end")
  /\ UNCHANGED <<setup, counters, quit, frame, pc>>

\* ecs_readonly_begin, or flecs_defer_begin of stage 0 for an immediate system
BeginOp ==
  /\ main = "begin"
  /\ readonly' = ~immediate
  /\ Goto(IF OpThreaded THEN "signal" ELSE "ops")
  /\ UNCHANGED <<setup, counters, quit, threaded, immediate, opsLeft, queued, merged, pc>>

\* flecs_signal_workers
SignalWorkers ==
  /\ main = "signal"
  /\ IF stageCount <= 1 THEN UNCHANGED pc ELSE Broadcast
  /\ Goto("ops")
  /\ UNCHANGED <<setup, counters, quit, frame>>

MainRecords ==
  /\ main = "ops" /\ 0 \notin queued
  /\ queued' = queued \cup {0}
  /\ UNCHANGED <<setup, counters, quit, readonly, threaded, immediate, opsLeft, merged, main, pc>>

MainRuns ==
  /\ main = "ops"
  /\ Goto("sync")
  /\ UNCHANGED <<setup, counters, quit, frame, pc>>

\* Mutant: the main thread waits only if no worker waits yet.
WaitForSync_AnyWorker ==
  /\ main = "sync"
  /\ IF ~OpThreaded \/ stageCount <= 1
     THEN Goto("merge") /\ UNCHANGED waiting
     ELSE IF waiting = 0
          THEN Goto("asleep") /\ UNCHANGED waiting
          ELSE Goto("merge") /\ waiting' = 0
  /\ UNCHANGED <<setup, running, quit, frame, pc>>

\* flecs_wait_for_sync up to its wait, and the rest of it.
WaitForSync ==
  /\ main = "sync"
  /\ IF ~OpThreaded \/ stageCount <= 1
     THEN Goto("merge") /\ UNCHANGED waiting
     ELSE IF waiting # stageCount - 1
          THEN Goto("asleep") /\ UNCHANGED waiting
          ELSE Goto("merge") /\ waiting' = 0
  /\ UNCHANGED <<setup, running, quit, frame, pc>>

\* Mutant: the counter is not reset after the wait.
Synced_KeepsCount ==
  /\ main = "woken"
  /\ Goto("merge")
  /\ UNCHANGED <<setup, counters, quit, frame, pc>>

Synced ==
  /\ main = "woken"
  /\ waiting' = 0
  /\ Goto("merge")
  /\ UNCHANGED <<setup, running, quit, frame, pc>>

\* Mutant: the last stage is not merged.
MergeStage_OffByOne ==
  /\ main = "merge"
  /\ readonly' = FALSE
  /\ queued' = queued \ {merged}
  /\ IF immediate \/ merged + 2 >= stageCount
     THEN merged' = 0 /\ Goto("update")
     ELSE merged' = merged + 1 /\ UNCHANGED main
  /\ UNCHANGED <<setup, counters, quit, threaded, immediate, opsLeft, pc>>

\* ecs_readonly_end, then flecs_defer_end of one stage after the other; after
\* an immediate system, of stage 0.
MergeStage ==
  /\ main = "merge"
  /\ readonly' = FALSE
  /\ queued' = queued \ {merged}
  /\ IF immediate \/ merged + 1 = stageCount
     THEN merged' = 0 /\ Goto("update")
     ELSE merged' = merged + 1 /\ UNCHANGED main
  /\ UNCHANGED <<setup, counters, quit, threaded, immediate, opsLeft, pc>>

\* The startup systems are done: ecs_progress goes on with its pipeline.
EndStartup ==
  /\ main = "end" /\ savedCount > 0
  /\ stageCount' = savedCount /\ savedCount' = 0
  /\ opsLeft' = MaxOps
  /\ Goto("create")
  /\ UNCHANGED <<taskApi, cond, thread, firstFrame, goal, after, counters, quit, readonly,
                 threaded, immediate, queued, merged, pc>>

\* The end of ecs_run_pipeline, or of ecs_progress with ecs_frame_end; task
\* threads are joined.
EndRun(progress) ==
  /\ main = "end" /\ savedCount = 0
  /\ firstFrame' = (firstFrame /\ ~progress)
  /\ opsLeft' = 0
  /\ after' = "idle"
  /\ Goto(IF taskApi /\ thread # {} THEN "join" ELSE "idle")
  /\ UNCHANGED <<stageCount, savedCount, taskApi, cond, thread, goal, counters, quit,
                 readonly, threaded, immediate, queued, merged, pc>>

-----------------------------------------------------------------------------
(* ecs_set_threads, ecs_set_task_threads and flecs_join_worker_threads. *)

\* Mutant: workers_running tells whether there are threads to join, although
\* they may not have started yet.
SetThreads_TestsRunning(n, task) ==
  /\ main = "idle"
  /\ stageCount # n \/ taskApi # task
  /\ goal' = <<n, task>> /\ after' = "reconfigure"
  /\ Goto(IF stageCount > 1 /\ running > 0 THEN "join" ELSE "reconfigure")
  /\ UNCHANGED <<stageCount, savedCount, taskApi, cond, thread, firstFrame, counters, quit,
                 frame, pc>>

SetThreads(n, task) ==
  /\ main = "idle"
  /\ stageCount # n \/ taskApi # task
  /\ goal' = <<n, task>> /\ after' = "reconfigure"
  /\ Goto(IF stageCount > 1 /\ thread # {} THEN "join" ELSE "reconfigure")
  /\ UNCHANGED <<stageCount, savedCount, taskApi, cond, thread, firstFrame, counters, quit,
                 frame, pc>>

\* Make sure all threads are running, to ensure they catch the signal.
JoinWaits ==
  /\ main = "join" /\ AllRunning
  /\ quit' = TRUE
  /\ Goto("quit")
  /\ UNCHANGED <<setup, counters, frame, pc>>

JoinSignals ==
  /\ main = "quit"
  /\ IF stageCount <= 1 THEN UNCHANGED pc ELSE Broadcast
  /\ Goto("joining")
  /\ UNCHANGED <<setup, counters, quit, frame>>

\* External: ecs_os_thread_join and ecs_os_task_join wait for the thread's end.
Join ==
  /\ main = "joining"
  /\ \A w \in thread : pc[w] = "ended"
  /\ thread' = {} /\ pc' = [w \in Workers |-> IF w \in thread THEN "none" ELSE pc[w]]
  /\ quit' = FALSE
  /\ Goto(after)
  /\ UNCHANGED <<stageCount, savedCount, taskApi, cond, firstFrame, goal, after, counters,
                 frame>>

\* The rest of flecs_set_threads_internal: free and create the stages, the
\* conditions and the threads.
Reconfigure ==
  /\ main = "reconfigure"
  /\ LET n == goal[1]  task == goal[2] IN
     /\ taskApi' = task
     /\ IF n > 1
        THEN /\ stageCount' = n /\ cond' = "live"
             /\ IF task THEN UNCHANGED <<thread, pc>> ELSE StartThreads(n)
        ELSE /\ stageCount' = 1
             /\ cond' = IF stageCount > 1 THEN "freed" ELSE cond
             /\ UNCHANGED <<thread, pc>>
  /\ Goto("idle")
  /\ UNCHANGED <<savedCount, firstFrame, goal, after, counters, quit, frame>>

-----------------------------------------------------------------------------
WorkerStep(w) ==
  \/ WorkerStarts(w) \/ WorkerResumes(w) \/ WorkerRuns(w) \/ WorkerSyncs(w) \/ WorkerEnds(w)

\* What the main thread does once it is inside of a call.
MainStep ==
  \/ CreateTasks \/ WaitForWorkers \/ (\E mt, imm \in BOOLEAN : NextOp(mt, imm)) \/ NoMoreOps
  \/ BeginOp \/ SignalWorkers \/ MainRuns \/ WaitForSync \/ Synced \/ MergeStage \/ EndStartup
  \/ (\E progress \in BOOLEAN : EndRun(progress))
  \/ JoinWaits \/ JoinSignals \/ Join \/ Reconfigure

Call ==
  \/ ProgressStartup \/ Progress
  \/ \E n \in 0..MaxWorkers + 1, task \in BOOLEAN : SetThreads(n, task)

Next ==
  \/ \E w \in Workers : WorkerStep(w) \/ WorkerRecords(w)
  \/ MainStep \/ MainRecords
  \/ Call

\* Threads run on; whether a system records a command, or the application
\* calls again, is not fair.
Fairness == (\A w \in Workers : WF_vars(WorkerStep(w))) /\ WF_vars(MainStep)

SafeSpec == Init /\ [][Next]_vars
Spec == SafeSpec /\ Fairness

\* The same with the wake-ups that POSIX allows.
SpuriousSpec ==
  Init /\ [][Next \/ SpuriousMain \/ \E w \in Workers : SpuriousWorker(w)]_vars

-----------------------------------------------------------------------------
\* The stages that compute, and those of them that are done.
InOp == main \in {"ops", "sync", "asleep", "woken"}
InTeam == IF ~InOp THEN {} ELSE IF OpThreaded THEN 0..stageCount - 1 ELSE {0}
TeamDone ==
  {i \in InTeam : IF i = 0 THEN main # "ops" ELSE pc[i] = "asleep"}

\* The main thread merges, rebuilds the pipeline or changes the stages only
\* while no worker runs systems or is on its way to or from running them.
MergeExcludesWorkers ==
  ~InOp /\ ~quit => \A w \in Workers : pc[w] \in {"none", "start", "asleep", "ended"}

\* The assertions of flecs_run_pipeline and flecs_wait_for_sync: no worker
\* waits when an operation begins, all wait when the main thread is woken.
SyncCountExact ==
  /\ main \in {"begin", "signal"} => waiting = 0
  /\ main = "woken" => waiting = stageCount - 1

\* A stage, the conditions and the mutex are freed only after the threads
\* that use them have ended; the assertions after the join.
FreedUnused ==
  /\ \A w \in Workers : pc[w] # "none" => w \in thread /\ cond = "live"
  /\ main = "idle" => \A w \in thread : w < stageCount
  /\ main = "reconfigure" => thread = {} /\ running = 0

\* Commands that a worker recorded are merged before anything else happens.
NothingUnmerged == main \in {"idle", "update", "begin", "signal"} => queued = {}

\* No wake-up is lost and no thread waits for another for ever: every call
\* returns, with any number of threads.
CallsReturn == main # "idle" ~> main = "idle"

B == INSTANCE Barrier WITH
       Main <- 0, team <- InTeam, done <- TeamDone, outbox <- queued

\* The threads implement supersteps.
ImplementsBarrier == B!Spec
=============================================================================
