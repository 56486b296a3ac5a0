--------------------------- MODULE ParallelTasks ---------------------------
(***************************************************************************)
(* parallel_task_runner.py: one ParallelTaskRunner that runs sub-missions  *)
(* concurrently.  Tasks form waves by their depends_on, a task takes the   *)
(* asyncio lock of every file in its scope, in path order, then a slot of  *)
(* the semaphore, and runs in a thread.  The coroutines of a wave start in *)
(* list order inside one turn of the event loop.                           *)
(*                                                                         *)
(* Tasks are their positions in the list; paths are numbers, ordered as    *)
(* the sorted path names are.                                              *)
(***************************************************************************)
EXTENDS Naturals, FiniteSets

CONSTANTS
  Tasks,            \* positions of the tasks in the list, a finite set of numbers
  Files,            \* the paths in their scopes, a finite set of numbers
  TaskPlans,            \* records [depends_on, file_scopes], each a function on Tasks
  max_concurrent,   \* slots of the semaphore
  MaxRuns           \* bound: calls of run() on one runner

ASSUME ParallelConstants ==
  /\ Tasks \subseteq Nat /\ IsFiniteSet(Tasks)
  /\ Files \subseteq Nat /\ IsFiniteSet(Files)
  /\ \A p \in TaskPlans : /\ p.file_scopes \in [Tasks -> SUBSET Files]
                          /\ p.depends_on \in [Tasks -> SUBSET Nat]
  /\ max_concurrent \in Nat \ {0}
  /\ MaxRuns \in Nat

VARIABLES
  taskPlan,    \* the tasks given to the current run()
  wave,        \* the tasks of the current gather
  placed,      \* tasks of this and earlier waves
  taskPhase,   \* task -> idle | locking | waiting | running | done
  heldLocks,   \* task -> the paths whose locks it holds
  failedIds,   \* _failed_task_ids
  taskResult,  \* task -> none | succeeded | failed | skipped
  runCalls     \* calls of run() so far

parallelVars == <<taskPlan, wave, placed, taskPhase, heldLocks, failedIds, taskResult, runCalls>>

TaskPhases == {"idle", "locking", "waiting", "running", "done"}
TaskResults == {"none", "succeeded", "failed", "skipped"}

\* The next wave: every task whose dependencies are in earlier waves, or all
\* that is left when there is none (a cycle, or a dependency nobody provides).
WaveAfter(p, before) ==
  LET left  == Tasks \ before
      ready == {t \in left : p.depends_on[t] \subseteq before}
  IN  IF ready = {} THEN left ELSE ready

\* Files claimed by two tasks that do not name each other in depends_on.
DetectFileConflicts(p) ==
  {f \in Files : \E a, b \in Tasks :
     /\ a # b
     /\ f \in p.file_scopes[a] \cap p.file_scopes[b]
     /\ a \notin p.depends_on[b] /\ b \notin p.depends_on[a]}

\* merge_results: the summary the supervisor reports.
WithResult(r) == {t \in Tasks : taskResult[t] = r}
AllSuccess == WithResult("failed") = {} /\ Tasks # {}
PartialSuccess == WithResult("succeeded") # {} /\ WithResult("failed") \cup WithResult("skipped") # {}

-----------------------------------------------------------------------------
ParallelInit ==
  /\ taskPlan \in TaskPlans
  /\ wave = {} /\ placed = {} /\ runCalls = 0
  /\ taskPhase = [t \in Tasks |-> "done"]
  /\ heldLocks = [t \in Tasks |-> {}]
  /\ failedIds = {}
  /\ taskResult = [t \in Tasks |-> "none"]

AllReturned == \A t \in Tasks : taskPhase[t] = "done"
RunnerIdle == AllReturned /\ (runCalls = 0 \/ placed = Tasks)

\* run() is called (again) on the runner, with a list of tasks of its own.
FailedAtStart_Kept == failedIds   \* mutant: of an earlier run() too
FailedAtStart == {}
CallRun ==
  /\ RunnerIdle /\ runCalls < MaxRuns
  /\ runCalls' = runCalls + 1
  /\ taskPlan' \in TaskPlans
  /\ wave' = WaveAfter(taskPlan', {}) /\ placed' = wave'
  /\ taskPhase' = [t \in Tasks |-> IF t \in wave' THEN "idle" ELSE "done"]
  /\ failedIds' = FailedAtStart
  /\ taskResult' = [t \in Tasks |-> "none"]
  /\ UNCHANGED heldLocks

\* The gather of a wave has returned: the next wave.
NextWave ==
  /\ runCalls > 0 /\ AllReturned /\ placed # Tasks
  /\ wave' = WaveAfter(taskPlan, placed)
  /\ placed' = placed \cup wave'
  /\ taskPhase' = [t \in Tasks |-> IF t \in wave' THEN "idle" ELSE "done"]
  /\ UNCHANGED <<taskPlan, heldLocks, failedIds, taskResult, runCalls>>

\* The coroutines of a wave start in list order.
EarlierStarted(t) == \A u \in wave : u < t => taskPhase[u] # "idle"
AllStarted == \A u \in wave : taskPhase[u] # "idle"

TaskReturned(t, r) ==
  /\ taskPhase' = [taskPhase EXCEPT ![t] = "done"]
  /\ heldLocks' = [heldLocks EXCEPT ![t] = {}]
  /\ taskResult' = [taskResult EXCEPT ![t] = r]
  /\ failedIds' = IF r = "succeeded" THEN failedIds ELSE failedIds \cup {t}
  /\ UNCHANGED <<taskPlan, wave, placed, runCalls>>

\* _run_one up to its first await: skipped when a dependency has failed.
RunOne(t) ==
  /\ taskPhase[t] = "idle" /\ EarlierStarted(t)
  /\ IF taskPlan.depends_on[t] \cap failedIds # {}
       THEN TaskReturned(t, "skipped")
       ELSE /\ taskPhase' = [taskPhase EXCEPT ![t] = "locking"]
            /\ UNCHANGED <<taskPlan, wave, placed, heldLocks, failedIds, taskResult, runCalls>>

\* Mutants of AcquireFileLock: the paths in any order; a lock taken twice.
Wanted(t) == taskPlan.file_scopes[t] \ heldLocks[t]
LockFree(f) == \A u \in Tasks : f \notin heldLocks[u]
AcquireFileLock_AnyOrder(t, f) ==
  /\ taskPhase[t] = "locking" /\ f \in Wanted(t) /\ LockFree(f)
  /\ heldLocks' = [heldLocks EXCEPT ![t] = @ \cup {f}]
  /\ UNCHANGED <<taskPlan, wave, placed, taskPhase, failedIds, taskResult, runCalls>>
AcquireFileLock_Shared(t, f) ==
  /\ taskPhase[t] = "locking" /\ f \in Wanted(t)
  /\ heldLocks' = [heldLocks EXCEPT ![t] = @ \cup {f}]
  /\ UNCHANGED <<taskPlan, wave, placed, taskPhase, failedIds, taskResult, runCalls>>
\* _acquire_file_locks: await the lock of the next path in sorted order.
AcquireFileLock(t, f) ==
  /\ taskPhase[t] = "locking"
  /\ f \in Wanted(t) /\ \A g \in Wanted(t) : f <= g
  /\ LockFree(f)
  /\ heldLocks' = [heldLocks EXCEPT ![t] = @ \cup {f}]
  /\ UNCHANGED <<taskPlan, wave, placed, taskPhase, failedIds, taskResult, runCalls>>

\* Every lock is held: wait for the semaphore.
LocksHeld(t) ==
  /\ taskPhase[t] = "locking" /\ Wanted(t) = {}
  /\ taskPhase' = [taskPhase EXCEPT ![t] = "waiting"]
  /\ UNCHANGED <<taskPlan, wave, placed, heldLocks, failedIds, taskResult, runCalls>>

\* A slot of the semaphore; the reasoning loop starts in a thread.
TakeSlot(t) ==
  /\ taskPhase[t] = "waiting"
  /\ Cardinality({u \in Tasks : taskPhase[u] = "running"}) < max_concurrent
  /\ taskPhase' = [taskPhase EXCEPT ![t] = "running"]
  /\ UNCHANGED <<taskPlan, wave, placed, heldLocks, failedIds, taskResult, runCalls>>

\* The reasoning loop returns or raises, slot and locks are given back.  Only
\* a loop that cannot even be constructed ends before the rest of the wave has
\* started.
TaskFinished(t, r) ==
  /\ taskPhase[t] = "running" /\ (AllStarted \/ r = "failed")
  /\ TaskReturned(t, r)

TaskStep(t) ==
  \/ RunOne(t)
  \/ \E f \in Files : AcquireFileLock(t, f)
  \/ LocksHeld(t)
  \/ TakeSlot(t)
  \/ \E r \in {"succeeded", "failed"} : TaskFinished(t, r)

ParallelNext == CallRun \/ NextWave \/ \E t \in Tasks : TaskStep(t)

\* The event loop runs every ready coroutine, and a reasoning loop ends (its
\* steps are bounded by max_steps).
ParallelFairness == WF_parallelVars(NextWave) /\ \A t \in Tasks : WF_parallelVars(TaskStep(t))

ParallelSpec == ParallelInit /\ [][ParallelNext]_parallelVars /\ ParallelFairness

-----------------------------------------------------------------------------
\* Reference: the tasks that can be ordered, those of some dependency-closed
\* set with a rank that every dependency lowers.
Orderable(p) ==
  UNION {O \in SUBSET Tasks : \E rank \in [O -> 1..Cardinality(Tasks)] :
           \A t \in O : \A d \in p.depends_on[t] : d \in O /\ rank[d] < rank[t]}

\* Types of the runner's state.
ParallelTypeOK ==
  /\ taskPlan \in TaskPlans
  /\ wave \subseteq placed /\ placed \subseteq Tasks
  /\ taskPhase \in [Tasks -> TaskPhases]
  /\ heldLocks \in [Tasks -> SUBSET Files]
  /\ failedIds \subseteq Tasks
  /\ taskResult \in [Tasks -> TaskResults]
  /\ runCalls \in 0..MaxRuns

\* A lock has one owner, and a task that runs holds the locks of its scope:
\* why two reasoning loops never write the same file (_acquire_file_locks).
LocksExclusive ==
  /\ \A t, u \in Tasks : t # u => heldLocks[t] \cap heldLocks[u] = {}
  /\ \A t \in Tasks : /\ heldLocks[t] \subseteq taskPlan.file_scopes[t]
                      /\ taskPhase[t] \in {"waiting", "running"} => heldLocks[t] = taskPlan.file_scopes[t]
                      /\ taskPhase[t] \in {"idle", "done"} => heldLocks[t] = {}

\* Unless no order exists for it, a task runs only after all the tasks it
\* depends on have succeeded (build_dependency_order and the skip of _run_one).
DependenciesFirst ==
  \A t \in Orderable(taskPlan) :
    taskPhase[t] \in {"locking", "waiting", "running"} => \A d \in taskPlan.depends_on[t] : taskResult[d] = "succeeded"

\* A summary that says all_success stands for tasks that all ran and succeeded,
\* although skipped tasks are not counted as failed (merge_results).
AllSuccessIsTrue ==
  runCalls > 0 /\ AllReturned /\ placed = Tasks /\ AllSuccess => WithResult("succeeded") = Tasks

\* Two tasks that contend for a file, both with an order, were reported before
\* the run (detect_file_conflicts skips the pairs "serialised via depends_on").
ContentionReported ==
  \A t, u \in wave \cap Orderable(taskPlan) :
    t # u /\ taskPhase[t] # "done" /\ taskPhase[u] # "done"
      => taskPlan.file_scopes[t] \cap taskPlan.file_scopes[u] \subseteq DetectFileConflicts(taskPlan)

\* What the supervisor may rely on when it runs tasks in parallel: order, locks,
\* the conflicts reported before the run and the summary reported after it.
RunnerSafe == LocksExclusive /\ DependenciesFirst /\ ContentionReported /\ AllSuccessIsTrue

\* The writers of a file as FileWriters sees them: the tasks running with the
\* file in their scope.  The runner implements the lock on files.
FileOwners == INSTANCE FileWriters WITH
  Writers <- Tasks,
  writing <- [f \in Files |-> {t \in Tasks : taskPhase[t] = "running" /\ f \in taskPlan.file_scopes[t]}]
OneWriterPerFile == FileOwners!Spec

\* run() returns: tasks that wait for locks and slots while holding locks never
\* wait for each other in a circle ("Locks are sorted by path to prevent deadlock").
RunReturns == runCalls > 0 ~> AllReturned /\ placed = Tasks
=============================================================================
