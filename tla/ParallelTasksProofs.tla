------------------------ MODULE ParallelTasksProofs ------------------------
(***************************************************************************)
(* The parallel task runner implements the lock on files, keeps the order  *)
(* of its tasks and sums its results up truly, for every list of tasks,    *)
(* every scope and every number of slots.                                  *)
(***************************************************************************)
EXTENDS ParallelTasks, FiniteSetTheorems, WellFoundedInduction, TLAPS

\* The inductive invariant: who holds which locks in which phase.
LockInv ==
  /\ taskPlan \in TaskPlans
  /\ taskPhase \in [Tasks -> TaskPhases]
  /\ heldLocks \in [Tasks -> SUBSET Files]
  /\ LocksExclusive

\* Nobody holds a lock before the first run().
LEMMA LockInvInit == ParallelInit => LockInv
BY ParallelConstants DEF ParallelInit, LockInv, LocksExclusive, TaskPhases

\* When a task returns, its locks are free and the others keep theirs.
LEMMA ReturnKeepsLocks ==
  ASSUME LockInv, NEW t \in Tasks, NEW r, TaskReturned(t, r) PROVE LockInv'
BY DEF LockInv, LocksExclusive, TaskReturned, TaskPhases

\* Between two waves no task holds a lock.
LEMMA WaveKeepsLocks ==
  ASSUME LockInv, AllReturned, taskPlan' \in TaskPlans, UNCHANGED heldLocks,
         taskPhase' = [t \in Tasks |-> IF t \in wave' THEN "idle" ELSE "done"]
  PROVE  LockInv'
<1>1. \A t \in Tasks : heldLocks'[t] = {}
  BY DEF LockInv, LocksExclusive, AllReturned
<1>2. \A t \in Tasks : taskPhase'[t] \in {"idle", "done"}
  OBVIOUS
<1>3. taskPhase' \in [Tasks -> TaskPhases]
  BY DEF TaskPhases
<1>4. \A t \in Tasks : taskPlan'.file_scopes[t] \in SUBSET Files
  BY ParallelConstants
<1> QED
  BY <1>1, <1>2, <1>3, <1>4 DEF LockInv, LocksExclusive

\* The steps of one task: a lock is taken when nobody has it, and a task waits
\* for the semaphore when it has all of its locks.
LEMMA TaskKeepsLocks ==
  ASSUME LockInv, NEW t \in Tasks, TaskStep(t) PROVE LockInv'
<1>1. taskPlan.file_scopes \in [Tasks -> SUBSET Files]
  BY ParallelConstants DEF LockInv
<1>2. CASE RunOne(t)
  BY <1>2, ReturnKeepsLocks DEF RunOne, LockInv, LocksExclusive, TaskPhases
<1>3. ASSUME NEW f \in Files, AcquireFileLock(t, f) PROVE LockInv'
  BY <1>1, <1>3 DEF AcquireFileLock, Wanted, LockFree, LockInv, LocksExclusive, TaskPhases
<1>4. CASE LocksHeld(t)
  BY <1>1, <1>4 DEF LocksHeld, Wanted, LockInv, LocksExclusive, TaskPhases
<1>5. CASE TakeSlot(t)
  BY <1>1, <1>5 DEF TakeSlot, LockInv, LocksExclusive, TaskPhases
<1>6. ASSUME NEW r \in {"succeeded", "failed"}, TaskFinished(t, r) PROVE LockInv'
  BY <1>6, ReturnKeepsLocks DEF TaskFinished
<1> QED
  BY <1>2, <1>3, <1>4, <1>5, <1>6 DEF TaskStep

\* Every step of the runner keeps the invariant.
LEMMA LockInvStep == LockInv /\ [ParallelNext]_parallelVars => LockInv'
<1> SUFFICES ASSUME LockInv, [ParallelNext]_parallelVars PROVE LockInv'
  OBVIOUS
<1>1. CASE CallRun
  BY <1>1, WaveKeepsLocks DEF CallRun, RunnerIdle
<1>2. CASE NextWave
  BY <1>2, WaveKeepsLocks DEF NextWave, LockInv
<1>3. CASE \E t \in Tasks : TaskStep(t)
  BY <1>3, TaskKeepsLocks
<1>4. CASE UNCHANGED parallelVars
  BY <1>4 DEF parallelVars, LockInv, LocksExclusive
<1> QED
  BY <1>1, <1>2, <1>3, <1>4 DEF ParallelNext

\* A lock has one owner, and a task that runs holds all the locks of its scope
\* (_acquire_file_locks and _release_file_locks).
THEOREM LocksAreExclusive == ParallelSpec => []LocksExclusive
<1>1. LockInv => LocksExclusive
  BY DEF LockInv
<1> QED
  BY <1>1, LockInvInit, LockInvStep, PTL DEF ParallelSpec

-----------------------------------------------------------------------------
(* The refinement.                                                         *)

\* The writers of a file, as FileWriters sees them.
WritersOf == [f \in Files |-> {t \in Tasks : taskPhase[t] = "running" /\ f \in taskPlan.file_scopes[t]}]

\* Before the first run() nobody writes.
LEMMA NoWriterInit == ParallelInit => FileOwners!Init
BY DEF ParallelInit, FileOwners!Init

\* A task that gets its slot enters all its files: whoever runs with one of
\* them would hold the same lock.
LEMMA SlotEnters ==
  ASSUME LockInv, NEW t \in Tasks, TakeSlot(t),
         NEW F \in SUBSET Files, F = taskPlan.file_scopes[t]
  PROVE  FileOwners!Enter(t, F)
<1>1. taskPlan.file_scopes \in [Tasks -> SUBSET Files]
  BY ParallelConstants DEF LockInv
<1>2. \A f \in taskPlan.file_scopes[t] : WritersOf[f] = {}
  <2> SUFFICES ASSUME NEW f \in taskPlan.file_scopes[t], NEW u \in Tasks,
                      taskPhase[u] = "running", f \in taskPlan.file_scopes[u]
               PROVE FALSE
    BY <1>1 DEF WritersOf
  <2>1. f \in heldLocks[t] /\ f \in heldLocks[u] /\ t # u
    BY DEF TakeSlot, LockInv, LocksExclusive
  <2> QED
    BY <2>1 DEF LockInv, LocksExclusive
<1>3. WritersOf' = [f \in Files |-> IF f \in taskPlan.file_scopes[t] THEN {t} ELSE WritersOf[f]]
  <2>1. /\ taskPlan' = taskPlan
        /\ \A u \in Tasks : taskPhase'[u] = "running" <=> (u = t \/ taskPhase[u] = "running")
    BY DEF TakeSlot, LockInv
  <2>2. \A f \in Files : WritersOf'[f] = IF f \in taskPlan.file_scopes[t] THEN {t} ELSE WritersOf[f]
    BY <1>2, <2>1 DEF WritersOf
  <2> QED
    BY <2>2 DEF WritersOf
<1> QED
  BY <1>2, <1>3 DEF FileOwners!Enter, WritersOf

\* A task that returns leaves its files.
LEMMA ReturnLeaves ==
  ASSUME LockInv, NEW t \in Tasks, NEW r, TaskReturned(t, r)
  PROVE  FileOwners!Leave(t)
<1>1. \A u \in Tasks : taskPhase'[u] = "running" <=> (u # t /\ taskPhase[u] = "running")
  BY DEF TaskReturned, LockInv
<1>2. taskPlan' = taskPlan
  BY DEF TaskReturned
<1>3. \A f \in Files : WritersOf'[f] = WritersOf[f] \ {t}
  BY <1>1, <1>2 DEF WritersOf
<1>4. WritersOf' = [f \in Files |-> WritersOf[f] \ {t}]
  BY <1>3 DEF WritersOf
<1> QED
  BY <1>4 DEF FileOwners!Leave, WritersOf

\* A step in which the same tasks run with the same plan is a stutter.
LEMMA SameRunners ==
  ASSUME taskPlan' = taskPlan, \A u \in Tasks : taskPhase'[u] = "running" <=> taskPhase[u] = "running"
  PROVE  WritersOf' = WritersOf
BY DEF WritersOf

\* Between two waves nobody writes.
LEMMA WaveStutters ==
  ASSUME AllReturned, taskPhase' = [t \in Tasks |-> IF t \in wave' THEN "idle" ELSE "done"]
  PROVE  WritersOf' = WritersOf
<1>1. \A t \in Tasks : taskPhase[t] # "running" /\ taskPhase'[t] # "running"
  BY DEF AllReturned
<1>2. WritersOf = [f \in Files |-> {}] /\ WritersOf' = [f \in Files |-> {}]
  BY <1>1 DEF WritersOf
<1> QED
  BY <1>2

\* Every step of the runner enters files, leaves them, or is a stutter.
LEMMA RefinesStep ==
  ASSUME LockInv, [ParallelNext]_parallelVars
  PROVE  FileOwners!Next \/ WritersOf' = WritersOf
<1>1. CASE CallRun
  BY <1>1, WaveStutters DEF CallRun, RunnerIdle
<1>2. CASE NextWave
  BY <1>2, WaveStutters DEF NextWave
<1>3. ASSUME NEW t \in Tasks, TaskStep(t) PROVE FileOwners!Next \/ WritersOf' = WritersOf
  <2>1. CASE \E r \in {"succeeded", "failed"} : TaskFinished(t, r)
    BY <2>1, ReturnLeaves DEF TaskFinished, FileOwners!Next
  <2>2. CASE TakeSlot(t)
    <3>1. taskPlan.file_scopes[t] \in SUBSET Files
      BY ParallelConstants DEF LockInv
    <3>2. PICK F \in SUBSET Files : F = taskPlan.file_scopes[t]
      BY <3>1
    <3>3. FileOwners!Enter(t, F)
      BY <2>2, <3>2, SlotEnters
    <3> QED
      BY <3>3 DEF FileOwners!Next
  <2>3. CASE RunOne(t)
    BY <2>3, ReturnLeaves, SameRunners DEF RunOne, FileOwners!Next, LockInv
  <2>4. CASE LocksHeld(t)
    BY <2>4, SameRunners DEF LocksHeld, LockInv
  <2>5. CASE \E f \in Files : AcquireFileLock(t, f)
    BY <2>5, SameRunners DEF AcquireFileLock
  <2> QED
    BY <1>3, <2>1, <2>2, <2>3, <2>4, <2>5 DEF TaskStep
<1>4. CASE UNCHANGED parallelVars
  BY <1>4, SameRunners DEF parallelVars
<1> QED
  BY <1>1, <1>2, <1>3, <1>4 DEF ParallelNext

\* ParallelTaskRunner implements FileWriters: two reasoning loops never write
\* the same file at the same time, whatever the dependencies say.
THEOREM RunnerImplementsFileWriters == ParallelSpec => OneWriterPerFile
<1>1. LockInv /\ [ParallelNext]_parallelVars
        => [FileOwners!Next]_([f \in Files |-> {t \in Tasks : taskPhase[t] = "running" /\ f \in taskPlan.file_scopes[t]}])
  BY RefinesStep DEF WritersOf
<1> QED
  BY <1>1, NoWriterInit, LockInvInit, LockInvStep, PTL DEF ParallelSpec, OneWriterPerFile, FileOwners!Spec

-----------------------------------------------------------------------------
(* The order of the tasks and their results.                               *)

\* A task under way is in the wave; the tasks of a wave that can be ordered
\* depend on earlier waves only.
WaveInv ==
  /\ \A t \in Tasks : taskPhase[t] # "done" => t \in wave
  /\ \A t \in wave \cap Orderable(taskPlan) : taskPlan.depends_on[t] \subseteq placed \ wave

\* The tasks that have returned have a result, what did not succeed is in
\* _failed_task_ids, and nothing is skipped unless something has failed.
ResultInv ==
  /\ \A t \in Tasks : taskResult[t] # "none" <=> t \in placed /\ taskPhase[t] = "done"
  /\ \A t \in Tasks : taskResult[t] \in {"failed", "skipped"} => t \in failedIds
  /\ failedIds # {} => WithResult("failed") # {}

\* The inductive invariant.
RunnerInv == ParallelTypeOK /\ LocksExclusive /\ WaveInv /\ ResultInv /\ DependenciesFirst

\* A set of numbers that is not empty has a smallest one.
LEMMA LeastNumber ==
  ASSUME NEW T, T \subseteq Nat, T # {}
  PROVE  \E x \in T : \A y \in T : x <= y
<1>1. PICK x \in T : \A y \in T : ~ (<<y, x>> \in OpToRel(<, Nat))
  BY NatLessThanWellFounded, WFMin
<1>2. \A y \in T : ~ (y < x)
  BY <1>1 DEF OpToRel
<1> QED
  BY <1>2

\* build_dependency_order never gives up on a task that has an order: of the
\* tasks left in an orderable set the one of least rank is ready, so a wave
\* with such a task is a wave of ready tasks.
LEMMA OrderableReady ==
  ASSUME NEW p, p \in TaskPlans, NEW before \in SUBSET Tasks, NEW t \in Orderable(p) \cap WaveAfter(p, before)
  PROVE  p.depends_on[t] \subseteq before
<1>1. PICK O \in SUBSET Tasks : t \in O /\ \E rank \in [O -> 1..Cardinality(Tasks)] :
           \A x \in O : \A d \in p.depends_on[x] : d \in O /\ rank[d] < rank[x]
  BY DEF Orderable
<1>2. PICK rank \in [O -> 1..Cardinality(Tasks)] :
           \A x \in O : \A d \in p.depends_on[x] : d \in O /\ rank[d] < rank[x]
  BY <1>1
<1>3. Cardinality(Tasks) \in Nat
  BY FS_CardinalityType, ParallelConstants
<1>4. \A x \in O : rank[x] \in Nat
  BY <1>2, <1>3
<1> DEFINE left == Tasks \ before
           ready == {x \in left : p.depends_on[x] \subseteq before}
           T == {rank[x] : x \in O \ before}
<1>5. WaveAfter(p, before) = IF ready = {} THEN left ELSE ready
  BY DEF WaveAfter
<1>6. CASE ready # {}
  BY <1>5, <1>6
<1>7. CASE ready = {}
  <2>1. t \in O \ before
    BY <1>1, <1>5, <1>7
  <2>2. T \subseteq Nat /\ T # {}
    BY <1>4, <2>1
  <2>3. PICK m \in T : \A y \in T : m <= y
    BY <2>2, LeastNumber
  <2>4. PICK x \in O \ before : rank[x] = m
    OBVIOUS
  <2>5. \A d \in p.depends_on[x] : d \in before
    <3> SUFFICES ASSUME NEW d \in p.depends_on[x], d \notin before PROVE FALSE
      OBVIOUS
    <3>1. d \in O /\ rank[d] < rank[x]
      BY <1>2
    <3>2. rank[d] \in T
      BY <3>1
    <3>3. rank[x] <= rank[d]
      BY <2>3, <2>4, <3>2
    <3> QED BY <1>4, <3>1, <3>3
  <2>6. x \in ready
    BY <1>1, <2>5
  <2> QED BY <1>7, <2>6
<1> QED BY <1>6, <1>7

\* A wave takes tasks that are left.
LEMMA WaveLeft == \A p, before : WaveAfter(p, before) \subseteq Tasks \ before
BY DEF WaveAfter

\* Nothing has been run before the first run().
LEMMA RunnerInvInit == ParallelInit => RunnerInv
<1> SUFFICES ASSUME ParallelInit PROVE RunnerInv
  OBVIOUS
<1> USE ParallelConstants DEF ParallelInit
<1>1. ParallelTypeOK
  BY DEF ParallelTypeOK, TaskPhases, TaskResults
<1>2. LocksExclusive
  BY LockInvInit DEF LockInv
<1>3. WaveInv
  BY DEF WaveInv
<1>4. ResultInv
  BY DEF ResultInv
<1>5. DependenciesFirst
  BY DEF DependenciesFirst, Orderable
<1> QED
  BY <1>1, <1>2, <1>3, <1>4, <1>5 DEF RunnerInv

\* A new wave, of this run or of a new one: its tasks are idle, all others have
\* returned.
LEMMA WaveKeepsRunner ==
  ASSUME RunnerInv, AllReturned, NEW p, p \in TaskPlans, NEW before \in SUBSET Tasks,
         taskPlan' = p, wave' = WaveAfter(p, before), placed' = before \cup wave', runCalls' \in 0..MaxRuns,
         taskPhase' = [t \in Tasks |-> IF t \in wave' THEN "idle" ELSE "done"], UNCHANGED heldLocks,
         failedIds' \subseteq Tasks, taskResult' \in [Tasks -> TaskResults],
         \A t \in Tasks : taskResult'[t] # "none" <=> t \in before,
         \A t \in Tasks : taskResult'[t] \in {"failed", "skipped"} => t \in failedIds',
         failedIds' # {} => WithResult("failed")' # {}
  PROVE  RunnerInv'
<1>1. wave' \subseteq Tasks \ before
  BY WaveLeft
<1>2. ParallelTypeOK'
  BY <1>1 DEF RunnerInv, ParallelTypeOK, TaskPhases
<1>3. LocksExclusive'
  BY WaveKeepsLocks DEF LockInv, RunnerInv, ParallelTypeOK
<1>4. WaveInv'
  <2>1. \A t \in wave' \cap Orderable(p) : p.depends_on[t] \subseteq before
    BY OrderableReady
  <2>2. before = placed' \ wave'
    BY <1>1
  <2>3. Orderable(taskPlan)' = Orderable(p)
    BY DEF Orderable
  <2>4. \A t \in Tasks : taskPhase'[t] # "done" => t \in wave'
    OBVIOUS
  <2> QED BY <2>1, <2>2, <2>3, <2>4 DEF WaveInv
<1>5. ResultInv'
  BY <1>1 DEF ResultInv
<1>6. DependenciesFirst'
  <2>1. \A t \in Tasks : taskPhase'[t] \notin {"locking", "waiting", "running"}
    OBVIOUS
  <2>2. Orderable(taskPlan)' \subseteq Tasks
    BY DEF Orderable
  <2> QED BY <2>1, <2>2 DEF DependenciesFirst
<1> QED
  BY <1>2, <1>3, <1>4, <1>5, <1>6 DEF RunnerInv

\* A task of the wave returns: what earlier waves have left stays as it is.
LEMMA ReturnKeepsRunner ==
  ASSUME RunnerInv, NEW t \in wave, t \in Tasks, taskPhase[t] # "done", NEW r \in {"succeeded", "failed", "skipped"},
         TaskReturned(t, r), r = "skipped" => failedIds # {}
  PROVE  RunnerInv'
<1> USE DEF RunnerInv
<1>1. /\ UNCHANGED <<taskPlan, wave, placed, runCalls>>
      /\ taskPhase' = [taskPhase EXCEPT ![t] = "done"] /\ taskResult' = [taskResult EXCEPT ![t] = r]
      /\ failedIds' = IF r = "succeeded" THEN failedIds ELSE failedIds \cup {t}
      /\ heldLocks' = [heldLocks EXCEPT ![t] = {}]
  BY DEF TaskReturned
<1>2. /\ \A u \in Tasks : u # t => taskResult'[u] = taskResult[u] /\ taskPhase'[u] = taskPhase[u]
      /\ taskResult'[t] = r /\ taskPhase'[t] = "done"
  BY <1>1 DEF ParallelTypeOK
<1>3. ParallelTypeOK'
  BY <1>1 DEF ParallelTypeOK, TaskPhases, TaskResults
<1>4. LocksExclusive'
  BY ReturnKeepsLocks DEF LockInv, ParallelTypeOK
<1>5. Orderable(taskPlan)' = Orderable(taskPlan) /\ Orderable(taskPlan) \subseteq Tasks
  BY <1>1 DEF Orderable
<1>6. WaveInv'
  BY <1>1, <1>2, <1>5 DEF WaveInv
<1>7. ResultInv'
  <2>1. \A u \in Tasks : taskResult'[u] # "none" <=> u \in placed' /\ taskPhase'[u] = "done"
    BY <1>1, <1>2 DEF ResultInv, ParallelTypeOK
  <2>2. \A u \in Tasks : taskResult'[u] \in {"failed", "skipped"} => u \in failedIds'
    BY <1>1, <1>2 DEF ResultInv
  <2>3. ASSUME failedIds' # {} PROVE WithResult("failed")' # {}
    <3>1. CASE r = "failed"
      BY <1>2, <3>1 DEF WithResult
    <3>2. CASE r # "failed"
      <4>1. failedIds # {}
        BY <1>1, <2>3, <3>2
      <4>2. PICK u \in Tasks : taskResult[u] = "failed"
        BY <4>1 DEF ResultInv, WithResult
      <4>3. u # t
        BY <4>2 DEF ResultInv
      <4> QED BY <1>2, <4>2, <4>3 DEF WithResult
    <3> QED BY <3>1, <3>2
  <2> QED BY <2>1, <2>2, <2>3 DEF ResultInv
<1>8. DependenciesFirst'
  <2> SUFFICES ASSUME NEW x \in Orderable(taskPlan), taskPhase'[x] \in {"locking", "waiting", "running"},
                      NEW d \in taskPlan.depends_on[x]
               PROVE  taskResult'[d] = "succeeded"
    BY <1>1, <1>5 DEF DependenciesFirst
  <2>1. x \in Tasks /\ x # t /\ taskPhase[x] \in {"locking", "waiting", "running"}
    BY <1>2, <1>5
  <2>2. x \in wave /\ d \in placed \ wave
    BY <2>1 DEF WaveInv
  <2>3. d \in Tasks /\ d # t
    BY <2>2 DEF ParallelTypeOK
  <2> QED BY <1>2, <2>1, <2>3 DEF DependenciesFirst
<1> QED BY <1>3, <1>4, <1>6, <1>7, <1>8

\* A task of the wave moves on without returning; when it starts to run, its
\* dependencies have returned, and have not failed.
LEMMA MoveKeepsRunner ==
  ASSUME RunnerInv, LocksExclusive', heldLocks' \in [Tasks -> SUBSET Files], NEW t \in Tasks, taskPhase[t] # "done",
         NEW ph \in {"locking", "waiting", "running"}, taskPhase' = [taskPhase EXCEPT ![t] = ph],
         UNCHANGED <<taskPlan, wave, placed, failedIds, taskResult, runCalls>>,
         taskPhase[t] = "idle" => taskPlan.depends_on[t] \cap failedIds = {}
  PROVE  RunnerInv'
<1> USE DEF RunnerInv
<1>1. taskPhase'[t] = ph /\ \A u \in Tasks : u # t => taskPhase'[u] = taskPhase[u]
  BY DEF ParallelTypeOK
<1>2. ParallelTypeOK'
  BY DEF ParallelTypeOK, TaskPhases
<1>3. Orderable(taskPlan)' = Orderable(taskPlan) /\ Orderable(taskPlan) \subseteq Tasks
  BY DEF Orderable
<1>4. WaveInv'
  BY <1>1, <1>3 DEF WaveInv
<1>5. ResultInv'
  <2>1. WithResult("failed")' = WithResult("failed")
    BY DEF WithResult
  <2>2. \A u \in Tasks : taskPhase'[u] = "done" <=> taskPhase[u] = "done"
    BY <1>1
  <2> QED BY <2>1, <2>2 DEF ResultInv
<1>6. DependenciesFirst'
  <2> SUFFICES ASSUME NEW x \in Orderable(taskPlan), taskPhase'[x] \in {"locking", "waiting", "running"},
                      NEW d \in taskPlan.depends_on[x]
               PROVE  taskResult[d] = "succeeded"
    BY <1>3 DEF DependenciesFirst
  <2>1. x \in Tasks
    BY <1>3
  <2>2. CASE taskPhase[x] \in {"locking", "waiting", "running"}
    BY <2>2 DEF DependenciesFirst
  <2>3. CASE taskPhase[x] \notin {"locking", "waiting", "running"}
    <3>1. x = t /\ taskPhase[x] = "idle"
      BY <1>1, <2>1, <2>3 DEF ParallelTypeOK, TaskPhases
    <3>2. d \in placed \ wave /\ d \in Tasks
      BY <2>1, <3>1 DEF WaveInv, ParallelTypeOK
    <3>3. taskResult[d] # "none" /\ d \notin failedIds
      BY <3>1, <3>2 DEF WaveInv, ResultInv
    <3>4. taskResult[d] \in TaskResults
      BY <3>2 DEF ParallelTypeOK
    <3> QED BY <3>2, <3>3, <3>4 DEF ResultInv, TaskResults
  <2> QED BY <2>2, <2>3
<1> QED BY <1>2, <1>4, <1>5, <1>6

\* Every step of the runner keeps the invariant.
LEMMA RunnerInvStep == RunnerInv /\ [ParallelNext]_parallelVars => RunnerInv'
<1> SUFFICES ASSUME RunnerInv, [ParallelNext]_parallelVars PROVE RunnerInv'
  OBVIOUS
<1>1. LockInv /\ LockInv'
  BY LockInvStep DEF RunnerInv, LockInv, ParallelTypeOK
<1>2. CASE CallRun
  <2> DEFINE none == [t \in Tasks |-> "none"]
  <2>1. /\ AllReturned /\ taskPlan' \in TaskPlans /\ {} \in SUBSET Tasks
        /\ wave' = WaveAfter(taskPlan', {}) /\ placed' = {} \cup wave'
        /\ taskPhase' = [t \in Tasks |-> IF t \in wave' THEN "idle" ELSE "done"] /\ UNCHANGED heldLocks
        /\ failedIds' = {} /\ taskResult' = none
    BY <1>2 DEF CallRun, RunnerIdle, FailedAtStart
  <2>2. runCalls' \in 0 .. MaxRuns
    BY <1>2, ParallelConstants DEF CallRun, RunnerInv, ParallelTypeOK
  <2>3. none \in [Tasks -> TaskResults] /\ \A t \in Tasks : none[t] = "none"
    BY DEF TaskResults
  <2> HIDE DEF none
  <2>4. /\ taskResult' \in [Tasks -> TaskResults] /\ \A t \in Tasks : taskResult'[t] # "none" <=> t \in {}
        /\ \A t \in Tasks : taskResult'[t] \in {"failed", "skipped"} => t \in failedIds'
    BY <2>1, <2>3
  <2> QED BY <2>1, <2>2, <2>4, WaveKeepsRunner
<1>3. CASE NextWave
  <2>1. /\ AllReturned /\ taskPlan' = taskPlan /\ wave' = WaveAfter(taskPlan, placed) /\ placed' = placed \cup wave'
        /\ taskPhase' = [t \in Tasks |-> IF t \in wave' THEN "idle" ELSE "done"]
        /\ UNCHANGED <<heldLocks, failedIds, taskResult, runCalls>>
    BY <1>3 DEF NextWave
  <2>2. /\ taskPlan \in TaskPlans /\ placed \in SUBSET Tasks /\ runCalls' \in 0 .. MaxRuns
        /\ failedIds' \subseteq Tasks /\ taskResult' \in [Tasks -> TaskResults]
    BY <2>1 DEF RunnerInv, ParallelTypeOK
  <2>3. /\ \A t \in Tasks : taskResult'[t] # "none" <=> t \in placed
        /\ \A t \in Tasks : taskResult'[t] \in {"failed", "skipped"} => t \in failedIds'
    BY <2>1 DEF RunnerInv, ResultInv, AllReturned
  <2>4. failedIds' # {} => WithResult("failed")' # {}
    BY <2>1 DEF RunnerInv, ResultInv, WithResult
  <2> QED BY <2>1, <2>2, <2>3, <2>4, WaveKeepsRunner
<1>4. ASSUME NEW t \in Tasks, TaskStep(t) PROVE RunnerInv'
  <2>1. LocksExclusive' /\ heldLocks' \in [Tasks -> SUBSET Files]
    BY <1>1 DEF LockInv
  <2>2. taskPhase[t] # "done"
    BY <1>4 DEF TaskStep, RunOne, AcquireFileLock, LocksHeld, TakeSlot, TaskFinished
  <2>3. t \in wave
    BY <2>2 DEF RunnerInv, WaveInv
  <2>4. CASE RunOne(t)
    <3>1. CASE taskPlan.depends_on[t] \cap failedIds # {}
      BY <2>2, <2>3, <2>4, <3>1, ReturnKeepsRunner DEF RunOne
    <3>2. CASE taskPlan.depends_on[t] \cap failedIds = {}
      BY <2>1, <2>2, <2>4, <3>2, MoveKeepsRunner DEF RunOne
    <3> QED BY <3>1, <3>2
  <2>5. ASSUME NEW f \in Files, AcquireFileLock(t, f) PROVE RunnerInv'
    <3>1. taskPhase[t] = "locking" /\ taskPhase' = [taskPhase EXCEPT ![t] = "locking"]
      BY <2>5 DEF AcquireFileLock, RunnerInv, ParallelTypeOK
    <3> QED BY <2>1, <2>5, <3>1, MoveKeepsRunner DEF AcquireFileLock
  <2>6. CASE LocksHeld(t)
    BY <2>1, <2>6, MoveKeepsRunner DEF LocksHeld
  <2>7. CASE TakeSlot(t)
    BY <2>1, <2>7, MoveKeepsRunner DEF TakeSlot
  <2>8. ASSUME NEW r \in {"succeeded", "failed"}, TaskFinished(t, r) PROVE RunnerInv'
    BY <2>2, <2>3, <2>8, ReturnKeepsRunner DEF TaskFinished
  <2> QED BY <1>4, <2>4, <2>5, <2>6, <2>7, <2>8 DEF TaskStep
<1>5. CASE UNCHANGED parallelVars
  BY <1>5 DEF parallelVars, RunnerInv, ParallelTypeOK, LocksExclusive, WaveInv, ResultInv, DependenciesFirst,
              WithResult, Orderable
<1> QED
  BY <1>2, <1>3, <1>4, <1>5 DEF ParallelNext

\* The tasks of a wave never depend on each other, so a file that two of them
\* share was reported.
LEMMA SharedFilesReported == RunnerInv => ContentionReported
<1> SUFFICES ASSUME RunnerInv, NEW t \in wave \cap Orderable(taskPlan), NEW u \in wave \cap Orderable(taskPlan), t # u,
                    NEW f \in taskPlan.file_scopes[t] \cap taskPlan.file_scopes[u]
             PROVE  f \in DetectFileConflicts(taskPlan)
  BY DEF ContentionReported
<1>1. t \in Tasks /\ u \in Tasks /\ taskPlan.file_scopes[t] \in SUBSET Files
  BY ParallelConstants DEF RunnerInv, ParallelTypeOK
<1>2. u \notin taskPlan.depends_on[t] /\ t \notin taskPlan.depends_on[u]
  BY DEF RunnerInv, WaveInv
<1> QED
  BY <1>1, <1>2 DEF DetectFileConflicts

\* When nothing has failed nothing was skipped either.
LEMMA SummaryIsTrue == RunnerInv => AllSuccessIsTrue
<1> SUFFICES ASSUME RunnerInv, AllReturned, placed = Tasks, WithResult("failed") = {}, NEW t \in Tasks
             PROVE  taskResult[t] = "succeeded"
  BY DEF AllSuccessIsTrue, AllSuccess, WithResult
<1>1. failedIds = {} /\ taskResult[t] # "none"
  BY DEF RunnerInv, ResultInv, AllReturned
<1>2. taskResult[t] \in TaskResults /\ taskResult[t] \notin {"failed", "skipped"}
  BY <1>1 DEF RunnerInv, ResultInv, ParallelTypeOK
<1> QED
  BY <1>1, <1>2 DEF TaskResults

\* What the supervisor relies on when it runs tasks in parallel: one owner of a
\* lock, dependencies before dependents, contention reported before the run, and
\* a summary that says all_success only when every task has succeeded.
THEOREM RunnerIsSafe == ParallelSpec => []RunnerSafe
<1>1. RunnerInv => RunnerSafe
  BY SharedFilesReported, SummaryIsTrue DEF RunnerInv, RunnerSafe
<1> QED
  BY <1>1, RunnerInvInit, RunnerInvStep, PTL DEF ParallelSpec

\* The runner's state stays in its sets.
THEOREM RunnerTypes == ParallelSpec => []ParallelTypeOK
<1>1. RunnerInv => ParallelTypeOK
  BY DEF RunnerInv
<1> QED
  BY <1>1, RunnerInvInit, RunnerInvStep, PTL DEF ParallelSpec
=============================================================================
