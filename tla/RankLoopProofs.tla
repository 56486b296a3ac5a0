--------------------------- MODULE RankLoopProofs ---------------------------
(***************************************************************************)
(* Theorems about RankLoop, for every configuration and every answer of    *)
(* the backend.                                                            *)
(***************************************************************************)
EXTENDS RankLoop, TLAPS

-----------------------------------------------------------------------------
(* Frames: what the exits of the worker and its plain moves leave alone.   *)

\* The local variables of run_rank_loop and the configuration are untouched.
LoopFrame == UNCHANGED <<cfg, loopVars>>

\* Every way out of supervisor.run goes to the MBOP hooks and leaves the loop alone.
Exit == pc' = "mbop" /\ LoopFrame

\* Blocked, cancelled and no-op returns are exits.
LEMMA Exits ==
  /\ Return => Exit
  /\ \A f : Blocked(f) => Exit
  /\ \A f : BlockedDirty(f) => Exit
  /\ \A f : BlockedClean(f) => Exit
  /\ Cancelled => Exit
  /\ CompleteNoop => Exit
  /\ \A s : HandleCapabilityLimit(s) => Exit
  /\ \A f : LimitOrBlocked(f) => Exit
<1>1. Return => Exit
  BY DEF Return, Exit, LoopFrame
<1>2. \A f : Blocked(f) => Exit
  BY <1>1 DEF Blocked
<1>3. \A f : BlockedDirty(f) => Exit
  BY <1>2 DEF BlockedDirty
<1>4. \A f : BlockedClean(f) => Exit
  BY <1>2 DEF BlockedClean
<1>5. Cancelled => Exit
  BY <1>1 DEF Cancelled
<1>6. CompleteNoop => Exit
  BY <1>1 DEF CompleteNoop
<1>7. \A s : HandleCapabilityLimit(s) => Exit
  BY <1>4 DEF HandleCapabilityLimit
<1>8. \A f : LimitOrBlocked(f) => Exit
  BY <1>4, <1>7 DEF LimitOrBlocked
<1> QED BY <1>1, <1>2, <1>3, <1>4, <1>5, <1>6, <1>7, <1>8

\* A plain move goes where it says and leaves the loop alone.
LEMMA Advances == \A l : Advance(l) => pc' = l /\ LoopFrame
BY DEF Advance, Goto, LoopFrame, loopVars

-----------------------------------------------------------------------------
(* The bound on attempts.                                                  *)

\* Where the cycle of the current attempt has not been counted yet ...
Uncounted == Preflight \cup Attempting \cup {"failed"}
\* ... and where it has.
Counted == Repairing \ {"failed"}

\* AttemptBound strengthened: the cycles are the finished attempts, plus one
\* while the repair of this attempt runs; the final extension has been used
\* only once the attempts have reached their bound.
LoopInv ==
  /\ cfg \in Configs
  /\ attempt \in Nat /\ attempt_limit \in Nat /\ repair_cycles \in Nat
  /\ extension_used \in BOOLEAN
  /\ 1 <= attempt /\ attempt <= attempt_limit
  /\ attempt <= cfg.max_repair_cycles + 1
  /\ repair_cycles <= cfg.max_repair_cycles
  /\ pc \in Uncounted => repair_cycles = attempt - 1
  /\ pc \in Counted => repair_cycles = attempt
  /\ extension_used => attempt = cfg.max_repair_cycles + 1

\* A step that leaves the loop's variables alone and does not enter the
\* counted or uncounted part from outside keeps the invariant.
Within ==
  /\ LoopFrame
  /\ pc' \in Uncounted => pc \in Uncounted
  /\ pc' \in Counted => pc \in Counted

\* A step that stays within the loop's phases and variables keeps the invariant.
LEMMA WithinKeepsLoopInv == LoopInv /\ Within => LoopInv'
BY DEF LoopInv, Within, LoopFrame, loopVars

USE DEF Uncounted, Counted, Preflight, Attempting, Repairing, Delivering

\* Leaving supervisor.run is such a step.
LEMMA ExitIsWithin == Exit => Within
BY DEF Exit, Within

\* Pre-flight and attempt steps.
LEMMA AttemptSteps ==
  \/ DependencyGate \/ GitStatus \/ BaselineTests \/ BaselineSmoke \/ PlanMission
  \/ StartAttempt \/ CreateBranch \/ RunReasoning \/ AfterReasoning \/ CollectDiff
  \/ ValidateAttempt \/ JudgeAttempt \/ RouteAttempt
  => Within
<1>1. DependencyGate => Within
  BY Exits, Advances, ExitIsWithin DEF DependencyGate, CancelOr, Within
<1>2. GitStatus => Within
  BY Exits, Advances, ExitIsWithin DEF GitStatus, CancelOr, Within
<1>3. BaselineTests => Within
  BY Exits, Advances, ExitIsWithin DEF BaselineTests, CancelOr, Within
<1>4. BaselineSmoke => Within
  BY Exits, Advances, ExitIsWithin DEF BaselineSmoke, CancelOr, Within
<1>5. PlanMission => Within
  BY Exits, Advances, ExitIsWithin DEF PlanMission, Within
<1>6. StartAttempt => Within
  BY Exits, Advances, ExitIsWithin DEF StartAttempt, CancelOr, Within
<1>7. CreateBranch => Within
  BY Exits, Advances, ExitIsWithin DEF CreateBranch, CancelOr, Within
<1>8. RunReasoning => Within
  BY DEF RunReasoning, Goto, Within, LoopFrame
<1>9. AfterReasoning => Within
  BY Exits, Advances, ExitIsWithin DEF AfterReasoning, CancelOr, Within
<1>10. CollectDiff => Within
  <2>1. UiContractLocked => Exit
    BY Exits DEF UiContractLocked
  <2> QED BY <2>1, ExitIsWithin DEF CollectDiff, Goto, Within, LoopFrame
<1>11. ValidateAttempt => Within
  <2>1. ValidateAttempt => pc' = "judge"
    BY Advances DEF ValidateAttempt, Goto
  <2>2. ValidateAttempt => pc = "validate" /\ LoopFrame
    BY Advances DEF ValidateAttempt, Goto, LoopFrame
  <2> QED BY <2>1, <2>2 DEF Within
<1>12. JudgeAttempt => Within
  BY Exits, ExitIsWithin DEF JudgeAttempt, Goto, Within, LoopFrame
<1>13. RouteAttempt => Within
  BY Exits, Advances, ExitIsWithin DEF RouteAttempt, Goto, Within, LoopFrame
<1> QED BY <1>1, <1>2, <1>3, <1>4, <1>5, <1>6, <1>7, <1>8, <1>9, <1>10, <1>11, <1>12, <1>13

\* Repair steps, but for the three that change the loop's variables or count.
LEMMA RepairSteps ==
  \/ Escalate \/ PrepareRepair \/ RepairReasoning \/ RepairDiff \/ RepairTests
  \/ RepairSmoke \/ RepairFailed
  => Within
<1>1. Escalate => Within
  BY DEF Escalate, Goto, Within, LoopFrame
<1>2. PrepareRepair => Within
  BY DEF PrepareRepair, Within, LoopFrame
<1>3. RepairReasoning => Within
  BY DEF RepairReasoning, Goto, Within, LoopFrame
<1>4. RepairDiff => Within
  <2>1. RepairDiff => pc = "repair_diff" /\ LoopFrame
    BY DEF RepairDiff, LoopFrame
  <2>2. RepairDiff => pc' \in {"repair_failed", "repaired", "repair_tests"}
    BY DEF RepairDiff, RestoreAndRetry, GiveUp, Reject, Retry, ReplaceByScaffold
  <2> QED BY <2>1, <2>2 DEF Within
<1>5. RepairTests => Within
  <2>1. RepairTests => pc = "repair_tests" /\ LoopFrame
    BY DEF RepairTests, LoopFrame
  <2>2. RepairTests => pc' \in {"repair_failed", "repaired", "repair_smoke"}
    BY DEF RepairTests, RestoreAndRetry, Retry
  <2> QED BY <2>1, <2>2 DEF Within
<1>6. RepairSmoke => Within
  BY DEF RepairSmoke, Within, LoopFrame
<1>7. RepairFailed => Within
  BY Exits, ExitIsWithin DEF RepairFailed
<1> QED BY <1>1, <1>2, <1>3, <1>4, <1>5, <1>6, <1>7

\* Delivery, the worker's end and its exceptions.
LEMMA DeliverySteps ==
  \/ CompleteRank \/ Commit \/ RecoverPatch \/ Push \/ WaitCi \/ Merge
  \/ PostMergeSmoke \/ Finalize \/ MbopPostRun \/ WorkerException
  => Within
<1> USE DEF AfterCommit
<1>1. CompleteRank => Within
  BY Exits, Advances, ExitIsWithin DEF CompleteRank, CancelOr, Within
<1>2. Commit => Within
  BY Exits, Advances, ExitIsWithin DEF Commit, NothingToCommit, Goto, Within, LoopFrame
<1>3. RecoverPatch => Within
  BY Exits, ExitIsWithin DEF RecoverPatch, Goto, Within, LoopFrame
<1>4. Push => Within
  BY DEF Push, Goto, Within, LoopFrame
<1>5. WaitCi => Within
  BY DEF WaitCi, AfterCi, Goto, Within, LoopFrame
<1>6. Merge => Within
  BY DEF Merge, Goto, Within, LoopFrame
<1>7. PostMergeSmoke => Within
  BY Exits, Advances, ExitIsWithin DEF PostMergeSmoke, Within
<1>8. Finalize => Within
  BY Exits, ExitIsWithin DEF Finalize
<1>9. MbopPostRun => Within
  BY DEF MbopPostRun, Within, LoopFrame
<1>10. WorkerException => Within
  BY Exits, ExitIsWithin DEF WorkerException
<1> QED BY <1>1, <1>2, <1>3, <1>4, <1>5, <1>6, <1>7, <1>8, <1>9, <1>10

\* The cancel API and the other processes do not touch the loop at all.
LEMMA OtherSteps == CancelRequest \/ CancelSteps \/ Environment => Within
BY DEF CancelRequest, CancelSteps, CancelTransition, CancelMark, CancelCleanup, Environment,
       TreeReverted, OtherSupervisor, Within, LoopFrame

\* What the configuration is known to satisfy.
LEMMA ConfigFacts ==
  ASSUME NEW c \in Configs
  PROVE  c.max_rank_attempts \in Nat \ {0} /\ c.max_repair_cycles \in Nat
BY ConfigsAssumption DEF ConfigType

\* A run starts with one attempt, no repair cycle and the configured limit.
LEMMA LoopInvInit == Init => LoopInv
<1> SUFFICES ASSUME Init PROVE LoopInv
  OBVIOUS
<1>1. /\ cfg \in Configs /\ pc = "start" /\ attempt = 1 /\ repair_cycles = 0
      /\ extension_used = FALSE /\ attempt_limit = cfg.max_rank_attempts
  BY DEF Init
<1>2. cfg.max_rank_attempts \in Nat \ {0} /\ cfg.max_repair_cycles \in Nat
  BY <1>1, ConfigFacts
<1>3. extension_used \in BOOLEAN /\ ~extension_used
  BY <1>1, Zenon
<1> QED BY <1>1, <1>2, <1>3 DEF LoopInv

\* A failed attempt with a cycle left is counted.
LEMMA FailedKeepsLoopInv == LoopInv /\ FailedAttempt => LoopInv'
<1> SUFFICES ASSUME LoopInv, FailedAttempt PROVE LoopInv'
  OBVIOUS
<1>1. CASE ~RepairAllowed
  BY <1>1, Exits, ExitIsWithin, WithinKeepsLoopInv DEF FailedAttempt
<1>2. CASE RepairAllowed
  <2>1. /\ pc = "failed" /\ pc' = "escalate" /\ repair_cycles' = repair_cycles + 1
        /\ UNCHANGED <<cfg, attempt, attempt_limit, extension_used>>
        /\ repair_cycles < cfg.max_repair_cycles
    BY <1>2 DEF FailedAttempt, RepairAllowed
  <2> QED BY <2>1, ConfigFacts DEF LoopInv
<1> QED BY <1>1, <1>2

\* The next attempt: at the limit there is a cycle left or the extension is unused.
LEMMA NextKeepsLoopInv == LoopInv /\ NextAttempt => LoopInv'
<1> SUFFICES ASSUME LoopInv, NextAttempt PROVE LoopInv'
  OBVIOUS
<1>1. /\ pc = "repaired" /\ pc' = "attempt" /\ attempt' = attempt + 1
      /\ UNCHANGED <<cfg, repair_cycles>>
  BY DEF NextAttempt, Goto
<1>2. repair_cycles = attempt /\ cfg.max_repair_cycles \in Nat
  BY <1>1, ConfigFacts DEF LoopInv
<1>3. ~extension_used
  BY <1>2 DEF LoopInv
<1>4. CASE attempt # attempt_limit
  BY <1>1, <1>2, <1>3, <1>4 DEF NextAttempt, LoopInv
<1>5. CASE attempt = attempt_limit /\ repair_cycles < cfg.max_repair_cycles
  BY <1>1, <1>2, <1>3, <1>5 DEF NextAttempt, LoopInv
<1>6. CASE attempt = attempt_limit /\ repair_cycles >= cfg.max_repair_cycles
  <2>0. ~(repair_cycles < cfg.max_repair_cycles)
    BY <1>2, <1>6 DEF LoopInv
  <2>1. attempt_limit' = attempt_limit + 1 /\ extension_used' = TRUE
    BY <1>3, <1>6, <2>0, Zenon DEF NextAttempt
  <2>2. extension_used' \in BOOLEAN
    BY <2>1, Zenon
  <2> QED BY <1>1, <1>2, <1>6, <2>1, <2>2 DEF LoopInv
<1> QED BY <1>2, <1>4, <1>5, <1>6 DEF LoopInv

\* Every step of the run, of a cancel call and of other processes keeps it.
LEMMA LoopInvStep == LoopInv /\ [Next]_vars => LoopInv'
<1> SUFFICES ASSUME LoopInv, [Next]_vars PROVE LoopInv'
  OBVIOUS
<1>1. CASE UNCHANGED vars
  BY <1>1 DEF LoopInv, vars, loopVars
<1>2. CASE Steps
  BY <1>2, AttemptSteps, RepairSteps, DeliverySteps, WithinKeepsLoopInv, FailedKeepsLoopInv,
     NextKeepsLoopInv DEF Steps
<1>3. CASE WorkerException
  BY <1>3, DeliverySteps, WithinKeepsLoopInv
<1>4. CASE CancelRequest \/ CancelSteps \/ Environment
  BY <1>4, OtherSteps, WithinKeepsLoopInv
<1> QED BY <1>1, <1>2, <1>3, <1>4 DEF Next, Worker, Terminating

\* Spec => []AttemptBound: for every max_rank_attempts and max_repair_cycles the
\* loop of run_rank_loop makes at most max_repair_cycles + 1 attempts and never
\* falls out of its while condition.
THEOREM AttemptsBounded == Spec => []AttemptBound
<1>1. LoopInv => AttemptBound
  BY DEF LoopInv, AttemptBound
<1> QED BY <1>1, LoopInvInit, LoopInvStep, PTL DEF Spec
-----------------------------------------------------------------------------
(* Delivery: the merge gate and the effect of a cancel request.            *)

\* The worker has not begun to deliver.
Working == Preflight \cup Attempting \cup Repairing \cup {"complete"}

\* A quiet step delivers nothing: it stays where it is, moves on among the places
\* before delivery, or leaves supervisor.run.
Quiet ==
  /\ UNCHANGED <<cfg, delivery>>
  /\ \/ pc' = pc
     \/ pc \in Working /\ pc' \in Working
     \/ pc' \in {"mbop", "done"}

\* Every way out of supervisor.run is quiet, and so is a plain move.
LEMMA QuietExits ==
  /\ Return => Quiet
  /\ \A f : Blocked(f) => Quiet
  /\ \A f : BlockedDirty(f) => Quiet
  /\ \A f : BlockedClean(f) => Quiet
  /\ Cancelled => Quiet
  /\ CompleteNoop => Quiet
  /\ \A s : HandleCapabilityLimit(s) => Quiet
  /\ \A f : LimitOrBlocked(f) => Quiet
<1>1. Return => Quiet
  BY DEF Return, Quiet, deliveryVars
<1>2. \A f : Blocked(f) => Quiet
  BY <1>1 DEF Blocked
<1>3. \A f : BlockedDirty(f) => Quiet
  BY <1>2 DEF BlockedDirty
<1>4. \A f : BlockedClean(f) => Quiet
  BY <1>2 DEF BlockedClean
<1>5. Cancelled => Quiet
  BY <1>1 DEF Cancelled
<1>6. CompleteNoop => Quiet
  BY <1>1 DEF CompleteNoop
<1>7. \A s : HandleCapabilityLimit(s) => Quiet
  BY <1>4 DEF HandleCapabilityLimit
<1>8. \A f : LimitOrBlocked(f) => Quiet
  BY <1>4, <1>7 DEF LimitOrBlocked
<1> QED BY <1>1, <1>2, <1>3, <1>4, <1>5, <1>6, <1>7, <1>8

\* A plain move delivers nothing.
LEMMA QuietAdvances == \A l : Advance(l) => pc' = l /\ UNCHANGED <<cfg, delivery>>
BY DEF Advance, Goto

\* Pre-flight and attempts are quiet.
LEMMA QuietAttempts ==
  \/ DependencyGate \/ GitStatus \/ BaselineTests \/ BaselineSmoke \/ PlanMission
  \/ StartAttempt \/ CreateBranch \/ RunReasoning \/ AfterReasoning \/ CollectDiff
  \/ ValidateAttempt \/ JudgeAttempt \/ RouteAttempt
  => Quiet
<1> USE DEF Working
<1>1. DependencyGate => Quiet
  BY QuietExits, QuietAdvances DEF DependencyGate, CancelOr, Quiet
<1>2. GitStatus => Quiet
  BY QuietExits, QuietAdvances DEF GitStatus, CancelOr, Quiet
<1>3. BaselineTests => Quiet
  BY QuietExits, QuietAdvances DEF BaselineTests, CancelOr, Quiet
<1>4. BaselineSmoke => Quiet
  BY QuietExits, QuietAdvances DEF BaselineSmoke, CancelOr, Quiet
<1>5. PlanMission => Quiet
  BY QuietExits, QuietAdvances DEF PlanMission, Quiet
<1>6. StartAttempt => Quiet
  BY QuietExits, QuietAdvances DEF StartAttempt, CancelOr, Quiet
<1>7. CreateBranch => Quiet
  BY QuietExits, QuietAdvances DEF CreateBranch, CancelOr, Quiet
<1>8. RunReasoning => Quiet
  BY DEF RunReasoning, Goto, Quiet
<1>9. AfterReasoning => Quiet
  BY QuietExits, QuietAdvances DEF AfterReasoning, CancelOr, Quiet
<1>10. CollectDiff => Quiet
  <2>1. UiContractLocked => Quiet
    BY QuietExits DEF UiContractLocked
  <2> QED BY <2>1 DEF CollectDiff, Goto, Quiet
<1>11. ValidateAttempt => Quiet
  <2>1. ValidateAttempt => pc = "validate" /\ pc' = "judge"
    BY QuietAdvances DEF ValidateAttempt, Goto
  <2>2. ValidateAttempt => UNCHANGED <<cfg, delivery>>
    BY QuietAdvances DEF ValidateAttempt, Goto
  <2> QED BY <2>1, <2>2 DEF Quiet
<1>12. JudgeAttempt => Quiet
  BY QuietExits DEF JudgeAttempt, Goto, Quiet
<1>13. RouteAttempt => Quiet
  BY QuietExits, QuietAdvances DEF RouteAttempt, Goto, Quiet
<1> QED BY <1>1, <1>2, <1>3, <1>4, <1>5, <1>6, <1>7, <1>8, <1>9, <1>10, <1>11, <1>12, <1>13

\* Repair cycles are quiet.
LEMMA QuietRepairs ==
  \/ FailedAttempt \/ Escalate \/ PrepareRepair \/ RepairReasoning \/ RepairDiff
  \/ RepairTests \/ RepairSmoke \/ RepairFailed \/ NextAttempt
  => Quiet
<1> USE DEF Working, deliveryVars
<1>1. FailedAttempt => Quiet
  BY QuietExits DEF FailedAttempt, Quiet
<1>2. Escalate => Quiet
  BY DEF Escalate, Goto, Quiet
<1>3. PrepareRepair => Quiet
  BY DEF PrepareRepair, Quiet
<1>4. RepairReasoning => Quiet
  BY DEF RepairReasoning, Goto, Quiet
<1>5. RepairDiff => Quiet
  <2>1. RepairDiff => pc = "repair_diff" /\ UNCHANGED <<cfg, delivery>>
    BY DEF RepairDiff
  <2>2. RepairDiff => pc' \in {"repair_failed", "repaired", "repair_tests"}
    BY DEF RepairDiff, RestoreAndRetry, GiveUp, Reject, Retry, ReplaceByScaffold
  <2> QED BY <2>1, <2>2 DEF Quiet
<1>6. RepairTests => Quiet
  <2>1. RepairTests => pc = "repair_tests" /\ UNCHANGED <<cfg, delivery>>
    BY DEF RepairTests
  <2>2. RepairTests => pc' \in {"repair_failed", "repaired", "repair_smoke"}
    BY DEF RepairTests, RestoreAndRetry, Retry
  <2> QED BY <2>1, <2>2 DEF Quiet
<1>7. RepairSmoke => Quiet
  BY DEF RepairSmoke, Quiet
<1>8. RepairFailed => Quiet
  BY QuietExits DEF RepairFailed
<1>9. NextAttempt => Quiet
  BY DEF NextAttempt, Goto, Quiet
<1> QED BY <1>1, <1>2, <1>3, <1>4, <1>5, <1>6, <1>7, <1>8, <1>9

\* The worker's end and exceptions, the cancel call and other processes are quiet.
LEMMA QuietOthers ==
  \/ Finalize \/ MbopPostRun \/ WorkerException \/ CancelRequest \/ CancelSteps \/ Environment
  => Quiet
<1> USE DEF deliveryVars
<1>1. Finalize \/ MbopPostRun \/ WorkerException => Quiet
  BY QuietExits DEF Finalize, MbopPostRun, WorkerException, Quiet
<1>2. CancelRequest \/ CancelSteps \/ Environment => Quiet
  BY DEF CancelRequest, CancelSteps, CancelTransition, CancelMark, CancelCleanup, Environment,
         TreeReverted, OtherSupervisor, Quiet
<1> QED BY <1>1, <1>2

\* MergeGate strengthened by what is known at every place of complete_rank: what
\* the configuration allowed on the way there, and what has not been done yet.
DeliveryInv ==
  /\ delivery = [content |-> delivery.content, committed |-> delivery.committed,
                 recovered |-> delivery.recovered, pushed |-> delivery.pushed,
                 ci |-> delivery.ci, merged |-> delivery.merged]
  /\ MergeGate
  /\ pc \in Working \cup {"commit", "recover", "push"} =>
       ~delivery.pushed /\ ~delivery.ci /\ ~delivery.merged
  /\ pc \in {"commit", "recover"} => ~cfg.dry_run
  /\ pc \in {"push", "ci"} => delivery.committed /\ cfg.allow_github_pr /\ ~cfg.dry_run
  /\ pc = "ci" => ~delivery.ci /\ ~delivery.merged
  /\ pc = "merge" => delivery.ci /\ cfg.allow_merge_if_green

\* A quiet step keeps the invariant.
LEMMA QuietKeepsDeliveryInv == DeliveryInv /\ Quiet => DeliveryInv'
BY DEF DeliveryInv, MergeGate, Quiet, Working

\* The steps of complete_rank keep it: commit, patch recovery, push, CI, merge.
LEMMA DeliveryKeepsDeliveryInv ==
  /\ DeliveryInv
  /\ CompleteRank \/ Commit \/ RecoverPatch \/ Push \/ WaitCi \/ Merge \/ PostMergeSmoke
  => DeliveryInv'
<1> SUFFICES ASSUME DeliveryInv,
                    CompleteRank \/ Commit \/ RecoverPatch \/ Push \/ WaitCi \/ Merge
                      \/ PostMergeSmoke
             PROVE  DeliveryInv'
  OBVIOUS
<1> USE DEF AfterCommit, Working
<1>1. CASE CompleteRank
  <2>1. CASE Cancelled
    BY <2>1, QuietExits, QuietKeepsDeliveryInv
  <2>2. CASE Advance(IF cfg.dry_run THEN "finalize" ELSE "commit")
    BY <1>1, <2>2, QuietAdvances DEF CompleteRank, DeliveryInv, MergeGate
  <2> QED BY <1>1, <2>1, <2>2 DEF CompleteRank, CancelOr
<1>2. CASE Commit
  <2>1. CASE BlockedDirty("infrastructure_bug")
    BY <2>1, QuietExits, QuietKeepsDeliveryInv
  <2>2. CASE Advance("recover")
    BY <1>2, <2>2, QuietAdvances DEF Commit, DeliveryInv, MergeGate
  <2>3. CASE /\ delivery' = [delivery EXCEPT !.content = Committed(tree), !.committed = TRUE]
             /\ Goto(AfterCommit)
    BY <1>2, <2>3 DEF Commit, Goto, DeliveryInv, MergeGate
  <2> QED BY <1>2, <2>1, <2>2, <2>3 DEF Commit, NothingToCommit
<1>3. CASE RecoverPatch
  <2>1. CASE Blocked("infrastructure_bug") \/ BlockedDirty("infrastructure_bug")
    BY <2>1, QuietExits, QuietKeepsDeliveryInv
  <2>2. CASE /\ delivery' = [delivery EXCEPT !.content = patch, !.committed = TRUE,
                                             !.recovered = TRUE]
             /\ Goto(AfterCommit)
    BY <1>3, <2>2 DEF RecoverPatch, Goto, DeliveryInv, MergeGate
  <2> QED BY <1>3, <2>1, <2>2 DEF RecoverPatch
<1>4. CASE Push
  BY <1>4 DEF Push, Goto, DeliveryInv, MergeGate
<1>5. CASE WaitCi
  BY <1>5 DEF WaitCi, AfterCi, Goto, DeliveryInv, MergeGate
<1>6. CASE Merge
  BY <1>6 DEF Merge, Goto, DeliveryInv, MergeGate
<1>7. CASE PostMergeSmoke
  <2>1. CASE Return
    BY <2>1, QuietExits, QuietKeepsDeliveryInv
  <2>2. CASE Advance("finalize")
    BY <1>7, <2>2, QuietAdvances DEF PostMergeSmoke, DeliveryInv, MergeGate
  <2> QED BY <1>7, <2>1, <2>2 DEF PostMergeSmoke
<1> QED BY <1>1, <1>2, <1>3, <1>4, <1>5, <1>6, <1>7

\* Every step keeps it.
LEMMA DeliveryInvStep == DeliveryInv /\ [Next]_vars => DeliveryInv'
<1> SUFFICES ASSUME DeliveryInv, [Next]_vars PROVE DeliveryInv'
  OBVIOUS
<1>1. CASE UNCHANGED vars
  BY <1>1, QuietKeepsDeliveryInv DEF Quiet, vars, deliveryVars
<1>2. CASE Steps
  BY <1>2, QuietAttempts, QuietRepairs, QuietOthers, QuietKeepsDeliveryInv,
     DeliveryKeepsDeliveryInv DEF Steps
<1>3. CASE WorkerException \/ CancelRequest \/ CancelSteps \/ Environment
  BY <1>3, QuietOthers, QuietKeepsDeliveryInv
<1> QED BY <1>1, <1>2, <1>3 DEF Next, Worker, Terminating

\* Spec => []MergeGate: for every configuration and every answer of git, GitHub
\* and CI, a merge has behind it a commit that was pushed and found green, in a
\* run that was allowed to open a PR and to merge it.
THEOREM MergesGated == Spec => []MergeGate
<1>1. Init => DeliveryInv
  <2> SUFFICES ASSUME Init PROVE DeliveryInv
    OBVIOUS
  <2>1. pc = "start" /\ delivery = NoDelivery
    BY DEF Init
  <2>2. ~delivery.pushed /\ ~delivery.ci /\ ~delivery.merged
    BY <2>1, Zenon DEF NoDelivery
  <2>3. delivery = [content |-> delivery.content, committed |-> delivery.committed,
                    recovered |-> delivery.recovered, pushed |-> delivery.pushed,
                    ci |-> delivery.ci, merged |-> delivery.merged]
    BY <2>1 DEF NoDelivery
  <2> QED BY <2>1, <2>2, <2>3 DEF DeliveryInv, MergeGate
<1>2. DeliveryInv => MergeGate
  BY DEF DeliveryInv
<1> QED BY <1>1, <1>2, DeliveryInvStep, PTL DEF Spec

\* Spec => CancelStopsDelivery: whatever both threads and the backend do, no way
\* leads from a set cancel flag into commit, push or merge.
THEOREM CancelStops == Spec => CancelStopsDelivery
<1>1. ASSUME [Next]_vars, cancel_requested, pc \notin Delivering
      PROVE  pc' \notin Delivering
  <2> USE DEF Working
  <2>1. Quiet => pc' \notin Delivering
    BY <1>1 DEF Quiet
  <2>2. CASE UNCHANGED vars
    BY <1>1, <2>2 DEF vars
  <2>3. CASE CompleteRank
    BY <1>1, <2>1, <2>3, QuietExits DEF CompleteRank, CancelOr
  <2>4. CASE Commit \/ RecoverPatch \/ Push \/ WaitCi \/ Merge \/ PostMergeSmoke
    BY <1>1, <2>4 DEF Commit, RecoverPatch, Push, WaitCi, Merge, PostMergeSmoke
  <2>5. CASE Steps /\ ~CompleteRank
                   /\ ~(Commit \/ RecoverPatch \/ Push \/ WaitCi \/ Merge \/ PostMergeSmoke)
    BY <2>1, <2>5, QuietAttempts, QuietRepairs, QuietOthers DEF Steps
  <2>6. CASE WorkerException \/ CancelRequest \/ CancelSteps \/ Environment
    BY <2>1, <2>6, QuietOthers
  <2> QED BY <1>1, <2>2, <2>3, <2>4, <2>5, <2>6 DEF Next, Worker, Terminating
<1>2. [Next]_vars => [cancel_requested /\ pc \notin Delivering => pc' \notin Delivering]_vars
  BY <1>1
<1> QED BY <1>2, PTL DEF Spec, CancelStopsDelivery

-----------------------------------------------------------------------------
(* Types.  The sets below name the domains that TypeOK gives its variables. *)

Outcomes == {"", "Completed", "Blocked", "Cancelled"}
SignalType == [CapabilitySignals -> Nat]
EffortType ==
  /\ same \in [count : Nat, last : Failures \cup {""}]
  /\ spent \in Nat
  /\ escalation \in [calls : Nat, usd : Nat]
DeliveryType ==
  [content : TreeType, committed : BOOLEAN, recovered : BOOLEAN,
   pushed : BOOLEAN, ci : BOOLEAN, merged : BOOLEAN]
RunTypes == status \in Statuses /\ outcome \in Outcomes /\ failure_class \in FailureClasses
LoopTypes ==
  /\ attempt \in Nat \ {0} /\ attempt_limit \in Nat /\ repair_cycles \in Nat
  /\ extension_used \in BOOLEAN
WorkTypes == tree \in TreeType /\ patch \in TreeType /\ validated \in TreeType
DeliveryTypes == delivery \in DeliveryType /\ recorded \subseteq Statuses
Cancellers == {"idle", "requested", "cancelling", "cleaning", "finished"}

\* TypeOK, group by group.
LEMMA TypeGroups ==
  TypeOK <=> /\ cfg \in Configs /\ pc \in Labels /\ canceller \in Cancellers
             /\ RunTypes /\ LoopTypes /\ att \in AttemptType /\ signals \in SignalType
             /\ EffortType /\ WorkTypes /\ DeliveryTypes
BY DEF TypeOK, Outcomes, SignalType, EffortType, DeliveryType, RunTypes, LoopTypes, WorkTypes,
       DeliveryTypes, Cancellers

\* The same after a step.
LEMMA TypeGroupsPrimed ==
  TypeOK' <=> /\ cfg' \in Configs /\ pc' \in Labels /\ canceller' \in Cancellers
              /\ RunTypes' /\ LoopTypes' /\ att' \in AttemptType /\ signals' \in SignalType
              /\ EffortType' /\ WorkTypes' /\ DeliveryTypes'
BY DEF TypeOK, Outcomes, SignalType, EffortType, DeliveryType, RunTypes, LoopTypes, WorkTypes,
       DeliveryTypes, Cancellers

\* A group whose variables do not change keeps its types.
LEMMA TypeFrames ==
  /\ RunTypes /\ UNCHANGED runVars => RunTypes'
  /\ LoopTypes /\ UNCHANGED loopVars => LoopTypes'
  /\ EffortType /\ UNCHANGED effortVars => EffortType'
  /\ WorkTypes /\ UNCHANGED workVars => WorkTypes'
  /\ DeliveryTypes /\ UNCHANGED deliveryVars => DeliveryTypes'
  /\ DeliveryTypes /\ UNCHANGED <<delivery, recorded>> => DeliveryTypes'
BY DEF RunTypes, LoopTypes, EffortType, WorkTypes, DeliveryTypes, runVars, loopVars, effortVars,
       workVars, deliveryVars

\* A reasoning call leaves the tracked files alone or rewrites them, and the new
\* files likewise.
LEMMA EditedFacts ==
  ASSUME NEW t \in TreeType, NEW e \in Nat, NEW u \in Edited(t, e)
  PROVE  /\ u \in TreeType
         /\ \/ u.tracked = t.tracked /\ u.danger = t.danger /\ u.scope = t.scope
            \/ u.tracked = e /\ u.danger \in Dangers /\ u.scope \in Scopes
         /\ u.untracked \in {t.untracked, e}
<1> USE DEF TreeType
<1> DEFINE made == {t} \cup {Rewritten(t, e, d, s) : d \in Dangers, s \in Scopes}
<1>1. Edited(t, e) = made \cup {Scaffolded(v, e) : v \in made}
  BY DEF Edited
<1>2. \A d \in Dangers, s \in Scopes :
        /\ Rewritten(t, e, d, s) \in TreeType
        /\ Rewritten(t, e, d, s).tracked = e /\ Rewritten(t, e, d, s).danger = d
        /\ Rewritten(t, e, d, s).scope = s /\ Rewritten(t, e, d, s).untracked = t.untracked
  <2> TAKE d \in Dangers, s \in Scopes
  <2>1. d \in DangerLevels /\ s \in ScopeType
    BY AnswersAssumption
  <2> QED BY <2>1 DEF Rewritten
<1>3. \A v \in TreeType :
        /\ Scaffolded(v, e) \in TreeType /\ Scaffolded(v, e).untracked = e
        /\ Scaffolded(v, e).tracked = v.tracked /\ Scaffolded(v, e).danger = v.danger
        /\ Scaffolded(v, e).scope = v.scope
  BY DEF Scaffolded
<1> HIDE DEF TreeType
<1>4. PICK v \in made : u = v \/ u = Scaffolded(v, e)
  BY <1>1
<1>5. v = t \/ \E d \in Dangers, s \in Scopes : v = Rewritten(t, e, d, s)
  BY <1>4
<1>6. /\ v \in TreeType /\ v.untracked = t.untracked
      /\ \/ v.tracked = t.tracked /\ v.danger = t.danger /\ v.scope = t.scope
         \/ v.tracked = e /\ v.danger \in Dangers /\ v.scope \in Scopes
  BY <1>2, <1>5
<1> QED BY <1>3, <1>4, <1>6

\* What restoring, scaffolding and editing make of a tree is a tree.
LEMMA TreeTypes ==
  /\ CleanTree \in TreeType
  /\ \A t \in TreeType : Restored(t) \in TreeType
  /\ \A t \in TreeType : \A ok : RestoreTo(t, ok) \in TreeType
  /\ \A t \in TreeType : \A e \in Nat : Scaffolded(t, e) \in TreeType
  /\ \A t \in TreeType : \A e \in Nat : Edited(t, e) \subseteq TreeType
  /\ \A t \in TreeType : Committed(t) \in TreeType /\ LeftBehind(t) \in TreeType
<1> USE DEF TreeType, ScopeType, DangerLevels, NoEdit
<1>1. CleanTree \in TreeType
  BY DEF CleanTree
<1>2. \A t \in TreeType : Restored(t) \in TreeType
  BY DEF Restored, CleanTree
<1>3. \A t \in TreeType : \A ok : RestoreTo(t, ok) \in TreeType
  BY <1>2 DEF RestoreTo
<1>4. \A t \in TreeType : \A e \in Nat : Scaffolded(t, e) \in TreeType
  BY DEF Scaffolded
<1>5. \A t \in TreeType : \A e \in Nat : Edited(t, e) \subseteq TreeType
  BY EditedFacts
<1>6. \A t \in TreeType : Committed(t) \in TreeType /\ LeftBehind(t) \in TreeType
  BY <1>1 DEF Committed, LeftBehind
<1> QED BY <1>1, <1>2, <1>3, <1>4, <1>5, <1>6

\* A transition request leaves a status.
LEMMA StatusTypes ==
  \A s, t \in Statuses : StatusAfter(s, t) \in Statuses
BY DEF StatusAfter

\* Recording a signal counts it.
LEMMA SignalTypes ==
  \A s \in SignalType : \A k \in CapabilitySignals : RecordSignal(s, k) \in SignalType
BY DEF SignalType, RecordSignal

\* The record of an attempt that has not begun.
LEMMA NoAttemptType == NoAttempt \in AttemptType
BY DEF NoAttempt, AttemptType, StopReasons, Texts, DangerLevels, TestResults, SmokeResults

\* Leaving supervisor.run keeps the types when what it writes has one.
LEMMA ReturnTypes ==
  ASSUME TypeOK, Return, RunTypes', signals' \in SignalType, tree' \in TreeType,
         patch' \in TreeType
  PROVE  TypeOK'
<1>1. /\ pc' \in Labels /\ cfg' \in Configs /\ canceller' \in Cancellers
      /\ att' \in AttemptType
  BY TypeGroups, NoAttemptType DEF Return, Labels
<1>2. LoopTypes' /\ EffortType' /\ DeliveryTypes'
  BY TypeGroups, TypeFrames DEF Return
<1>3. WorkTypes'
  BY TypeGroups DEF Return, WorkTypes
<1> QED BY <1>1, <1>2, <1>3, TypeGroupsPrimed

\* Every way out of supervisor.run keeps the types.
LEMMA ExitTypes ==
  ASSUME TypeOK, NEW f \in FailureClasses
  PROVE  /\ Blocked(f) /\ tree' \in TreeType /\ signals' \in SignalType => TypeOK'
         /\ BlockedDirty(f) => TypeOK'
         /\ BlockedClean(f) /\ signals' \in SignalType => TypeOK'
         /\ Cancelled => TypeOK'
         /\ CompleteNoop /\ tree' \in TreeType => TypeOK'
         /\ HandleCapabilityLimit(signals) /\ UNCHANGED signals => TypeOK'
         /\ LimitOrBlocked(f) => TypeOK'
<1>0. /\ status \in Statuses /\ failure_class \in FailureClasses /\ tree \in TreeType
      /\ patch \in TreeType /\ signals \in SignalType
  BY TypeGroups DEF RunTypes, WorkTypes
<1>1. ASSUME NEW g \in FailureClasses, Blocked(g), tree' \in TreeType, signals' \in SignalType
      PROVE  TypeOK'
  <2>1. RunTypes'
    BY <1>0, <1>1, StatusTypes DEF Blocked, RunTypes, Outcomes, Statuses, TERMINAL_STATUSES
  <2> QED BY <1>1, <2>1, ReturnTypes, TreeTypes DEF Blocked
<1>2. BlockedDirty(f) => TypeOK'
  BY <1>0, <1>1 DEF BlockedDirty
<1>3. Cleanup => tree' \in TreeType
  BY <1>0, TreeTypes DEF Cleanup
<1>4. \A g \in FailureClasses : BlockedClean(g) /\ signals' \in SignalType => TypeOK'
  BY <1>1, <1>3 DEF BlockedClean
<1>5. Cancelled => TypeOK'
  <2> SUFFICES ASSUME Cancelled PROVE TypeOK'
    OBVIOUS
  <2>1. RunTypes'
    BY <1>0, StatusTypes DEF Cancelled, RunTypes, Outcomes, Statuses, TERMINAL_STATUSES,
                             FailureClasses
  <2> QED BY <1>0, <1>3, <2>1, ReturnTypes DEF Cancelled
<1>6. CompleteNoop /\ tree' \in TreeType => TypeOK'
  <2> SUFFICES ASSUME CompleteNoop, tree' \in TreeType PROVE TypeOK'
    OBVIOUS
  <2>1. RunTypes'
    BY <1>0, StatusTypes DEF CompleteNoop, RunTypes, Outcomes, Statuses, TERMINAL_STATUSES
  <2> QED BY <1>0, <2>1, ReturnTypes DEF CompleteNoop
<1>7. HandleCapabilityLimit(signals) /\ UNCHANGED signals => TypeOK'
  <2>1. {"capability_ceiling_reached", "decomposition_required"} \subseteq FailureClasses
    BY DEF FailureClasses
  <2> QED BY <1>0, <1>4, <2>1 DEF HandleCapabilityLimit
<1>8. LimitOrBlocked(f) => TypeOK'
  BY <1>0, <1>4, <1>7 DEF LimitOrBlocked
<1> QED BY <1>1, <1>2, <1>4, <1>5, <1>6, <1>7, <1>8

\* A plain move keeps them, and a move keeps what it says.
LEMMA MoveTypes ==
  ASSUME TypeOK, NEW l \in Labels
  PROVE  /\ Advance(l) => TypeOK'
         /\ Goto(l) => /\ cfg' \in Configs /\ pc' \in Labels /\ canceller' \in Cancellers
                       /\ RunTypes' /\ recorded' \subseteq Statuses
<1>1. Goto(l) => /\ cfg' \in Configs /\ pc' \in Labels /\ canceller' \in Cancellers
                 /\ RunTypes' /\ recorded' \subseteq Statuses
  BY TypeGroups, TypeFrames DEF Goto, DeliveryTypes
<1>2. Advance(l) => /\ LoopTypes' /\ att' \in AttemptType /\ signals' \in SignalType
                    /\ EffortType' /\ WorkTypes'
  BY TypeGroups, TypeFrames DEF Advance
<1>3. Advance(l) => delivery' \in DeliveryType
  BY TypeGroups DEF Advance, DeliveryTypes
<1> QED BY <1>1, <1>2, <1>3, TypeGroupsPrimed DEF Advance, DeliveryTypes

\* Every failure that an attempt may end in is a failure class.
LEMMA FailureTypes ==
  /\ Failures \cup {""} \subseteq FailureClasses
  /\ {"dependency_skip", "workspace_dirty", "infrastructure_bug", "dependency_not_satisfied",
      "infra_timeout", "pytest_failure", "decomposition_required"} \subseteq FailureClasses
BY DEF FailureClasses, Failures, REPAIRABLE_FAILURES

\* Pre-flight and the start of an attempt, which move on or leave.
LEMMA PreflightTypes ==
  ASSUME TypeOK, \/ DependencyGate \/ GitStatus \/ BaselineTests \/ BaselineSmoke \/ PlanMission
                 \/ StartAttempt \/ CreateBranch
  PROVE  TypeOK'
<1> USE DEF CancelOr
<1>1. \A l \in Labels : Advance(l) => TypeOK'
  BY MoveTypes
<1>2. \A f \in FailureClasses : BlockedDirty(f) => TypeOK'
  BY ExitTypes
<1>3. Cancelled => TypeOK'
  BY ExitTypes, FailureTypes
<1>4. {"git_status", "baseline", "baseline_smoke", "plan", "attempt", "branch", "reason"}
        \subseteq Labels
  BY DEF Labels
<1>5. CASE DependencyGate
  BY <1>1, <1>2, <1>3, <1>4, <1>5, FailureTypes DEF DependencyGate
<1>6. CASE GitStatus
  BY <1>1, <1>2, <1>3, <1>4, <1>6, FailureTypes DEF GitStatus
<1>7. CASE BaselineTests
  BY <1>1, <1>2, <1>3, <1>4, <1>7, FailureTypes DEF BaselineTests
<1>8. CASE BaselineSmoke
  BY <1>1, <1>2, <1>3, <1>4, <1>8, FailureTypes DEF BaselineSmoke
<1>9. CASE PlanMission
  BY <1>1, <1>2, <1>4, <1>9, FailureTypes DEF PlanMission
<1>10. CASE StartAttempt
  BY <1>1, <1>3, <1>4, <1>10 DEF StartAttempt
<1>11. CASE CreateBranch
  BY <1>1, <1>2, <1>3, <1>4, <1>11, FailureTypes DEF CreateBranch
<1> QED BY <1>5, <1>6, <1>7, <1>8, <1>9, <1>10, <1>11

\* A step that moves to l, and gives the variables it changes values of their
\* types, keeps the types.
LEMMA GotoTypes ==
  ASSUME TypeOK, NEW l \in Labels, Goto(l), LoopTypes', att' \in AttemptType,
         signals' \in SignalType, EffortType', WorkTypes', delivery' \in DeliveryType
  PROVE  TypeOK'
BY MoveTypes, TypeGroupsPrimed DEF DeliveryTypes

\* The reasoning of an attempt and the collection of its diff.
LEMMA ReasoningTypes ==
  ASSUME TypeOK, RunReasoning \/ AfterReasoning \/ CollectDiff
  PROVE  TypeOK'
<1>0. /\ LoopTypes /\ att \in AttemptType /\ signals \in SignalType /\ EffortType /\ WorkTypes
      /\ tree \in TreeType /\ patch \in TreeType /\ validated \in TreeType
      /\ delivery \in DeliveryType /\ {"reasoned", "collect", "validate"} \subseteq Labels
  BY TypeGroups DEF WorkTypes, DeliveryTypes, Labels
<1>1. CASE RunReasoning
  <2>1. PICK r \in Reasonings :
          /\ att' = [att EXCEPT !.stop = r.stop, !.files = r.files, !.text = r.text]
          /\ signals' = IF NoProgress(r) THEN RecordSignal(signals, "no_diff_repair") ELSE signals
    BY <1>1 DEF RunReasoning
  <2>2. r.stop \in StopReasons /\ r.files \in {"none", "missing", "existing"} /\ r.text \in Texts
    BY AnswersAssumption DEF ReasoningType
  <2>3. att' \in AttemptType
    BY <1>0, <2>1, <2>2 DEF AttemptType
  <2>4. signals' \in SignalType
    BY <1>0, <2>1, SignalTypes DEF CapabilitySignals
  <2>5. RankEdit \in Nat
    BY <1>0 DEF RankEdit, LoopTypes
  <2>6. tree' \in TreeType
    BY <1>0, <1>1, <2>5, TreeTypes DEF RunReasoning
  <2>7. WorkTypes' /\ LoopTypes' /\ EffortType' /\ delivery' \in DeliveryType
    BY <1>0, <1>1, <2>6, TypeFrames DEF RunReasoning, WorkTypes
  <2> QED BY <1>0, <1>1, <2>3, <2>4, <2>7, GotoTypes DEF RunReasoning
<1>2. CASE AfterReasoning
  BY <1>0, <1>2, MoveTypes, ExitTypes, FailureTypes DEF AfterReasoning, CancelOr
<1>3. CASE CollectDiff
  <2>1. CASE UiContractLocked
    BY <1>0, <2>1, ExitTypes, FailureTypes, TreeTypes DEF UiContractLocked
  <2>2. CASE ~UiContractLocked
    <3>1. Goto("validate") /\ UNCHANGED <<loopVars, signals, effortVars, tree, validated, delivery>>
      BY <1>3, <2>2 DEF CollectDiff, workVars
    <3>2. patch' \in {patch, [tree EXCEPT !.untracked = NoEdit]}
      BY <1>3, <2>2 DEF CollectDiff, workVars
    <3>3. patch' \in TreeType
      BY <1>0, <3>2 DEF TreeType, NoEdit
    <3>4. \E d \in BOOLEAN, f \in {"", "semantic_incomplete"}, g \in DangerLevels :
            \/ att' = [att EXCEPT !.failure = "reasoning_loop_blocked"]
            \/ att' = [att EXCEPT !.diff = d, !.failure = f, !.danger = g]
      <4>1. (IF tree.tracked # NoEdit THEN tree.danger ELSE "safe") \in DangerLevels
        BY <1>0 DEF TreeType, DangerLevels
      <4> QED BY <1>3, <2>2, <4>1 DEF CollectDiff
    <3>5. att' \in AttemptType
      <4>1. {"", "semantic_incomplete", "reasoning_loop_blocked"} \subseteq Failures \cup {""}
        BY DEF Failures, REPAIRABLE_FAILURES
      <4>2. PICK d \in BOOLEAN, f \in Failures \cup {""}, g \in DangerLevels :
              \/ att' = [att EXCEPT !.failure = f]
              \/ att' = [att EXCEPT !.diff = d, !.failure = f, !.danger = g]
        BY <3>4, <4>1
      <4> QED BY <1>0, <4>2 DEF AttemptType
    <3>6. WorkTypes' /\ LoopTypes' /\ EffortType'
      BY <1>0, <3>1, <3>3, TypeFrames DEF WorkTypes
    <3> QED BY <1>0, <3>1, <3>5, <3>6, GotoTypes
  <2> QED BY <2>1, <2>2
<1> QED BY <1>1, <1>2, <1>3

\* What TypeOK says of the single variables that the steps below compute with.
LEMMA TypeFacts ==
  TypeOK => /\ LoopTypes /\ att \in AttemptType /\ signals \in SignalType /\ EffortType
            /\ WorkTypes /\ tree \in TreeType /\ patch \in TreeType /\ validated \in TreeType
            /\ delivery \in DeliveryType /\ status \in Statuses /\ cfg \in Configs
            /\ RankEdit \in Nat /\ RepairEdit \in Nat
BY TypeGroups DEF WorkTypes, DeliveryTypes, RunTypes, LoopTypes, RankEdit, RepairEdit

\* The tests of an attempt.
LEMMA ValidateTypes == ASSUME TypeOK, ValidateAttempt PROVE TypeOK'
<1>0. "judge" \in Labels
  BY DEF Labels
<1>1. CASE Advance("judge")
  BY <1>0, <1>1, MoveTypes
<1>2. CASE /\ att' = [att EXCEPT !.failure = "destructive_diff"]
           /\ Cleanup
           /\ Goto("judge")
           /\ UNCHANGED <<loopVars, signals, effortVars, patch, validated, delivery>>
  <2>1. att' \in AttemptType
    BY <1>2, TypeFacts DEF AttemptType, Failures
  <2>2. tree' \in TreeType
    BY <1>2, TypeFacts, TreeTypes DEF Cleanup
  <2>3. WorkTypes' /\ LoopTypes' /\ EffortType'
    BY <1>2, <2>2, TypeFacts, TypeFrames DEF WorkTypes
  <2> QED BY <1>0, <1>2, <2>1, <2>3, TypeFacts, GotoTypes
<1>3. CASE /\ \E t \in TestRuns :
                /\ att' = [att EXCEPT !.targeted = t.targeted, !.full = t.full, !.smoke = t.smoke]
                /\ validated' = IF Green(t) THEN tree ELSE CleanTree
           /\ Goto("judge")
           /\ UNCHANGED <<loopVars, signals, effortVars, tree, patch, delivery>>
  <2>1. PICK t \in TestRuns :
          att' = [att EXCEPT !.targeted = t.targeted, !.full = t.full, !.smoke = t.smoke]
    BY <1>3
  <2>2. t.targeted \in TestResults /\ t.full \in TestResults /\ t.smoke \in SmokeResults
    BY AnswersAssumption DEF TestRunType
  <2>3. att' \in AttemptType
    BY <2>1, <2>2, TypeFacts DEF AttemptType
  <2>4. validated' \in TreeType
    BY <1>3, TypeFacts, TreeTypes
  <2>5. WorkTypes' /\ LoopTypes' /\ EffortType'
    BY <1>3, <2>4, TypeFacts, TypeFrames DEF WorkTypes
  <2> QED BY <1>0, <1>3, <2>3, <2>5, TypeFacts, GotoTypes
<1> QED BY <1>1, <1>2, <1>3 DEF ValidateAttempt

\* classify_failure names a failure.
LEMMA ClassifiedFailure ==
  ASSUME NEW stop, NEW text, NEW danger, NEW targeted, NEW full, NEW smoke
  PROVE  /\ ClassifyFailure(stop, text, danger, targeted, full, smoke) \in Failures
         /\ ClassifyFailure(stop, text, danger, targeted, full, smoke) # ""
BY DEF ClassifyFailure, Failures, REPAIRABLE_FAILURES

\* The verdict on an attempt is a failure or none; none only when nothing failed
\* earlier and all the tests passed.
LEMMA VerdictFacts ==
  ASSUME NEW a \in AttemptType, NEW f \in Verdicts(a)
  PROVE  /\ f \in Failures \cup {""}
         /\ a.failure # "" => f = a.failure
         /\ f = "" => a.failure = "" /\ Green(a)
<1>1. a.failure \in Failures \cup {""}
  BY DEF AttemptType
<1>2. CASE a.failure # ""
  BY <1>1, <1>2 DEF Verdicts
<1>3. CASE a.failure = "" /\ ~RankPassed(a)
  <2>1. ClassifyFailure(a.stop, a.text, a.danger, a.targeted, a.full, a.smoke) \in Failures \ {""}
    BY ClassifiedFailure
  <2> QED BY <1>3, <2>1 DEF Verdicts
<1>4. CASE a.failure = "" /\ RankPassed(a)
  BY <1>4 DEF Verdicts, RankPassed, Failures, REPAIRABLE_FAILURES
<1> QED BY <1>2, <1>3, <1>4

\* The signals of a judged attempt are counted.
LEMMA JudgedSignalTypes ==
  ASSUME signals \in SignalType, NEW a, NEW f PROVE JudgedSignals(a, f) \in SignalType
<1> DEFINE s1 == CASE a.failure # "" \/ f # "reasoning_loop_blocked" -> signals
                   [] a.stop \in {"reasoning_timeout", "budget_exceeded", "blocked"} ->
                        RecordSignal(signals, "reasoning_timeout")
                   [] a.stop = "no_diff_repair" -> RecordSignal(signals, "no_diff_repair")
                   [] OTHER -> signals
<1>1. s1 \in SignalType
  BY SignalTypes DEF CapabilitySignals
<1>2. JudgedSignals(a, f) = IF a.full = "hung" THEN RecordSignal(s1, "pytest_hang") ELSE s1
  BY DEF JudgedSignals
<1> HIDE DEF s1
<1> QED BY <1>1, <1>2, SignalTypes DEF CapabilitySignals

\* The verdict and where it leads.
LEMMA JudgeTypes == ASSUME TypeOK, JudgeAttempt \/ RouteAttempt PROVE TypeOK'
<1>0. {"route", "failed", "complete"} \subseteq Labels
  BY DEF Labels
<1>1. CASE JudgeAttempt
  <2>1. CASE CompleteNoop /\ UNCHANGED tree
    BY <2>1, TypeFacts, ExitTypes, FailureTypes
  <2>2. CASE /\ \E f \in Verdicts(att) :
                  /\ att' = [att EXCEPT !.failure = f]
                  /\ signals' = JudgedSignals(att, f)
             /\ Goto("route")
             /\ UNCHANGED <<loopVars, effortVars, workVars, delivery>>
    <3>1. PICK f \in Verdicts(att) : /\ att' = [att EXCEPT !.failure = f]
                                     /\ signals' = JudgedSignals(att, f)
      BY <2>2
    <3>2. f \in Failures \cup {""}
      BY TypeFacts, VerdictFacts
    <3>3. att' \in AttemptType
      BY <3>1, <3>2, TypeFacts DEF AttemptType
    <3>4. signals' \in SignalType
      BY <3>1, TypeFacts, JudgedSignalTypes
    <3>5. WorkTypes' /\ LoopTypes' /\ EffortType' /\ delivery' \in DeliveryType
      BY <2>2, TypeFacts, TypeFrames
    <3> QED BY <1>0, <2>2, <3>3, <3>4, <3>5, GotoTypes
  <2> QED BY <1>1, <2>1, <2>2 DEF JudgeAttempt
<1>2. CASE RouteAttempt
  <2>1. CASE HandleCapabilityLimit(signals) /\ UNCHANGED signals
    BY <2>1, ExitTypes, FailureTypes
  <2>2. CASE /\ signals' = RecordSignal(signals, "reasoning_timeout")
             /\ BlockedClean("decomposition_required")
    BY <2>2, TypeFacts, SignalTypes, ExitTypes, FailureTypes DEF CapabilitySignals
  <2>3. CASE Advance("failed")
    BY <1>0, <2>3, MoveTypes
  <2>4. CASE /\ att' = [att EXCEPT !.failure = "semantic_incomplete"]
             /\ Goto("failed")
             /\ UNCHANGED <<loopVars, signals, effortVars, workVars, delivery>>
    <3>1. att' \in AttemptType
      BY <2>4, TypeFacts DEF AttemptType, Failures, REPAIRABLE_FAILURES
    <3>2. WorkTypes' /\ LoopTypes' /\ EffortType'
      BY <2>4, TypeFacts, TypeFrames
    <3> QED BY <1>0, <2>4, <3>1, <3>2, TypeFacts, GotoTypes
  <2>5. CASE /\ recorded' = recorded \cup {status}
             /\ pc' = "complete"
             /\ UNCHANGED <<cfg, runVars, canceller, loopVars, att, signals, effortVars,
                            workVars, delivery>>
    <3>1. DeliveryTypes'
      BY <2>5, TypeGroups DEF DeliveryTypes, RunTypes
    <3> QED BY <1>0, <2>5, <3>1, TypeGroups, TypeFrames, TypeGroupsPrimed
  <2> QED BY <1>2, <2>1, <2>2, <2>3, <2>4, <2>5 DEF RouteAttempt
<1> QED BY <1>1, <1>2

\* The bookkeeping of a repair cycle.
LEMMA CycleTypes ==
  ASSUME TypeOK, FailedAttempt \/ Escalate \/ PrepareRepair \/ NextAttempt PROVE TypeOK'
<1>0. {"escalate", "repair", "repair_failed", "repair_reason", "attempt"} \subseteq Labels
  BY DEF Labels
<1>a. att.failure \in Failures \cup {""}
  BY TypeFacts DEF AttemptType
<1>1. CASE FailedAttempt
  <2>1. CASE LimitOrBlocked(att.failure)
    BY <1>a, <2>1, ExitTypes, FailureTypes
  <2>2. CASE /\ failure_class' = att.failure
             /\ repair_cycles' = repair_cycles + 1
             /\ pc' = "escalate"
             /\ UNCHANGED <<cfg, status, outcome, canceller, attempt, attempt_limit,
                            extension_used, att, signals, effortVars, workVars, deliveryVars>>
    <3>1. RunTypes'
      BY <1>a, <2>2, TypeGroups, FailureTypes DEF RunTypes
    <3>2. LoopTypes'
      BY <2>2, TypeGroups DEF LoopTypes
    <3> QED BY <1>0, <2>2, <3>1, <3>2, TypeGroups, TypeFrames, TypeGroupsPrimed
  <2> QED BY <1>1, <2>1, <2>2 DEF FailedAttempt
<1>2. CASE Escalate
  <2>0. escalation \in [calls : Nat, usd : Nat] /\ same \in [count : Nat, last : Failures \cup {""}]
        /\ spent \in Nat
    BY TypeFacts DEF EffortType
  <2>1. att' \in AttemptType
    <3>1. att' = att \/ \E high, plan \in BOOLEAN : att' = [att EXCEPT !.high = high, !.plan = plan]
      BY <1>2 DEF Escalate
    <3> QED BY <3>1, TypeFacts DEF AttemptType
  <2>2. escalation' \in [calls : Nat, usd : Nat]
    <3>1. \/ escalation' = escalation \/ escalation' = [escalation EXCEPT !.calls = @ + 1]
          \/ \E c \in HelperCosts : escalation' = [calls |-> escalation.calls + 1, usd |-> escalation.usd + c]
      BY <1>2 DEF Escalate
    <3>2. escalation.calls \in Nat /\ escalation.usd \in Nat
      BY <2>0
    <3>3. \A c \in HelperCosts :
            [calls |-> escalation.calls + 1, usd |-> escalation.usd + c] \in [calls : Nat, usd : Nat]
      <4> TAKE c \in HelperCosts
      <4>1. c \in Nat
        BY CostsAssumption
      <4> QED BY <3>2, <4>1
    <3>4. [escalation EXCEPT !.calls = @ + 1] \in [calls : Nat, usd : Nat]
      <4>1. \A n \in Nat : [escalation EXCEPT !.calls = n] \in [calls : Nat, usd : Nat]
        BY <2>0
      <4> QED BY <3>2, <4>1
    <3> QED BY <2>0, <3>1, <3>3, <3>4
  <2>3. EffortType'
    BY <1>2, <2>0, <2>2 DEF Escalate, EffortType
  <2>4. WorkTypes' /\ LoopTypes' /\ signals' \in SignalType /\ delivery' \in DeliveryType
    BY <1>2, TypeFacts, TypeFrames DEF Escalate
  <2> QED BY <1>0, <1>2, <2>1, <2>3, <2>4, GotoTypes DEF Escalate
<1>3. CASE PrepareRepair
  <2>1. same' \in [count : Nat, last : Failures \cup {""}]
    <3>1. same.count \in Nat
      BY TypeFacts DEF EffortType
    <3>2. (IF att.failure = same.last THEN same.count + 1 ELSE 0) \in Nat
      BY <3>1
    <3>3. same' = Tracked(att.failure)
      BY <1>3 DEF PrepareRepair
    <3> QED BY <1>a, <3>2, <3>3 DEF Tracked
  <2>2. EffortType'
    BY <1>3, <2>1, TypeFacts DEF PrepareRepair, EffortType
  <2>3. pc' \in Labels
    BY <1>0, <1>3 DEF PrepareRepair
  <2>4. RunTypes'
    <3>1. \/ status' = "failed" /\ failure_class' = "execution_budget_exceeded" /\ UNCHANGED outcome
          \/ UNCHANGED runVars
      BY <1>3 DEF PrepareRepair
    <3> QED BY <3>1, TypeGroups, TypeFrames DEF RunTypes, Statuses, TERMINAL_STATUSES, FailureClasses
  <2>5. /\ WorkTypes' /\ LoopTypes' /\ signals' \in SignalType /\ DeliveryTypes'
        /\ att' \in AttemptType /\ cfg' \in Configs /\ canceller' \in Cancellers
    BY <1>3, TypeGroups, TypeFrames DEF PrepareRepair
  <2> QED BY <2>2, <2>3, <2>4, <2>5, TypeGroupsPrimed
<1>4. CASE NextAttempt
  <2>1. attempt' \in Nat \ {0} /\ repair_cycles' \in Nat
    BY <1>4, TypeFacts DEF NextAttempt, LoopTypes
  <2>2. attempt_limit' \in Nat
    <3>1. attempt_limit' \in {attempt_limit, attempt_limit + 1}
      BY <1>4, Zenon DEF NextAttempt
    <3> QED BY <3>1, TypeFacts DEF LoopTypes
  <2>3. extension_used' \in BOOLEAN
    BY <1>4, TypeFacts, Zenon DEF NextAttempt, LoopTypes
  <2>4. LoopTypes'
    BY <2>1, <2>2, <2>3 DEF LoopTypes
  <2>5. WorkTypes' /\ EffortType' /\ signals' \in SignalType /\ delivery' \in DeliveryType
    BY <1>4, TypeFacts, TypeFrames, TreeTypes DEF NextAttempt, WorkTypes
  <2>6. att' \in AttemptType /\ Goto("attempt")
    BY <1>4, NoAttemptType DEF NextAttempt
  <2> QED BY <1>0, <2>4, <2>5, <2>6, GotoTypes
<1> QED BY <1>1, <1>2, <1>3, <1>4

\* What a rejected or accepted repair may leave: the tree or what a restore
\* makes of it, with or without a scaffolded test.
RepairTrees ==
  {tree, Restored(tree), Scaffolded(tree, RepairEdit), Scaffolded(Restored(tree), RepairEdit)}

\* The validation of a repair leaves nothing else, and nothing else changes but
\* the signals and where the worker is.
LEMMA RepairTreeFacts ==
  ASSUME RepairDiff \/ RepairTests \/ RepairSmoke
  PROVE  /\ tree' \in RepairTrees
         /\ pc \in {"repair_diff", "repair_tests", "repair_smoke"}
         /\ pc' \in {"repair_failed", "repaired", "repair_tests", "repair_smoke"}
         /\ \/ signals' = signals
            \/ signals' = RecordSignal(signals, "no_diff_repair")
            \/ signals' = RecordSignal(signals, "pytest_hang")
         /\ UNCHANGED <<cfg, runVars, canceller, loopVars, att, effortVars, patch, validated,
                        deliveryVars>>
<1> USE DEF RepairTrees
<1>1. \A ok : RestoreTo(tree, ok) \in {tree, Restored(tree)}
  BY DEF RestoreTo
<1>2. \A t \in {tree, Restored(tree)} : Rescaffolded(t) \subseteq RepairTrees /\ Preserved(t) \subseteq RepairTrees
  BY DEF Rescaffolded, Preserved
<1>3. \A b : RestoreAndRetry(b) => tree' \in RepairTrees /\ pc' \in {"repair_failed", "repaired"}
  <2> SUFFICES ASSUME NEW b, RestoreAndRetry(b)
               PROVE  tree' \in RepairTrees /\ pc' \in {"repair_failed", "repaired"}
    OBVIOUS
  <2>1. PICK ok \in RestoreResults :
          \/ tree' = Scaffolded(RestoreTo(tree, ok), RepairEdit) /\ pc' = "repaired"
          \/ tree' \in Preserved(RestoreTo(tree, ok)) /\ pc' = "repaired"
          \/ tree' \in Rescaffolded(RestoreTo(tree, ok)) /\ pc' = "repair_failed"
    BY DEF RestoreAndRetry, Retry, Rescaffolded
  <2> QED BY <1>1, <1>2, <2>1
<1>4. \A b : Reject(b) => tree' \in RepairTrees /\ pc' \in {"repair_failed", "repaired"}
  BY <1>2 DEF Reject, GiveUp, Retry
<1>5. ReplaceByScaffold => tree' \in RepairTrees /\ pc' \in {"repair_failed", "repaired", "repair_tests"}
  BY DEF ReplaceByScaffold, GiveUp
<1>6. \A ok : GiveUp(RestoreTo(tree, ok)) => tree' \in RepairTrees /\ pc' = "repair_failed"
  BY <1>1 DEF GiveUp
<1> HIDE DEF RepairTrees
<1>7. tree \in RepairTrees
  BY DEF RepairTrees
<1>8. CASE RepairDiff
  <2>1. /\ tree' \in RepairTrees /\ pc' \in {"repair_failed", "repaired", "repair_tests"}
        /\ signals' = signals \/ signals' = RecordSignal(signals, "no_diff_repair")
    BY <1>3, <1>4, <1>5, <1>6, <1>7, <1>8 DEF RepairDiff
  <2> QED BY <1>8, <2>1 DEF RepairDiff
<1>9. CASE RepairTests
  <2>1. /\ tree' \in RepairTrees /\ pc' \in {"repair_failed", "repaired", "repair_smoke"}
        /\ signals' = signals \/ signals' = RecordSignal(signals, "pytest_hang")
    BY <1>3, <1>7, <1>9 DEF RepairTests
  <2> QED BY <1>9, <2>1 DEF RepairTests
<1>10. CASE RepairSmoke
  <2>1. Cleanup => tree' \in RepairTrees
    BY <1>1 DEF Cleanup, RepairTrees
  <2>2. tree' \in RepairTrees /\ pc' \in {"repair_failed", "repaired"}
    BY <1>7, <1>10, <2>1 DEF RepairSmoke
  <2> QED BY <1>10, <2>2 DEF RepairSmoke
<1> QED BY <1>8, <1>9, <1>10

\* A repair: its reasoning, its diff, its tests, its end.
LEMMA RepairTypes ==
  ASSUME TypeOK, RepairReasoning \/ RepairDiff \/ RepairTests \/ RepairSmoke \/ RepairFailed
  PROVE  TypeOK'
<1>0. {"repair_diff", "repair_failed", "repaired", "repair_tests", "repair_smoke"} \subseteq Labels
  BY DEF Labels
<1>1. CASE RepairReasoning
  <2>1. PICK r \in Reasonings, c \in Costs :
          /\ att' = [att EXCEPT !.repair_stop = r.stop]
          /\ signals' = RepairSignals(r.stop)
          /\ spent' = spent + c
    BY <1>1 DEF RepairReasoning
  <2>2. r.stop \in StopReasons /\ c \in Nat
    BY AnswersAssumption, CostsAssumption DEF ReasoningType
  <2>3. att' \in AttemptType
    BY <2>1, <2>2, TypeFacts DEF AttemptType
  <2>4. signals' \in SignalType
    BY <2>1, TypeFacts, SignalTypes DEF RepairSignals, CapabilitySignals
  <2>5. EffortType'
    <3>1. UNCHANGED <<same, escalation>>
      BY <1>1 DEF RepairReasoning
    <3>2. spent' = spent + c
      BY <2>1
    <3>3. /\ same \in [count : Nat, last : Failures \cup {""}] /\ spent \in Nat
          /\ escalation \in [calls : Nat, usd : Nat]
      BY TypeFacts DEF EffortType
    <3>4. spent' \in Nat
      <4>1. spent \in Nat /\ c \in Nat
        BY <2>2, <3>3
      <4> QED BY <3>2, <4>1
    <3> QED BY <3>1, <3>3, <3>4 DEF EffortType
  <2>6. tree' \in TreeType
    BY <1>1, TypeFacts, TreeTypes DEF RepairReasoning
  <2>7. WorkTypes' /\ LoopTypes' /\ delivery' \in DeliveryType
    BY <1>1, <2>6, TypeFacts, TypeFrames DEF RepairReasoning, WorkTypes
  <2> QED BY <1>0, <1>1, <2>3, <2>4, <2>5, <2>7, GotoTypes DEF RepairReasoning
<1>2. CASE RepairDiff \/ RepairTests \/ RepairSmoke
  <2>1. tree' \in TreeType
    BY <1>2, RepairTreeFacts, TypeFacts, TreeTypes DEF RepairTrees
  <2>2. signals' \in SignalType
    BY <1>2, RepairTreeFacts, TypeFacts, SignalTypes DEF CapabilitySignals
  <2>3. /\ pc' \in Labels
        /\ UNCHANGED <<cfg, runVars, canceller, loopVars, att, effortVars, patch, validated, deliveryVars>>
    BY <1>0, <1>2, RepairTreeFacts
  <2>4. WorkTypes'
    BY <2>1, <2>3, TypeFacts DEF WorkTypes
  <2> QED BY <2>2, <2>3, <2>4, TypeGroups, TypeFrames, TypeGroupsPrimed
<1>3. CASE RepairFailed
  <2>1. att.failure \in FailureClasses
    BY TypeFacts, FailureTypes DEF AttemptType
  <2> QED BY <1>3, <2>1, ExitTypes DEF RepairFailed
<1> QED BY <1>1, <1>2, <1>3

\* Delivery.
LEMMA DeliveryStepTypes ==
  ASSUME TypeOK,
         CompleteRank \/ Commit \/ RecoverPatch \/ Push \/ WaitCi \/ Merge \/ PostMergeSmoke
  PROVE  TypeOK'
<1> USE DEF AfterCommit
<1>0. {"commit", "recover", "push", "finalize", "ci", "merge", "post_merge"} \subseteq Labels
  BY DEF Labels
<1>1. CASE CompleteRank
  BY <1>0, <1>1, MoveTypes, ExitTypes, FailureTypes DEF CompleteRank, CancelOr
<1>2. CASE Commit
  <2>1. CASE BlockedDirty("infrastructure_bug")
    BY <2>1, ExitTypes, FailureTypes
  <2>2. CASE Advance("recover")
    BY <1>0, <2>2, MoveTypes
  <2>3. CASE /\ delivery' = [delivery EXCEPT !.content = Committed(tree), !.committed = TRUE]
             /\ tree' = LeftBehind(tree)
             /\ patch' = CleanTree
             /\ Goto(AfterCommit)
             /\ UNCHANGED <<loopVars, att, signals, effortVars, validated>>
    <3>1. delivery' \in DeliveryType
      <4>1. Committed(tree) \in TreeType
        BY TypeFacts, TreeTypes
      <4> QED BY <2>3, <4>1, TypeFacts DEF DeliveryType
    <3>2. WorkTypes' /\ LoopTypes' /\ EffortType'
      BY <2>3, TypeFacts, TypeFrames, TreeTypes DEF WorkTypes
    <3> QED BY <1>0, <2>3, <3>1, <3>2, TypeFacts, GotoTypes
  <2> QED BY <1>2, <2>1, <2>2, <2>3 DEF Commit, NothingToCommit
<1>3. CASE RecoverPatch
  <2>1. CASE BlockedDirty("infrastructure_bug")
    BY <2>1, ExitTypes, FailureTypes
  <2>2. CASE /\ Blocked("infrastructure_bug")
             /\ tree' = [patch EXCEPT !.untracked = tree.untracked]
             /\ UNCHANGED signals
    <3>1. tree' \in TreeType
      BY <2>2, TypeFacts DEF TreeType
    <3> QED BY <2>2, <3>1, TypeFacts, ExitTypes, FailureTypes
  <2>3. CASE /\ delivery' = [delivery EXCEPT !.content = patch, !.committed = TRUE, !.recovered = TRUE]
             /\ patch' = CleanTree
             /\ Goto(AfterCommit)
             /\ UNCHANGED <<loopVars, att, signals, effortVars, tree, validated>>
    <3>1. delivery' \in DeliveryType
      BY <2>3, TypeFacts DEF DeliveryType
    <3>2. WorkTypes' /\ LoopTypes' /\ EffortType'
      BY <2>3, TypeFacts, TypeFrames, TreeTypes DEF WorkTypes
    <3> QED BY <1>0, <2>3, <3>1, <3>2, TypeFacts, GotoTypes
  <2> QED BY <1>3, <2>1, <2>2, <2>3 DEF RecoverPatch
<1>4. CASE Push \/ WaitCi \/ Merge
  <2>1. \E b \in BOOLEAN : \/ delivery' = [delivery EXCEPT !.pushed = b]
                           \/ delivery' = [delivery EXCEPT !.ci = b]
                           \/ delivery' = [delivery EXCEPT !.merged = b]
    BY <1>4 DEF Push, WaitCi, Merge
  <2>2. delivery' \in DeliveryType
    BY <2>1, TypeFacts DEF DeliveryType
  <2>3. PICK l \in Labels : Goto(l)
    BY <1>0, <1>4 DEF Push, WaitCi, Merge, AfterCi
  <2>4. UNCHANGED <<loopVars, att, signals, effortVars, workVars>>
    BY <1>4 DEF Push, WaitCi, Merge
  <2>5. WorkTypes' /\ LoopTypes' /\ EffortType'
    BY <2>4, TypeFacts, TypeFrames
  <2> QED BY <2>2, <2>3, <2>4, <2>5, TypeFacts, GotoTypes
<1>5. CASE PostMergeSmoke
  <2>1. CASE Advance("finalize")
    BY <1>0, <2>1, MoveTypes
  <2>2. CASE /\ status' = StatusAfter(status, "blocked")
             /\ outcome' = "Blocked"
             /\ failure_class' = "infrastructure_bug"
             /\ Return
             /\ UNCHANGED <<signals, tree, patch>>
    <3>1. RunTypes'
      BY <2>2, TypeFacts, StatusTypes, FailureTypes DEF RunTypes, Outcomes, Statuses, TERMINAL_STATUSES
    <3> QED BY <2>2, <3>1, TypeFacts, ReturnTypes
  <2> QED BY <1>5, <2>1, <2>2 DEF PostMergeSmoke
<1> QED BY <1>1, <1>2, <1>3, <1>4, <1>5

\* The worker's end and its exceptions, the cancel call and other processes.
LEMMA OtherTypes ==
  ASSUME TypeOK,
         \/ Finalize \/ MbopPostRun \/ WorkerException \/ CancelRequest \/ CancelSteps
         \/ Environment
  PROVE  TypeOK'
<1> USE DEF Statuses, TERMINAL_STATUSES, ActiveStatuses
<1>1. CASE Finalize \/ WorkerException
  <2>1. Return /\ UNCHANGED <<signals, tree, patch>>
    BY <1>1 DEF Finalize, WorkerException
  <2>2. RunTypes'
    BY <1>1, TypeGroups, StatusTypes DEF Finalize, WorkerException, RunTypes, Outcomes, FailureClasses
  <2> QED BY <2>1, <2>2, TypeFacts, ReturnTypes
<1>2. CASE MbopPostRun
  <2>1. RunTypes'
    <3>1. \/ UNCHANGED runVars
          \/ status' = "blocked" /\ outcome' = "Blocked" /\ failure_class' = "mbop_quality_gate_failed"
      BY <1>2 DEF MbopPostRun
    <3> QED BY <3>1, TypeGroups, TypeFrames DEF RunTypes, Outcomes, FailureClasses
  <2>2. /\ pc' \in Labels
        /\ UNCHANGED <<cfg, canceller, loopVars, att, signals, effortVars, workVars, deliveryVars>>
    BY <1>2 DEF MbopPostRun, Labels
  <2> QED BY <2>1, <2>2, TypeGroups, TypeFrames, TypeGroupsPrimed
<1>3. CASE CancelRequest \/ CancelSteps \/ Environment
  <2>1. canceller' \in Cancellers
    BY <1>3, TypeGroups DEF Cancellers, CancelRequest, CancelSteps, CancelTransition, CancelMark,
                            CancelCleanup, Environment, TreeReverted, OtherSupervisor
  <2>2. RunTypes'
    <3>1. \/ UNCHANGED runVars
          \/ status' = StatusAfter(status, "cancelling") /\ UNCHANGED <<outcome, failure_class>>
          \/ /\ status' = StatusAfter(status, "cancelled")
             /\ outcome' = "Cancelled" /\ failure_class' = "user_cancelled"
      BY <1>3 DEF CancelRequest, CancelSteps, CancelTransition, CancelMark, CancelCleanup,
                  Environment, TreeReverted, OtherSupervisor
    <3> QED BY <3>1, TypeGroups, TypeFrames, StatusTypes DEF RunTypes, Outcomes, FailureClasses
  <2>3. tree' \in TreeType /\ patch' \in TreeType
    BY <1>3, TypeFacts, TreeTypes DEF CancelRequest, CancelSteps, CancelTransition, CancelMark,
       CancelCleanup, Cleanup, Environment, TreeReverted, OtherSupervisor, workVars
  <2>4. UNCHANGED <<cfg, pc, loopVars, att, signals, effortVars, validated, deliveryVars>>
    BY <1>3 DEF CancelRequest, CancelSteps, CancelTransition, CancelMark, CancelCleanup,
                Environment, TreeReverted, OtherSupervisor, workVars
  <2>5. WorkTypes'
    BY <2>3, <2>4, TypeFacts DEF WorkTypes
  <2> QED BY <2>1, <2>2, <2>4, <2>5, TypeGroups, TypeFrames, TypeGroupsPrimed
<1> QED BY <1>1, <1>2, <1>3

\* Every step keeps the types.
LEMMA TypeStep == TypeOK /\ [Next]_vars => TypeOK'
<1> SUFFICES ASSUME TypeOK, [Next]_vars PROVE TypeOK'
  OBVIOUS
<1>1. CASE UNCHANGED vars
  BY <1>1, TypeGroups, TypeFrames, TypeGroupsPrimed DEF vars
<1>2. CASE Steps
  BY <1>2, PreflightTypes, ReasoningTypes, ValidateTypes, JudgeTypes, CycleTypes, RepairTypes,
     DeliveryStepTypes, OtherTypes DEF Steps
<1>3. CASE WorkerException \/ CancelRequest \/ CancelSteps \/ Environment
  BY <1>3, OtherTypes
<1> QED BY <1>1, <1>2, <1>3 DEF Next, Worker, Terminating

\* A run starts well-typed.
LEMMA TypeInit == Init => TypeOK
<1> SUFFICES ASSUME Init PROVE TypeOK
  OBVIOUS
<1>1. cfg \in Configs /\ pc \in Labels /\ canceller \in Cancellers
  BY DEF Init, Labels, Cancellers
<1>2. RunTypes
  BY DEF Init, RunTypes, Outcomes, FailureClasses, Statuses, ActiveStatuses
<1>3. LoopTypes
  <2>1. attempt = 1 /\ repair_cycles = 0 /\ attempt_limit = cfg.max_rank_attempts
    BY DEF Init
  <2>2. extension_used \in BOOLEAN
    BY Zenon DEF Init
  <2> QED BY <1>1, <2>1, <2>2, ConfigFacts DEF LoopTypes
<1>4. att \in AttemptType /\ signals \in SignalType
  BY NoAttemptType DEF Init, SignalType, NoSignals
<1>5. EffortType
  BY DEF Init, EffortType
<1>6. WorkTypes
  <2>1. [CleanTree EXCEPT !.tracked = Foreign] \in TreeType
    BY DEF CleanTree, TreeType, Foreign, NoEdit, DangerLevels, ScopeType
  <2> QED BY <2>1, TreeTypes DEF Init, WorkTypes
<1>7. DeliveryTypes
  <2>1. NoDelivery \in DeliveryType
    BY TreeTypes DEF NoDelivery, DeliveryType
  <2> QED BY <2>1 DEF Init, DeliveryTypes
<1> QED BY <1>1, <1>2, <1>3, <1>4, <1>5, <1>6, <1>7, TypeGroups

\* Spec => []TypeOK: for every configuration and every answer of the backend the
\* run's fields stay in their domains; every status is one that the run store
\* knows, every failure class one that the supervisor reports, whichever of the
\* two threads wrote it last.
THEOREM TypeCorrect == Spec => []TypeOK
BY TypeInit, TypeStep, PTL DEF Spec
=============================================================================
