--------------------------- MODULE RankLoopSafety ---------------------------
(***************************************************************************)
(* What a run of the rank loop leaves behind, for every configuration and  *)
(* every answer of the backend, git, the tests and the CI: what may be     *)
(* committed, what a completed run stands for, that the outcome agrees     *)
(* with the status, how far a budget may be overshot, and which files the  *)
(* clean-ups must not touch.                                               *)
(***************************************************************************)
EXTENDS RankLoopProofs

\* The sets of labels are expanded wherever they occur.
USE DEF Uncounted, Counted, Preflight, Attempting, Repairing, Delivering

-----------------------------------------------------------------------------
(* The shapes of the steps: what each kind of step does to the variables   *)
(* that the safety invariants speak of.                                    *)

\* What no step of the worker changes but its exits and the reasoning calls.
RunFrame == UNCHANGED <<cfg, runVars, canceller>>

\* A move that changes nothing else, along one of the edges of the code.
Hop ==
  /\ RunFrame
  /\ UNCHANGED <<loopVars, att, effortVars, tree, patch, validated, delivery>>
  /\ \/ pc = "start" /\ pc' = "git_status"
     \/ pc \in Preflight \ {"start"} /\ pc' \in {"baseline", "baseline_smoke", "plan", "attempt"}
     \/ pc = "attempt" /\ pc' = "branch"
     \/ pc = "branch" /\ pc' = "reason"
     \/ pc = "reasoned" /\ pc' = "collect"
     \/ pc = "validate" /\ pc' = "judge" /\ att.failure # ""
     \/ pc = "route" /\ pc' = "failed" /\ att.failure # ""
     \/ pc = "route" /\ pc' = "complete" /\ att.failure = ""
     \/ pc = "complete" /\ pc' = "finalize" /\ cfg.dry_run
     \/ pc = "complete" /\ pc' = "commit"
     \/ pc = "commit" /\ pc' = "recover"
     \/ pc = "post_merge" /\ pc' = "finalize"
  /\ pc = "git_status" => tree.tracked = NoEdit

\* supervisor.run is left: as blocked with a reason, as cancelled on request, or
\* as completed by finalize or by the UI contract.
Departure ==
  /\ pc \notin {"mbop", "done"} /\ pc' = "mbop"
  /\ UNCHANGED <<cfg, canceller, loopVars, effortVars, validated, delivery>>
  /\ \/ tree' = tree
     \/ tree' = Restored(tree) /\ (pc \notin {"start", "git_status"} \/ cancel_requested)
     \/ pc = "recover" /\ tree' = [patch EXCEPT !.untracked = tree.untracked]
  /\ patch' \in {patch, CleanTree}
  /\ \/ /\ status' = StatusAfter(status, "blocked")
        /\ outcome' = "Blocked" /\ failure_class' # ""
     \/ /\ cancel_requested
        /\ status' = StatusAfter(status, "cancelled") /\ outcome' = "Cancelled"
     \/ /\ pc = "finalize" \/ cfg.ui = "card"
        /\ pc # "repair_failed"
        /\ status' = StatusAfter(status, "completed") /\ outcome' = "Completed"

\* A failure is known wherever a repair is under way.
RepairHasFailure == pc \in Repairing => att.failure # ""

\* The exits are departures.
LEMMA Departures ==
  ASSUME pc \notin {"mbop", "done"}
  PROVE  /\ \A f : f # "" /\ BlockedDirty(f) => Departure
         /\ \A f : f # "" /\ pc \notin {"start", "git_status"} /\ BlockedClean(f) => Departure
         /\ cancel_requested /\ Cancelled => Departure
         /\ \A s : pc \notin {"start", "git_status"} /\ HandleCapabilityLimit(s) => Departure
         /\ \A f : f # "" /\ pc \notin {"start", "git_status"} /\ LimitOrBlocked(f) => Departure
<1>1. Cleanup => tree' \in {tree, Restored(tree)}
  BY DEF Cleanup, RestoreTo
<1>2. Return => pc' = "mbop" /\ UNCHANGED <<cfg, canceller, loopVars, effortVars, validated, delivery>>
  BY DEF Return, deliveryVars
<1>3. \A f : f # "" /\ BlockedDirty(f) => Departure
  BY <1>2 DEF BlockedDirty, Blocked, Departure
<1>4. \A f : f # "" /\ pc \notin {"start", "git_status"} /\ BlockedClean(f) => Departure
  BY <1>1, <1>2 DEF BlockedClean, Blocked, Departure
<1>5. cancel_requested /\ Cancelled => Departure
  BY <1>1, <1>2 DEF Cancelled, Departure
<1>6. \A s : pc \notin {"start", "git_status"} /\ HandleCapabilityLimit(s) => Departure
  BY <1>4 DEF HandleCapabilityLimit
<1>7. \A f : f # "" /\ pc \notin {"start", "git_status"} /\ LimitOrBlocked(f) => Departure
  BY <1>4, <1>6 DEF LimitOrBlocked
<1> QED BY <1>3, <1>4, <1>5, <1>6, <1>7

\* A plain move is a hop when it goes along an edge of the code.
LEMMA HopFacts ==
  \A l : Advance(l) => /\ RunFrame /\ pc' = l
                       /\ UNCHANGED <<loopVars, att, effortVars, tree, patch, validated, delivery>>
BY DEF Advance, Goto, RunFrame, workVars

\* Pre-flight steps, the start of an attempt and the end of its reasoning.
LEMMA PreflightShapes ==
  ASSUME \/ DependencyGate \/ GitStatus \/ BaselineTests \/ BaselineSmoke \/ PlanMission
         \/ StartAttempt \/ CreateBranch \/ AfterReasoning \/ CompleteRank
  PROVE  Hop \/ Departure
<1> USE DEF CancelOr
<1>1. CASE DependencyGate
  <2>1. CASE Advance("git_status")
    BY <1>1, <2>1, HopFacts DEF DependencyGate, Hop
  <2> QED BY <1>1, <2>1, Departures DEF DependencyGate
<1>2. CASE GitStatus
  <2>1. CASE Advance("baseline") /\ tree.tracked = NoEdit
    BY <1>2, <2>1, HopFacts DEF GitStatus, Hop
  <2> QED BY <1>2, <2>1, Departures DEF GitStatus
<1>3. CASE BaselineTests
  <2>1. CASE Advance("baseline_smoke")
    BY <1>3, <2>1, HopFacts DEF BaselineTests, Hop
  <2> QED BY <1>3, <2>1, Departures DEF BaselineTests
<1>4. CASE BaselineSmoke
  <2>1. CASE Advance("plan")
    BY <1>4, <2>1, HopFacts DEF BaselineSmoke, Hop
  <2> QED BY <1>4, <2>1, Departures DEF BaselineSmoke
<1>5. CASE PlanMission
  <2>1. CASE Advance("attempt")
    BY <1>5, <2>1, HopFacts DEF PlanMission, Hop
  <2> QED BY <1>5, <2>1, Departures DEF PlanMission
<1>6. CASE StartAttempt
  <2>1. CASE Advance("branch")
    BY <1>6, <2>1, HopFacts DEF StartAttempt, Hop
  <2> QED BY <1>6, <2>1, Departures DEF StartAttempt
<1>7. CASE CreateBranch
  <2>1. CASE Advance("reason")
    BY <1>7, <2>1, HopFacts DEF CreateBranch, Hop
  <2> QED BY <1>7, <2>1, Departures DEF CreateBranch
<1>8. CASE AfterReasoning
  <2>1. CASE Advance("collect")
    BY <1>8, <2>1, HopFacts DEF AfterReasoning, Hop
  <2> QED BY <1>8, <2>1, Departures DEF AfterReasoning
<1>9. CASE CompleteRank
  <2>1. CASE Advance(IF cfg.dry_run THEN "finalize" ELSE "commit")
    BY <1>9, <2>1, HopFacts DEF CompleteRank, Hop
  <2> QED BY <1>9, <2>1, Departures DEF CompleteRank
<1> QED BY <1>1, <1>2, <1>3, <1>4, <1>5, <1>6, <1>7, <1>8, <1>9

\* The diff has been collected: the danger that is judged is the tree's.
Collecting ==
  /\ pc = "collect" /\ pc' = "validate" /\ RunFrame
  /\ UNCHANGED <<loopVars, effortVars, tree, validated, delivery>>
  /\ \/ patch' = patch
     \/ tree.tracked # NoEdit /\ patch' = [tree EXCEPT !.untracked = NoEdit]
  /\ att'.failure = "" => att'.danger = IF tree.tracked # NoEdit THEN tree.danger ELSE "safe"

\* Collecting the diff, or finding the UI contract satisfied.
LEMMA CollectShapes == ASSUME TypeOK, CollectDiff PROVE Collecting \/ Departure
<1>1. CASE cfg.ui = "card" /\ UiContractLocked
  <2>1. PICK ok \in RestoreResults : IF ok THEN tree' = Restored(tree) /\ CompleteNoop
                                           ELSE BlockedDirty("infrastructure_bug")
    BY <1>1 DEF UiContractLocked
  <2>2. CASE BlockedDirty("infrastructure_bug")
    BY <2>2, Departures DEF CollectDiff
  <2>3. CASE tree' = Restored(tree) /\ CompleteNoop
    BY <1>1, <2>3 DEF CollectDiff, CompleteNoop, Return, Departure, deliveryVars
  <2> QED BY <2>1, <2>2, <2>3
<1>2. CASE ~(cfg.ui = "card" /\ UiContractLocked)
  <2>1. /\ pc = "collect" /\ Goto("validate")
        /\ UNCHANGED <<loopVars, effortVars, tree, validated, delivery>>
    BY <1>2 DEF CollectDiff, workVars
  <2>2. \/ patch' = patch
        \/ tree.tracked # NoEdit /\ patch' = [tree EXCEPT !.untracked = NoEdit]
    BY <1>2 DEF CollectDiff, workVars
  <2>3. \/ att' = [att EXCEPT !.failure = "reasoning_loop_blocked"]
        \/ \E d, f : att' = [att EXCEPT !.diff = d, !.failure = f,
                               !.danger = IF tree.tracked # NoEdit THEN tree.danger ELSE "safe"]
    BY <1>2 DEF CollectDiff
  <2>4. att'.failure = "" => att'.danger = IF tree.tracked # NoEdit THEN tree.danger ELSE "safe"
    BY <2>3, TypeFacts DEF AttemptType
  <2> QED BY <2>1, <2>2, <2>4 DEF Collecting, Goto, RunFrame
<1> QED BY <1>1, <1>2

\* The attempt has been tested, or found too dangerous to be.
Testing ==
  /\ pc = "validate" /\ pc' = "judge" /\ RunFrame /\ att.failure = ""
  /\ UNCHANGED <<loopVars, effortVars, patch, delivery>>
  /\ \/ /\ att'.failure # "" /\ tree' \in {tree, Restored(tree)} /\ validated' = validated
     \/ /\ ~TooDangerous(att) /\ tree' = tree
        /\ Green(att') => validated' = tree

\* The tests of an attempt have that shape.
LEMMA ValidateShapes == ASSUME TypeOK, ValidateAttempt PROVE Testing \/ Hop
<1>1. CASE att.failure # "" /\ Advance("judge")
  BY <1>1, HopFacts DEF ValidateAttempt, Hop
<1>2. CASE /\ att.failure = ""
           /\ att' = [att EXCEPT !.failure = "destructive_diff"]
           /\ Cleanup
           /\ Goto("judge")
           /\ UNCHANGED <<loopVars, signals, effortVars, patch, validated, delivery>>
  <2>1. att'.failure = "destructive_diff"
    BY <1>2, TypeFacts DEF AttemptType
  <2>2. tree' \in {tree, Restored(tree)}
    BY <1>2 DEF Cleanup, RestoreTo
  <2> QED BY <1>2, <2>1, <2>2 DEF ValidateAttempt, Testing, Goto, RunFrame
<1>3. CASE /\ att.failure = "" /\ ~TooDangerous(att)
           /\ \E t \in TestRuns :
                /\ att' = [att EXCEPT !.targeted = t.targeted, !.full = t.full, !.smoke = t.smoke]
                /\ validated' = IF Green(t) THEN tree ELSE CleanTree
           /\ Goto("judge")
           /\ UNCHANGED <<loopVars, signals, effortVars, tree, patch, delivery>>
  <2>1. PICK t \in TestRuns :
          /\ att' = [att EXCEPT !.targeted = t.targeted, !.full = t.full, !.smoke = t.smoke]
          /\ validated' = IF Green(t) THEN tree ELSE CleanTree
    BY <1>3
  <2>2. att'.targeted = t.targeted /\ att'.full = t.full /\ att'.smoke = t.smoke
    BY <2>1, TypeFacts DEF AttemptType
  <2>3. Green(att') => validated' = tree
    BY <2>1, <2>2 DEF Green
  <2> QED BY <1>3, <2>3 DEF ValidateAttempt, Testing, Goto, RunFrame
<1> QED BY <1>1, <1>2, <1>3 DEF ValidateAttempt

\* The verdict: no failure only after green tests.
Judging ==
  /\ pc = "judge" /\ pc' = "route" /\ RunFrame
  /\ UNCHANGED <<loopVars, effortVars, tree, patch, validated, delivery>>
  /\ att'.failure = "" => att.failure = "" /\ Green(att)
  /\ Green(att') <=> Green(att)

\* Judging an attempt, or finding the UI goal satisfied.
LEMMA JudgeShapes == ASSUME TypeOK, JudgeAttempt PROVE Judging \/ Departure
<1>1. CASE UiNoop(att) /\ CompleteNoop /\ UNCHANGED tree
  BY <1>1 DEF JudgeAttempt, UiNoop, CompleteNoop, Return, Departure, deliveryVars
<1>2. CASE /\ \E f \in Verdicts(att) : att' = [att EXCEPT !.failure = f]
           /\ Goto("route")
           /\ UNCHANGED <<loopVars, effortVars, workVars, delivery>>
  <2>1. PICK f \in Verdicts(att) : att' = [att EXCEPT !.failure = f]
    BY <1>2
  <2>2. att'.failure = f
    BY <2>1, TypeFacts DEF AttemptType
  <2>3. f = "" => att.failure = "" /\ Green(att)
    BY TypeFacts, VerdictFacts
  <2>4. Green(att') <=> Green(att)
    BY <2>1, TypeFacts DEF Green, AttemptType
  <2> QED BY <1>2, <2>2, <2>3, <2>4 DEF JudgeAttempt, Judging, Goto, RunFrame, workVars
<1> QED BY <1>1, <1>2 DEF JudgeAttempt

\* An attempt goes on to its repair, which has a failure to work on.
Failing ==
  /\ pc \in {"route", "failed", "escalate"} /\ pc' \in {"failed", "escalate", "repair"}
  /\ UNCHANGED <<cfg, status, outcome, canceller, same, spent, tree, patch, validated, delivery>>
  /\ UNCHANGED <<attempt, attempt_limit, extension_used>>
  /\ att'.failure # ""
  /\ \/ escalation' = escalation
     \/ /\ escalation.calls < cfg.max_calls /\ escalation.usd < cfg.max_usd
        /\ escalation'.calls = escalation.calls + 1
        /\ \/ escalation'.usd = escalation.usd
           \/ \E c \in HelperCosts : escalation'.usd = escalation.usd + c

\* Routing an attempt, counting its cycle and asking the helper.
LEMMA RouteShapes ==
  ASSUME TypeOK, RepairHasFailure, RouteAttempt \/ FailedAttempt \/ Escalate
  PROVE  Hop \/ Departure \/ Failing
<1>1. CASE RouteAttempt
  <2>1. CASE BlockedClean("decomposition_required") \/ HandleCapabilityLimit(signals)
    BY <1>1, <2>1, Departures DEF RouteAttempt
  <2>2. CASE att.failure # "" /\ Advance("failed")
    BY <1>1, <2>2, HopFacts DEF RouteAttempt, Hop
  <2>3. CASE /\ att' = [att EXCEPT !.failure = "semantic_incomplete"]
             /\ Goto("failed")
             /\ UNCHANGED <<loopVars, signals, effortVars, workVars, delivery>>
    <3>1. att'.failure = "semantic_incomplete"
      BY <2>3, TypeFacts DEF AttemptType
    <3> QED BY <1>1, <2>3, <3>1 DEF RouteAttempt, Failing, Goto, runVars, loopVars, effortVars, workVars
  <2>4. CASE /\ att.failure = ""
             /\ pc' = "complete"
             /\ UNCHANGED <<cfg, runVars, canceller, loopVars, att, signals, effortVars,
                            workVars, delivery>>
    BY <1>1, <2>4 DEF RouteAttempt, Hop, RunFrame, workVars
  <2> QED BY <1>1, <2>1, <2>2, <2>3, <2>4 DEF RouteAttempt
<1>2. CASE FailedAttempt
  <2>1. att.failure # "" /\ pc = "failed"
    BY <1>2 DEF FailedAttempt, RepairHasFailure
  <2>2. CASE LimitOrBlocked(att.failure)
    BY <2>1, <2>2, Departures
  <2>3. CASE RepairAllowed
    BY <1>2, <2>1, <2>3 DEF FailedAttempt, Failing, effortVars, workVars, deliveryVars
  <2> QED BY <1>2, <2>2, <2>3 DEF FailedAttempt
<1>3. CASE Escalate
  <2>1. att.failure # "" /\ pc = "escalate"
    BY <1>3 DEF Escalate, RepairHasFailure
  <2>2. att'.failure # ""
    BY <1>3, <2>1, TypeFacts DEF Escalate, AttemptType
  <2>3. \/ escalation' = escalation
        \/ /\ escalation.calls < cfg.max_calls /\ escalation.usd < cfg.max_usd
           /\ \/ escalation' = [escalation EXCEPT !.calls = @ + 1]
              \/ \E c \in HelperCosts :
                   escalation' = [calls |-> escalation.calls + 1, usd |-> escalation.usd + c]
    BY <1>3 DEF Escalate
  <2>4. [escalation EXCEPT !.calls = @ + 1] = [calls |-> escalation.calls + 1, usd |-> escalation.usd]
    <3>1. escalation \in [calls : Nat, usd : Nat]
      BY TypeFacts DEF EffortType
    <3>2. \A n : [escalation EXCEPT !.calls = n] = [calls |-> n, usd |-> escalation.usd]
      BY <3>1
    <3> QED BY <3>2
  <2>5. \/ escalation' = escalation
        \/ /\ escalation.calls < cfg.max_calls /\ escalation.usd < cfg.max_usd
           /\ escalation'.calls = escalation.calls + 1
           /\ \/ escalation'.usd = escalation.usd
              \/ \E c \in HelperCosts : escalation'.usd = escalation.usd + c
    BY <2>3, <2>4
  <2>6. /\ pc' = "repair"
        /\ UNCHANGED <<cfg, status, outcome, canceller, same, spent, tree, patch, validated, delivery>>
        /\ UNCHANGED <<attempt, attempt_limit, extension_used>>
    BY <1>3 DEF Escalate, Goto, runVars, loopVars, workVars
  <2> QED BY <2>1, <2>2, <2>5, <2>6 DEF Failing
<1> QED BY <1>1, <1>2, <1>3

\* A repair is prepared: it goes on to its reasoning only within the budget, and
\* a spent budget marks the run failed.
Preparing ==
  /\ pc = "repair" /\ pc' \in {"repair_failed", "repair_reason"}
  /\ UNCHANGED <<cfg, outcome, canceller, loopVars, att, spent, escalation, tree, patch, validated, delivery>>
  /\ \/ UNCHANGED <<status, failure_class>> /\ ~BudgetExceeded
     \/ BudgetExceeded /\ status' = "failed" /\ pc' = "repair_failed"

\* A reasoning call: it may rewrite the tracked files and add new ones, with an
\* edit of its own, and costs something when it is a repair's.
Reasoning ==
  /\ RunFrame /\ UNCHANGED <<loopVars, escalation, patch, validated, delivery>>
  /\ \/ pc = "reason" /\ pc' = "reasoned" /\ spent' = spent
     \/ /\ pc = "repair_reason" /\ pc' = "repair_diff" /\ att'.failure = att.failure
        /\ \E c \in Costs : spent' = spent + c
  /\ \/ tree'.tracked = tree.tracked /\ tree'.danger = tree.danger /\ tree'.scope = tree.scope
     \/ tree'.tracked \notin {NoEdit, Foreign} /\ tree'.scope \in Scopes
  /\ tree'.untracked # tree.untracked => tree'.untracked # NoEdit

\* A repair is validated, taken back or replaced by a scaffold.
Mending ==
  /\ pc \in {"repair_diff", "repair_tests", "repair_smoke"}
  /\ pc' \in {"repair_failed", "repaired", "repair_tests", "repair_smoke"}
  /\ RunFrame /\ UNCHANGED <<loopVars, att, effortVars, patch, validated, delivery>>
  /\ tree' \in RepairTrees

\* The next attempt begins.
Renewing ==
  /\ pc = "repaired" /\ pc' = "attempt" /\ RunFrame
  /\ UNCHANGED <<effortVars, tree, patch, delivery>>

\* Preparing a repair, its reasoning, its validation, its failure, the next attempt.
LEMMA RepairShapes ==
  ASSUME TypeOK, RepairHasFailure,
         \/ PrepareRepair \/ RunReasoning \/ RepairReasoning \/ RepairDiff \/ RepairTests
         \/ RepairSmoke \/ RepairFailed \/ NextAttempt
  PROVE  Preparing \/ Reasoning \/ Mending \/ Renewing \/ Departure
<1>1. CASE PrepareRepair
  <2>1. /\ pc = "repair"
        /\ UNCHANGED <<cfg, outcome, canceller, loopVars, att, spent, escalation, tree, patch, validated, delivery>>
    BY <1>1 DEF PrepareRepair, runVars, workVars, deliveryVars
  <2>2. CASE BudgetExceeded
    BY <1>1, <2>1, <2>2 DEF PrepareRepair, Preparing
  <2>3. CASE ~BudgetExceeded
    BY <1>1, <2>1, <2>3 DEF PrepareRepair, Preparing, runVars
  <2> QED BY <2>2, <2>3
<1>2. CASE RunReasoning \/ RepairReasoning
  <2>1. PICK e \in {RankEdit, RepairEdit} : tree' \in Edited(tree, e)
    BY <1>2 DEF RunReasoning, RepairReasoning
  <2>2. e \in Nat \ {NoEdit, Foreign}
    BY TypeFacts DEF LoopTypes, RankEdit, RepairEdit, NoEdit, Foreign
  <2>3. /\ \/ tree'.tracked = tree.tracked /\ tree'.danger = tree.danger /\ tree'.scope = tree.scope
           \/ tree'.tracked = e /\ tree'.scope \in Scopes
        /\ tree'.untracked \in {tree.untracked, e}
    BY <2>1, <2>2, TypeFacts, EditedFacts
  <2>4. /\ \/ tree'.tracked = tree.tracked /\ tree'.danger = tree.danger /\ tree'.scope = tree.scope
           \/ tree'.tracked \notin {NoEdit, Foreign} /\ tree'.scope \in Scopes
        /\ tree'.untracked # tree.untracked => tree'.untracked # NoEdit
    BY <2>2, <2>3
  <2>5. RunFrame /\ UNCHANGED <<loopVars, escalation, patch, validated, delivery>>
    BY <1>2 DEF RunReasoning, RepairReasoning, Goto, RunFrame, effortVars
  <2>6. CASE RunReasoning
    BY <2>4, <2>5, <2>6 DEF RunReasoning, Goto, Reasoning, effortVars
  <2>7. CASE RepairReasoning
    <3>1. att'.failure = att.failure
      BY <2>7, TypeFacts DEF RepairReasoning, AttemptType
    <3>2. pc = "repair_reason" /\ pc' = "repair_diff" /\ \E c \in Costs : spent' = spent + c
      BY <2>7 DEF RepairReasoning, Goto
    <3> QED BY <2>4, <2>5, <3>1, <3>2 DEF Reasoning
  <2> QED BY <1>2, <2>6, <2>7
<1>3. CASE RepairDiff \/ RepairTests \/ RepairSmoke
  BY <1>3, RepairTreeFacts DEF Mending, RunFrame, deliveryVars
<1>4. CASE RepairFailed
  BY <1>4, Departures DEF RepairFailed, RepairHasFailure
<1>5. CASE NextAttempt
  BY <1>5 DEF NextAttempt, Goto, Renewing, RunFrame
<1> QED BY <1>1, <1>2, <1>3, <1>4, <1>5

\* A commit: of the working tree, or of the pending patch.
Committing ==
  /\ pc' \in {"push", "finalize"} /\ RunFrame
  /\ UNCHANGED <<loopVars, att, effortVars, validated>>
  /\ patch' = CleanTree
  /\ delivery'.committed
  /\ \/ /\ pc = "commit" /\ tree' = LeftBehind(tree)
        /\ delivery'.content = Committed(tree) /\ delivery'.recovered = delivery.recovered
     \/ pc = "recover" /\ tree' = tree /\ delivery'.recovered

\* Push, CI and merge add to what is known of the same commit.
Publishing ==
  /\ pc \in {"push", "ci", "merge"} /\ pc' \in {"ci", "merge", "post_merge", "finalize"} /\ RunFrame
  /\ UNCHANGED <<loopVars, att, effortVars, tree, patch, validated>>
  /\ delivery'.content = delivery.content /\ delivery'.committed = delivery.committed
  /\ delivery'.recovered = delivery.recovered

\* Delivery.
LEMMA DeliveryShapes ==
  ASSUME TypeOK, Commit \/ RecoverPatch \/ Push \/ WaitCi \/ Merge \/ PostMergeSmoke \/ Finalize
  PROVE  Committing \/ Publishing \/ Hop \/ Departure
<1> USE DEF AfterCommit
<1>0. delivery \in DeliveryType
  BY TypeFacts
<1>1. CASE Commit
  <2>1. CASE BlockedDirty("infrastructure_bug")
    BY <1>1, <2>1, Departures DEF Commit
  <2>2. CASE Advance("recover")
    BY <1>1, <2>2, HopFacts DEF Commit, Hop
  <2>3. CASE /\ delivery' = [delivery EXCEPT !.content = Committed(tree), !.committed = TRUE]
             /\ tree' = LeftBehind(tree)
             /\ patch' = CleanTree
             /\ Goto(AfterCommit)
             /\ UNCHANGED <<loopVars, att, signals, effortVars, validated>>
    <3>1. /\ delivery'.content = Committed(tree) /\ delivery'.committed
          /\ delivery'.recovered = delivery.recovered
      BY <1>0, <2>3 DEF DeliveryType
    <3> QED BY <1>1, <2>3, <3>1 DEF Commit, Goto, Committing, RunFrame
  <2> QED BY <1>1, <2>1, <2>2, <2>3 DEF Commit, NothingToCommit
<1>2. CASE RecoverPatch
  <2>1. CASE BlockedDirty("infrastructure_bug")
    BY <1>2, <2>1, Departures DEF RecoverPatch
  <2>2. CASE /\ Blocked("infrastructure_bug")
             /\ tree' = [patch EXCEPT !.untracked = tree.untracked]
    BY <1>2, <2>2 DEF RecoverPatch, Blocked, Return, Departure, deliveryVars
  <2>3. CASE /\ delivery' = [delivery EXCEPT !.content = patch, !.committed = TRUE, !.recovered = TRUE]
             /\ patch' = CleanTree
             /\ Goto(AfterCommit)
             /\ UNCHANGED <<loopVars, att, signals, effortVars, tree, validated>>
    <3>1. delivery'.committed /\ delivery'.recovered
      BY <1>0, <2>3 DEF DeliveryType
    <3> QED BY <1>2, <2>3, <3>1 DEF RecoverPatch, Goto, Committing, RunFrame
  <2> QED BY <1>2, <2>1, <2>2, <2>3 DEF RecoverPatch
<1>3. CASE Push \/ WaitCi \/ Merge
  <2>1. \E b \in BOOLEAN : \/ delivery' = [delivery EXCEPT !.pushed = b]
                           \/ delivery' = [delivery EXCEPT !.ci = b]
                           \/ delivery' = [delivery EXCEPT !.merged = b]
    BY <1>3 DEF Push, WaitCi, Merge
  <2>2. /\ delivery'.content = delivery.content /\ delivery'.committed = delivery.committed
        /\ delivery'.recovered = delivery.recovered
    BY <1>0, <2>1 DEF DeliveryType
  <2>3. /\ pc \in {"push", "ci", "merge"} /\ pc' \in {"ci", "merge", "post_merge", "finalize"} /\ RunFrame
        /\ UNCHANGED <<loopVars, att, effortVars, tree, patch, validated>>
    BY <1>3 DEF Push, WaitCi, Merge, AfterCi, Goto, RunFrame, workVars
  <2> QED BY <2>2, <2>3 DEF Publishing
<1>4. CASE PostMergeSmoke
  <2>1. CASE Advance("finalize")
    BY <1>4, <2>1, HopFacts DEF PostMergeSmoke, Hop
  <2>2. CASE ~Advance("finalize")
    BY <1>4, <2>2 DEF PostMergeSmoke, Return, Departure, deliveryVars
  <2> QED BY <2>1, <2>2
<1>5. CASE Finalize
  BY <1>5 DEF Finalize, Return, Departure, deliveryVars
<1> QED BY <1>1, <1>2, <1>3, <1>4, <1>5

\* The quality gate after a run may take a completed run back.
Closing ==
  /\ pc = "mbop" /\ pc' = "done"
  /\ UNCHANGED <<cfg, canceller, loopVars, effortVars, tree, patch, validated, delivery>>
  /\ \/ UNCHANGED runVars
     \/ /\ cfg.enforce_qg /\ status = "completed" /\ status' = "blocked" /\ outcome' = "Blocked"
        /\ failure_class' # ""

\* The cancel call and the other processes: nothing of the worker's own moves.
Meanwhile ==
  /\ UNCHANGED <<cfg, pc, loopVars, att, effortVars, validated, delivery>>
  /\ cancel_requested => cancel_requested'
  /\ patch' \in {patch, CleanTree}
  /\ tree' = tree \/ (tree' = Restored(tree) /\ (cancel_requested \/ Interference))
  /\ \/ UNCHANGED runVars
     \/ cancel_requested /\ status' \in {StatusAfter(status, "cancelling"), StatusAfter(status, "cancelled")}

\* The end of the worker, the cancel call and the other processes.
LEMMA OtherShapes ==
  ASSUME MbopPostRun \/ WorkerException \/ CancelRequest \/ CancelSteps \/ Environment
  PROVE  Closing \/ Departure \/ Meanwhile
<1>1. CASE MbopPostRun
  BY <1>1 DEF MbopPostRun, Closing, workVars, deliveryVars
<1>2. CASE WorkerException
  BY <1>2 DEF WorkerException, Return, Departure, deliveryVars
<1>3. CASE CancelRequest
  BY <1>3 DEF CancelRequest, Meanwhile, cancel_requested, workVars, deliveryVars
<1>4. CASE CancelSteps
  BY <1>4 DEF CancelSteps, CancelTransition, CancelMark, CancelCleanup, Cleanup, RestoreTo,
              Meanwhile, cancel_requested, runVars, workVars, deliveryVars
<1>5. CASE Environment
  BY <1>5 DEF Environment, TreeReverted, OtherSupervisor, Meanwhile, cancel_requested, deliveryVars
<1> QED BY <1>1, <1>2, <1>3, <1>4, <1>5

\* Every step has one of these shapes.
LEMMA StepShapes ==
  ASSUME TypeOK, RepairHasFailure, [Next]_vars
  PROVE  \/ Hop \/ Departure \/ Reasoning \/ Collecting \/ Testing \/ Judging \/ Failing
         \/ Preparing \/ Mending \/ Renewing \/ Committing \/ Publishing \/ Closing \/ Meanwhile
<1>1. CASE UNCHANGED vars
  BY <1>1 DEF vars, Meanwhile, cancel_requested, workVars, deliveryVars
<1>2. CASE Steps
  BY <1>2, PreflightShapes, CollectShapes, ValidateShapes, JudgeShapes, RouteShapes, RepairShapes,
     DeliveryShapes, OtherShapes DEF Steps
<1>3. CASE WorkerException \/ CancelRequest \/ CancelSteps \/ Environment
  BY <1>3, OtherShapes
<1> QED BY <1>1, <1>2, <1>3 DEF Next, Worker, Terminating

-----------------------------------------------------------------------------
(* The safety invariants.                                                  *)

\* A tree whose diff is dangerous has a diff, and it lies inside igris/ and
\* tests/ when every edit does.
SoundTree(t) ==
  /\ t.danger # "safe" => t.tracked # NoEdit
  /\ Scopes = {"inside"} => t.scope = "inside"

\* The trees are sound, edits from before the run do not get past the
\* pre-flight check, and a repair has a failure to work on.
TreeInv ==
  /\ SoundTree(tree) /\ SoundTree(patch)
  /\ tree.tracked = Foreign => pc \in {"start", "git_status", "mbop", "done"}
  /\ patch.tracked # Foreign
  /\ RepairHasFailure

\* NoDangerousCommit strengthened: from the danger check to the commit the tree
\* of an attempt without a failure is not dangerous.
DangerInv ==
  /\ pc = "validate" /\ att.failure = "" /\ tree.danger = "immediate" => att.danger = "immediate"
  /\ pc \in {"judge", "route"} /\ att.failure = "" => tree.danger # "immediate"
  /\ pc \in {"complete", "commit"} => tree.danger # "immediate"
  /\ NoDangerousCommit

\* Nobody else touches the tree.
Undisturbed == ~cancel_requested /\ ~Interference

\* DirectCommitTested strengthened: from its tests to its commit the tree of an
\* attempt without a failure is the one that the tests passed on.
TestedInv ==
  /\ pc \in Working \cup {"commit", "recover"} => ~delivery.committed
  /\ pc = "route" /\ att.failure = "" => Green(att)
  /\ Undisturbed /\ pc \in {"judge", "route"} /\ att.failure = "" /\ Green(att) => validated = tree
  /\ Undisturbed /\ pc \in {"complete", "commit"} => validated = tree
  /\ DirectCommitTested

\* CompletedMeansCommitted strengthened: what follows the commit follows it.
CompletedInv ==
  /\ pc \in {"push", "ci", "merge", "post_merge", "finalize"} => delivery.committed \/ cfg.dry_run
  /\ CompletedMeansCommitted

\* OutcomeAgrees strengthened: unless it is cancelled, a run is running until
\* its worker leaves, or has been marked failed by the budget guard.
OutcomeInv ==
  ~cancel_requested =>
    /\ pc \notin {"mbop", "done"} =>
         status = "running" \/ (status = "failed" /\ pc = "repair_failed")
    /\ pc \in {"mbop", "done"} =>
         /\ status = "completed" <=> outcome = "Completed"
         /\ status \in {"blocked", "failed"} <=> outcome = "Blocked"
         /\ outcome = "Blocked" => failure_class # ""

\* BudgetOvershoot strengthened: a repair begins within the budget.
BudgetInv ==
  /\ pc = "repair_reason" => ~BudgetExceeded
  /\ BudgetOvershoot

SafetyInv == TreeInv /\ DangerInv /\ TestedInv /\ CompletedInv /\ OutcomeInv /\ BudgetInv

\* What the operations on trees do to each part of one.
LEMMA TreeParts ==
  ASSUME NEW t \in TreeType, NEW e \in Nat
  PROVE  /\ /\ Restored(t).tracked = NoEdit /\ Restored(t).danger = "safe"
            /\ Restored(t).scope = "inside" /\ Restored(t).untracked = t.untracked
         /\ /\ Scaffolded(t, e).tracked = t.tracked /\ Scaffolded(t, e).danger = t.danger
            /\ Scaffolded(t, e).scope = t.scope /\ Scaffolded(t, e).untracked = e
         /\ /\ Committed(t).danger = t.danger
            /\ t.scope = "inside" => Committed(t) = t
         /\ LeftBehind(t) = CleanTree
              \/ /\ LeftBehind(t).tracked = t.tracked /\ LeftBehind(t).danger = t.danger
                 /\ LeftBehind(t).scope = t.scope
         /\ CleanTree.tracked = NoEdit /\ CleanTree.danger = "safe" /\ CleanTree.scope = "inside"
<1> USE DEF TreeType
<1>1. CleanTree.tracked = NoEdit /\ CleanTree.danger = "safe" /\ CleanTree.scope = "inside"
  BY DEF CleanTree
<1>2. /\ Restored(t).tracked = NoEdit /\ Restored(t).danger = "safe"
      /\ Restored(t).scope = "inside" /\ Restored(t).untracked = t.untracked
  BY DEF Restored, CleanTree
<1>3. /\ Scaffolded(t, e).tracked = t.tracked /\ Scaffolded(t, e).danger = t.danger
      /\ Scaffolded(t, e).scope = t.scope /\ Scaffolded(t, e).untracked = e
  BY DEF Scaffolded
<1>4. Committed(t).danger = t.danger
  BY DEF Committed
<1>5. t.scope = "inside" => Committed(t) = t
  BY DEF Committed
<1>6. LeftBehind(t) = CleanTree
        \/ /\ LeftBehind(t).tracked = t.tracked /\ LeftBehind(t).danger = t.danger
           /\ LeftBehind(t).scope = t.scope
  BY DEF LeftBehind
<1> QED BY <1>1, <1>2, <1>3, <1>4, <1>5, <1>6

\* What a restore or a scaffold leaves is a sound tree, and no edit from before
\* the run unless there was one.
LEMMA RepairedTree ==
  ASSUME TypeOK, SoundTree(tree), tree' \in RepairTrees
  PROVE  /\ SoundTree(tree')
         /\ tree'.tracked = tree.tracked \/ tree'.tracked = NoEdit
         /\ tree'.danger = tree.danger \/ tree'.danger = "safe"
         /\ tree.untracked # NoEdit => tree'.untracked # NoEdit
<1>0. tree \in TreeType /\ Restored(tree) \in TreeType /\ RepairEdit \in Nat /\ RepairEdit # NoEdit
  <2>1. attempt \in Nat \ {0}
    BY TypeFacts DEF LoopTypes
  <2>2. RepairEdit \in Nat /\ RepairEdit # NoEdit
    BY <2>1 DEF RepairEdit, NoEdit
  <2> QED BY <2>2, TypeFacts, TreeTypes
<1>1. tree' = tree \/ tree' = Restored(tree) \/ tree' = Scaffolded(tree, RepairEdit)
        \/ tree' = Scaffolded(Restored(tree), RepairEdit)
  BY DEF RepairTrees
<1>2. CASE tree' = tree
  BY <1>2
<1>3. CASE tree' = Restored(tree)
  BY <1>0, <1>3, TreeParts DEF SoundTree
<1>4. CASE tree' = Scaffolded(tree, RepairEdit)
  BY <1>0, <1>4, TreeParts DEF SoundTree
<1>5. CASE tree' = Scaffolded(Restored(tree), RepairEdit)
  <2>1. /\ tree'.tracked = NoEdit /\ tree'.danger = "safe" /\ tree'.scope = "inside"
        /\ tree'.untracked = RepairEdit
    BY <1>0, <1>5, TreeParts
  <2> QED BY <1>0, <2>1 DEF SoundTree
<1> QED BY <1>1, <1>2, <1>3, <1>4, <1>5

\* The same for a tree that a restore alone may have touched.
LEMMA RestoredTree ==
  ASSUME TypeOK, SoundTree(tree), tree' \in {tree, Restored(tree)}
  PROVE  /\ SoundTree(tree')
         /\ tree'.tracked = tree.tracked \/ tree'.tracked = NoEdit
         /\ tree'.danger = tree.danger \/ tree'.danger = "safe"
         /\ tree.untracked # NoEdit => tree'.untracked # NoEdit
BY RepairedTree DEF RepairTrees

\* Every step keeps the trees sound.
LEMMA TreeInvStep == ASSUME TypeOK, TreeInv, [Next]_vars PROVE TreeInv'
<1> USE DEF RunFrame
<1>0. /\ SoundTree(tree) /\ SoundTree(patch) /\ RepairHasFailure /\ tree \in TreeType /\ patch \in TreeType
      /\ patch.tracked # Foreign /\ CleanTree.tracked # Foreign /\ SoundTree(CleanTree)
      /\ tree.tracked = Foreign => pc \in {"start", "git_status", "mbop", "done"}
      /\ NoEdit # Foreign
  <2>1. CleanTree.tracked # Foreign /\ SoundTree(CleanTree)
    BY TreeParts, TypeFacts DEF SoundTree, Foreign, NoEdit
  <2> QED BY <2>1, TypeFacts DEF TreeInv, Foreign, NoEdit
<1>1. ASSUME patch' \in {patch, CleanTree}
      PROVE  SoundTree(patch') /\ patch'.tracked # Foreign
  BY <1>0, <1>1
<1>2. ASSUME SoundTree(tree'), SoundTree(patch'), patch'.tracked # Foreign,
             tree'.tracked = Foreign => pc' \in {"start", "git_status", "mbop", "done"},
             pc' \in Repairing => att'.failure # ""
      PROVE  TreeInv'
  BY <1>2 DEF TreeInv, SoundTree, RepairHasFailure
<1>3. CASE Hop
  <2>1. pc = "git_status" => tree.tracked # Foreign
    BY <1>0, <1>3 DEF Hop
  <2>2. tree' = tree /\ patch' = patch /\ (tree.tracked = Foreign => pc' = "git_status")
    BY <1>0, <1>3, <2>1 DEF Hop, RepairHasFailure
  <2>3. pc' \in Repairing => att'.failure # ""
    BY <1>0, <1>3 DEF Hop, RepairHasFailure
  <2> QED BY <1>0, <1>1, <1>2, <2>2, <2>3
<1>4. CASE Departure
  <2>1. SoundTree(tree')
    <3>1. CASE tree' \in {tree, Restored(tree)}
      BY <1>0, <3>1, RestoredTree
    <3>2. CASE tree' = [patch EXCEPT !.untracked = tree.untracked]
      BY <1>0, <3>2 DEF SoundTree, TreeType
    <3> QED BY <1>4, <3>1, <3>2 DEF Departure
  <2>2. patch' \in {patch, CleanTree} /\ pc' = "mbop"
    BY <1>4 DEF Departure
  <2> QED BY <1>1, <1>2, <2>1, <2>2
<1>5. CASE Reasoning
  <2>1. SoundTree(tree') /\ (tree'.tracked = Foreign => tree.tracked = Foreign)
    BY <1>0, <1>5 DEF Reasoning, SoundTree
  <2>2. pc \notin {"start", "git_status", "mbop", "done"} /\ patch' = patch
    BY <1>5 DEF Reasoning
  <2>3. pc' \in Repairing => att'.failure # ""
    BY <1>0, <1>5 DEF Reasoning, RepairHasFailure
  <2> QED BY <1>0, <1>1, <1>2, <2>1, <2>2, <2>3
<1>6. CASE Collecting
  <2>1. tree' = tree /\ pc' = "validate" /\ tree.tracked # Foreign
    BY <1>0, <1>6 DEF Collecting
  <2>2. SoundTree(patch') /\ patch'.tracked # Foreign
    <3>1. CASE patch' = patch
      BY <1>1, <3>1
    <3>2. CASE patch' = [tree EXCEPT !.untracked = NoEdit]
      BY <1>0, <2>1, <3>2 DEF SoundTree, TreeType
    <3> QED BY <1>6, <3>1, <3>2 DEF Collecting
  <2> QED BY <1>0, <1>2, <2>1, <2>2
<1>7. CASE Testing
  <2>1. tree' \in {tree, Restored(tree)} /\ pc = "validate" /\ pc' = "judge" /\ patch' = patch
    BY <1>7 DEF Testing
  <2>2. SoundTree(tree') /\ tree'.tracked # Foreign
    BY <1>0, <2>1, RestoredTree
  <2> QED BY <1>1, <1>2, <2>1, <2>2
<1>8. CASE Judging \/ Renewing \/ Publishing \/ Closing
  <2>1. tree' = tree /\ patch' = patch /\ pc' \notin Repairing
    BY <1>8 DEF Judging, Renewing, Publishing, Closing
  <2>2. tree.tracked = Foreign => pc' \in {"start", "git_status", "mbop", "done"}
    BY <1>0, <1>8 DEF Judging, Renewing, Publishing, Closing
  <2> QED BY <1>0, <1>1, <1>2, <2>1, <2>2
<1>9. CASE Failing \/ Preparing
  <2>1. tree' = tree /\ patch' = patch /\ att'.failure # "" /\ tree.tracked # Foreign
    BY <1>0, <1>9 DEF Failing, Preparing, RepairHasFailure
  <2> QED BY <1>0, <1>1, <1>2, <2>1
<1>10. CASE Mending
  <2>1. SoundTree(tree') /\ tree'.tracked # Foreign
    BY <1>0, <1>10, RepairedTree DEF Mending
  <2>2. patch' = patch /\ att'.failure # ""
    BY <1>0, <1>10 DEF Mending, RepairHasFailure
  <2> QED BY <1>1, <1>2, <2>1, <2>2
<1>11. CASE Committing
  <2>1. SoundTree(tree') /\ tree'.tracked # Foreign
    <3>1. tree.tracked # Foreign
      BY <1>0, <1>11 DEF Committing
    <3>2. tree' = tree \/ tree' = LeftBehind(tree)
      BY <1>11 DEF Committing
    <3> QED BY <1>0, <3>1, <3>2, TreeParts DEF SoundTree
  <2>2. patch' = CleanTree /\ pc' \notin Repairing
    BY <1>11 DEF Committing
  <2> QED BY <1>1, <1>2, <2>1, <2>2
<1>12. CASE Meanwhile
  <2>1. SoundTree(tree') /\ (tree'.tracked = Foreign => tree.tracked = Foreign)
    BY <1>0, <1>12, RestoredTree DEF Meanwhile
  <2>2. pc' = pc /\ att' = att /\ patch' \in {patch, CleanTree}
    BY <1>12 DEF Meanwhile
  <2> QED BY <1>0, <1>1, <1>2, <2>1, <2>2 DEF RepairHasFailure
<1> QED BY <1>0, <1>3, <1>4, <1>5, <1>6, <1>7, <1>8, <1>9, <1>10, <1>11, <1>12, StepShapes

\* Every step keeps dangerous diffs out of commits.
LEMMA DangerInvStep == ASSUME TypeOK, TreeInv, DangerInv, [Next]_vars PROVE DangerInv'
<1> USE DEF RunFrame
<1>0. SoundTree(tree) /\ RepairHasFailure /\ tree \in TreeType
  BY TypeFacts DEF TreeInv
<1>1. ASSUME delivery' = delivery,
             pc' \notin {"validate", "judge", "route", "complete", "commit"}
      PROVE  DangerInv'
  BY <1>1 DEF DangerInv, NoDangerousCommit
<1>2. CASE Hop
  <2>1. /\ tree' = tree /\ att' = att /\ delivery' = delivery
        /\ pc' = "complete" => pc = "route" /\ att.failure = ""
        /\ pc' = "commit" => pc = "complete"
        /\ pc' = "judge" => att.failure # ""
        /\ pc' \notin {"validate", "route"}
    BY <1>2 DEF Hop
  <2> QED BY <2>1 DEF DangerInv, NoDangerousCommit
<1>3. CASE Departure \/ Failing \/ Preparing \/ Mending \/ Renewing \/ Reasoning \/ Closing
  <2>1. delivery' = delivery /\ pc' \notin {"validate", "judge", "route", "complete", "commit"}
    BY <1>3 DEF Departure, Failing, Preparing, Mending, Renewing, Reasoning, Closing
  <2> QED BY <1>1, <2>1
<1>4. CASE Collecting
  BY <1>0, <1>4 DEF Collecting, DangerInv, NoDangerousCommit, SoundTree
<1>5. CASE Testing
  BY <1>5 DEF Testing, DangerInv, NoDangerousCommit, TooDangerous
<1>6. CASE Judging
  BY <1>6 DEF Judging, DangerInv, NoDangerousCommit
<1>7. CASE Committing
  <2>1. pc' \in {"push", "finalize"}
    BY <1>7 DEF Committing
  <2>2. NoDangerousCommit'
    <3>1. CASE pc = "commit" /\ delivery'.content = Committed(tree)
      <4>1. Committed(tree).danger = tree.danger
        BY <1>0, TreeParts
      <4> QED BY <3>1, <4>1 DEF DangerInv, NoDangerousCommit
    <3>2. CASE delivery'.recovered
      BY <3>2 DEF NoDangerousCommit
    <3> QED BY <1>7, <3>1, <3>2 DEF Committing
  <2> QED BY <2>1, <2>2 DEF DangerInv
<1>8. CASE Publishing
  BY <1>8 DEF Publishing, DangerInv, NoDangerousCommit
<1>9. CASE Meanwhile
  <2>1. /\ tree'.danger = tree.danger \/ tree'.danger = "safe"
        /\ pc' = pc /\ att' = att /\ delivery' = delivery
    BY <1>0, <1>9, RestoredTree DEF Meanwhile
  <2> QED BY <2>1 DEF DangerInv, NoDangerousCommit
<1> QED BY <1>0, <1>2, <1>3, <1>4, <1>5, <1>6, <1>7, <1>8, <1>9, StepShapes

\* Every step commits from the tree only what was tested.
LEMMA TestedInvStep == ASSUME TypeOK, TreeInv, TestedInv, [Next]_vars PROVE TestedInv'
<1> USE DEF RunFrame, Working
<1>0. SoundTree(tree) /\ RepairHasFailure /\ tree \in TreeType
  BY TypeFacts DEF TreeInv
<1>1. Undisturbed' => Undisturbed
  <2>1. cancel_requested => cancel_requested'
    BY StepShapes, <1>0 DEF cancel_requested, Hop, Departure, Reasoning, Collecting, Testing, Judging,
       Failing, Preparing, Mending, Renewing, Committing, Publishing, Closing, Meanwhile
  <2> QED BY <2>1 DEF Undisturbed
<1>2. ASSUME delivery' = delivery, validated' = validated,
             pc' \notin {"judge", "route", "complete", "commit"},
             pc' \in Working \cup {"recover"} => pc \in Working \cup {"commit", "recover"}
      PROVE  TestedInv'
  BY <1>1, <1>2 DEF TestedInv, DirectCommitTested, Undisturbed
<1>3. CASE Hop
  <2>1. /\ tree' = tree /\ att' = att /\ delivery' = delivery /\ validated' = validated
        /\ pc' = "complete" => pc = "route" /\ att.failure = ""
        /\ pc' = "commit" => pc = "complete"
        /\ pc' = "judge" => att.failure # ""
        /\ pc' # "route"
        /\ pc' \in Working \cup {"commit", "recover"} => pc \in Working \cup {"commit", "recover"}
    BY <1>3 DEF Hop
  <2> QED BY <1>1, <2>1 DEF TestedInv, DirectCommitTested, Undisturbed
<1>4. CASE Departure \/ Failing \/ Preparing \/ Mending \/ Reasoning \/ Collecting \/ Closing
  <2>1. delivery' = delivery /\ validated' = validated
    BY <1>4 DEF Departure, Failing, Preparing, Mending, Reasoning, Collecting, Closing
  <2>2. /\ pc' \notin {"judge", "route", "complete", "commit"}
        /\ pc' \in Working \cup {"recover"} => pc \in Working \cup {"commit", "recover"}
    BY <1>4 DEF Departure, Failing, Preparing, Mending, Reasoning, Collecting, Closing
  <2> QED BY <1>2, <2>1, <2>2
<1>5. CASE Testing
  <2>1. ~delivery.committed /\ delivery' = delivery
    BY <1>5 DEF Testing, TestedInv
  <2>2. pc' = "judge" /\ (att'.failure = "" /\ Green(att') => validated' = tree')
    BY <1>5 DEF Testing
  <2> QED BY <2>1, <2>2 DEF TestedInv, DirectCommitTested
<1>6. CASE Judging
  <2>1. Green(att') <=> Green(att)
    BY <1>6 DEF Judging
  <2>2. ~delivery.committed /\ delivery' = delivery /\ validated' = validated /\ tree' = tree
    BY <1>6 DEF Judging, TestedInv
  <2>3. pc = "judge" /\ pc' = "route" /\ (att'.failure = "" => att.failure = "" /\ Green(att))
    BY <1>6 DEF Judging
  <2> QED BY <1>1, <2>1, <2>2, <2>3 DEF TestedInv, DirectCommitTested
<1>7. CASE Renewing
  <2>1. ~delivery.committed /\ delivery' = delivery /\ pc' = "attempt"
    BY <1>7 DEF Renewing, TestedInv
  <2> QED BY <2>1 DEF TestedInv, DirectCommitTested
<1>8. CASE Committing
  <2>1. pc' \in {"push", "finalize"} /\ validated' = validated
    BY <1>8 DEF Committing
  <2>2. DirectCommitTested'
    <3>1. CASE delivery'.recovered
      BY <3>1 DEF DirectCommitTested
    <3>2. CASE pc = "commit" /\ delivery'.content = Committed(tree)
      <4>1. tree.scope = "inside" => Committed(tree) = tree
        BY <1>0, TreeParts
      <4>2. Scopes = {"inside"} => Committed(tree) = tree
        BY <1>0, <4>1 DEF SoundTree
      <4> QED BY <1>1, <2>1, <3>2, <4>2 DEF TestedInv, DirectCommitTested, Undisturbed
    <3> QED BY <1>8, <3>1, <3>2 DEF Committing
  <2> QED BY <2>1, <2>2 DEF TestedInv
<1>9. CASE Publishing
  BY <1>1, <1>9 DEF Publishing, TestedInv, DirectCommitTested, Undisturbed
<1>10. CASE Meanwhile
  <2>1. /\ pc' = pc /\ att' = att /\ delivery' = delivery /\ validated' = validated
        /\ Undisturbed' => tree' = tree
    BY <1>1, <1>10 DEF Meanwhile, Undisturbed
  <2> QED BY <1>1, <2>1 DEF TestedInv, DirectCommitTested, Undisturbed
<1> QED BY <1>0, <1>3, <1>4, <1>5, <1>6, <1>7, <1>8, <1>9, <1>10, StepShapes

\* What a transition request leaves behind.
LEMMA AfterRequest ==
  /\ \A s, t : StatusAfter(s, t) \in {s, t}
  /\ \A t : StatusAfter("failed", t) = "failed"
  /\ StatusAfter("running", "blocked") = "blocked"
  /\ StatusAfter("running", "completed") = "completed"
BY DEF StatusAfter, Validate, AllowedTransitions, TERMINAL_STATUSES

\* Every step lets a run end as completed only with a commit.
LEMMA CompletedInvStep == ASSUME TypeOK, TreeInv, CompletedInv, [Next]_vars PROVE CompletedInv'
<1> USE DEF RunFrame
<1>0. RepairHasFailure
  BY DEF TreeInv
<1>1. CASE Hop
  <2>1. /\ status' = status /\ delivery' = delivery /\ cfg' = cfg
        /\ pc' \in {"push", "ci", "merge", "post_merge", "finalize"} => pc = "post_merge" \/ cfg.dry_run
    BY <1>1 DEF Hop, runVars
  <2> QED BY <2>1 DEF CompletedInv, CompletedMeansCommitted
<1>2. CASE Departure
  <2>1. pc' = "mbop" /\ delivery' = delivery /\ cfg' = cfg
    BY <1>2 DEF Departure
  <2>2. status' = "completed" => status = "completed" \/ pc = "finalize" \/ cfg.ui = "card"
    <3>1. /\ StatusAfter(status, "blocked") \in {status, "blocked"}
          /\ StatusAfter(status, "cancelled") \in {status, "cancelled"}
      BY AfterRequest
    <3> QED BY <1>2, <3>1 DEF Departure
  <2> QED BY <2>1, <2>2 DEF CompletedInv, CompletedMeansCommitted
<1>3. CASE Reasoning \/ Collecting \/ Testing \/ Judging \/ Failing \/ Mending \/ Renewing
  <2>1. /\ status' = status /\ delivery' = delivery /\ cfg' = cfg
        /\ pc' \notin {"push", "ci", "merge", "post_merge", "finalize"}
    BY <1>3 DEF Reasoning, Collecting, Testing, Judging, Failing, Mending, Renewing, runVars
  <2> QED BY <2>1 DEF CompletedInv, CompletedMeansCommitted
<1>4. CASE Preparing
  BY <1>4 DEF Preparing, CompletedInv, CompletedMeansCommitted
<1>5. CASE Committing
  BY <1>5 DEF Committing, CompletedInv, CompletedMeansCommitted
<1>6. CASE Publishing
  <2>1. /\ status' = status /\ delivery'.committed = delivery.committed /\ cfg' = cfg
        /\ pc \in {"push", "ci", "merge"}
    BY <1>6 DEF Publishing, runVars
  <2> QED BY <2>1 DEF CompletedInv, CompletedMeansCommitted
<1>7. CASE Closing
  BY <1>7 DEF Closing, CompletedInv, CompletedMeansCommitted, runVars
<1>8. CASE Meanwhile
  <2>1. pc' = pc /\ delivery' = delivery /\ cfg' = cfg
    BY <1>8 DEF Meanwhile
  <2>2. status' = "completed" => status = "completed"
    <3>1. /\ StatusAfter(status, "cancelling") \in {status, "cancelling"}
          /\ StatusAfter(status, "cancelled") \in {status, "cancelled"}
      BY AfterRequest
    <3> QED BY <1>8, <3>1 DEF Meanwhile, runVars
  <2> QED BY <2>1, <2>2 DEF CompletedInv, CompletedMeansCommitted
<1> QED BY <1>0, <1>1, <1>2, <1>3, <1>4, <1>5, <1>6, <1>7, <1>8, StepShapes

\* Every step keeps status, outcome and failure class of an uncancelled run in agreement.
LEMMA OutcomeInvStep == ASSUME TypeOK, TreeInv, OutcomeInv, [Next]_vars PROVE OutcomeInv'
<1> USE DEF RunFrame, cancel_requested
<1>0. RepairHasFailure
  BY DEF TreeInv
<1>1. ASSUME canceller' = canceller, status' = status, pc # "repair_failed",
             pc \notin {"mbop", "done"}, pc' \notin {"mbop", "done"}
      PROVE  OutcomeInv'
  BY <1>1 DEF OutcomeInv
<1>2. CASE \/ Hop \/ Reasoning \/ Collecting \/ Testing \/ Judging \/ Failing \/ Mending
           \/ Renewing \/ Committing \/ Publishing
  <2>1. canceller' = canceller /\ status' = status
    BY <1>2 DEF Hop, Reasoning, Collecting, Testing, Judging, Failing, Mending, Renewing,
                Committing, Publishing, runVars
  <2>2. pc \notin {"repair_failed", "mbop", "done"} /\ pc' \notin {"mbop", "done"}
    BY <1>2 DEF Hop, Reasoning, Collecting, Testing, Judging, Failing, Mending, Renewing,
                Committing, Publishing
  <2> QED BY <1>1, <2>1, <2>2
<1>3. CASE Departure
  <2>1. canceller' = canceller /\ pc' = "mbop" /\ pc \notin {"mbop", "done"}
    BY <1>3 DEF Departure
  <2>2. CASE cancel_requested
    BY <2>1, <2>2 DEF OutcomeInv
  <2>3. CASE ~cancel_requested
    <3>1. status = "running" \/ (status = "failed" /\ pc = "repair_failed")
      BY <2>1, <2>3 DEF OutcomeInv
    <3>2. CASE status' = StatusAfter(status, "blocked") /\ outcome' = "Blocked" /\ failure_class' # ""
      <4>1. status' \in {"blocked", "failed"}
        BY <3>1, <3>2, AfterRequest
      <4> QED BY <2>1, <3>2, <4>1 DEF OutcomeInv
    <3>3. CASE /\ pc # "repair_failed"
               /\ status' = StatusAfter(status, "completed") /\ outcome' = "Completed"
      <4>1. status' = "completed"
        BY <3>1, <3>3, AfterRequest
      <4> QED BY <2>1, <3>3, <4>1 DEF OutcomeInv
    <3> QED BY <1>3, <2>3, <3>2, <3>3 DEF Departure
  <2> QED BY <2>2, <2>3
<1>4. CASE Preparing
  BY <1>4 DEF Preparing, OutcomeInv
<1>5. CASE Closing
  <2>1. pc = "mbop" /\ pc' = "done" /\ canceller' = canceller
    BY <1>5 DEF Closing
  <2>2. CASE UNCHANGED runVars
    BY <2>1, <2>2 DEF OutcomeInv, runVars
  <2>3. CASE status' = "blocked" /\ outcome' = "Blocked" /\ failure_class' # ""
    BY <2>1, <2>3 DEF OutcomeInv
  <2> QED BY <1>5, <2>2, <2>3 DEF Closing
<1>6. CASE Meanwhile
  <2>1. ~cancel_requested' => ~cancel_requested /\ UNCHANGED runVars /\ pc' = pc
    BY <1>6 DEF Meanwhile
  <2> QED BY <2>1 DEF OutcomeInv, runVars
<1> QED BY <1>0, <1>2, <1>3, <1>4, <1>5, <1>6, StepShapes

\* Every step keeps within one call of both budgets.
LEMMA BudgetInvStep == ASSUME TypeOK, TreeInv, BudgetInv, [Next]_vars PROVE BudgetInv'
<1> USE DEF RunFrame
<1>0. RepairHasFailure
  BY DEF TreeInv
<1>1. /\ cfg.max_cost \in Nat /\ cfg.max_calls \in Nat /\ cfg.max_usd \in Nat /\ spent \in Nat
      /\ escalation.calls \in Nat /\ escalation.usd \in Nat
  <2>1. cfg \in ConfigType
    BY TypeFacts, ConfigsAssumption
  <2>2. cfg.max_cost \in Nat /\ cfg.max_calls \in Nat /\ cfg.max_usd \in Nat
    BY <2>1 DEF ConfigType
  <2>3. spent \in Nat /\ escalation.calls \in Nat /\ escalation.usd \in Nat
    BY TypeFacts DEF EffortType
  <2> QED BY <2>2, <2>3
<1>2. ASSUME cfg' = cfg, spent' = spent, escalation' = escalation, pc' # "repair_reason" \/ pc' = pc
      PROVE  BudgetInv'
  BY <1>2 DEF BudgetInv, BudgetOvershoot, BudgetExceeded
<1>3. CASE \/ Hop \/ Departure \/ Collecting \/ Testing \/ Judging \/ Mending \/ Renewing
           \/ Committing \/ Publishing \/ Closing \/ Meanwhile
  <2>1. cfg' = cfg /\ spent' = spent /\ escalation' = escalation
    BY <1>3 DEF Hop, Departure, Collecting, Testing, Judging, Mending, Renewing, Committing,
                Publishing, Closing, Meanwhile, effortVars
  <2>2. pc' # "repair_reason" \/ pc' = pc
    BY <1>3 DEF Hop, Departure, Collecting, Testing, Judging, Mending, Renewing, Committing,
                Publishing, Closing, Meanwhile
  <2> QED BY <1>2, <2>1, <2>2
<1>4. CASE Reasoning
  <2>1. cfg' = cfg /\ escalation' = escalation /\ pc' # "repair_reason"
    BY <1>4 DEF Reasoning
  <2>2. CASE spent' = spent
    BY <1>2, <2>1, <2>2
  <2>3. CASE pc = "repair_reason" /\ \E c \in Costs : spent' = spent + c
    <3>1. PICK c \in Costs : spent' = spent + c
      BY <2>3
    <3>2. c \in Nat
      BY CostsAssumption
    <3>3. cfg.max_cost > 0 => spent' < cfg.max_cost + c
      BY <1>1, <2>3, <3>1, <3>2 DEF BudgetInv, BudgetExceeded
    <3> QED BY <2>1, <3>3 DEF BudgetInv, BudgetOvershoot
  <2> QED BY <1>4, <2>2, <2>3 DEF Reasoning
<1>5. CASE Failing
  <2>1. cfg' = cfg /\ spent' = spent /\ pc' # "repair_reason"
    BY <1>5 DEF Failing
  <2>2. CASE escalation' = escalation
    BY <1>2, <2>1, <2>2
  <2>3. CASE /\ escalation.calls < cfg.max_calls /\ escalation.usd < cfg.max_usd
             /\ escalation'.calls = escalation.calls + 1
             /\ \/ escalation'.usd = escalation.usd
                \/ \E c \in HelperCosts : escalation'.usd = escalation.usd + c
    <3>1. escalation'.calls <= cfg.max_calls
      BY <1>1, <2>3
    <3>2. escalation'.usd > 0 => \E c \in HelperCosts : escalation'.usd < cfg.max_usd + c
      <4>1. CASE escalation'.usd = escalation.usd
        BY <4>1 DEF BudgetInv, BudgetOvershoot
      <4>2. ASSUME NEW c \in HelperCosts, escalation'.usd = escalation.usd + c
            PROVE  escalation'.usd < cfg.max_usd + c
        <5>1. c \in Nat
          BY CostsAssumption
        <5> QED BY <1>1, <2>3, <4>2, <5>1
      <4> QED BY <2>3, <4>1, <4>2
    <3> QED BY <2>1, <3>1, <3>2 DEF BudgetInv, BudgetOvershoot
  <2> QED BY <1>5, <2>2, <2>3 DEF Failing
<1>6. CASE Preparing
  <2>1. /\ cfg' = cfg /\ spent' = spent /\ escalation' = escalation
        /\ pc' = "repair_reason" => ~BudgetExceeded
    BY <1>6 DEF Preparing
  <2> QED BY <2>1 DEF BudgetInv, BudgetOvershoot, BudgetExceeded
<1> QED BY <1>0, <1>3, <1>4, <1>5, <1>6, StepShapes

\* A run starts with sound trees, uncommitted, running and within its budgets.
LEMMA SafetyInit == Init => SafetyInv
<1> SUFFICES ASSUME Init PROVE SafetyInv
  OBVIOUS
<1>0. TypeOK
  BY TypeInit
<1>1. /\ pc = "start" /\ status = "running" /\ canceller = "idle" /\ patch = CleanTree
      /\ tree \in {CleanTree, [CleanTree EXCEPT !.tracked = Foreign]}
      /\ spent = 0 /\ escalation = [calls |-> 0, usd |-> 0] /\ delivery = NoDelivery
  BY DEF Init
<1>2. ~delivery.committed
  BY <1>1, Zenon DEF NoDelivery
<1>3. TreeInv
  <2>1. SoundTree(CleanTree) /\ SoundTree([CleanTree EXCEPT !.tracked = Foreign]) /\ CleanTree.tracked # Foreign
    BY DEF SoundTree, CleanTree, Foreign, NoEdit
  <2> QED BY <1>1, <2>1 DEF TreeInv, RepairHasFailure
<1>4. DangerInv /\ TestedInv /\ CompletedInv
  BY <1>1, <1>2 DEF DangerInv, NoDangerousCommit, TestedInv, DirectCommitTested, CompletedInv,
                    CompletedMeansCommitted
<1>5. OutcomeInv
  BY <1>1 DEF OutcomeInv
<1>6. BudgetInv
  <2>1. cfg \in ConfigType
    BY <1>0, TypeFacts, ConfigsAssumption
  <2>2. cfg.max_cost \in Nat /\ cfg.max_calls \in Nat
    BY <2>1 DEF ConfigType
  <2>3. escalation.calls = 0 /\ escalation.usd = 0
    BY <1>1
  <2> QED BY <1>1, <2>2, <2>3 DEF BudgetInv, BudgetOvershoot
<1> QED BY <1>3, <1>4, <1>5, <1>6 DEF SafetyInv

-----------------------------------------------------------------------------
(* The theorems about what a run commits, reports and spends.              *)

\* TypeOK and the safety invariants together are inductive.
LEMMA SafetyStep == TypeOK /\ SafetyInv /\ [Next]_vars => SafetyInv'
BY TreeInvStep, DangerInvStep, TestedInvStep, CompletedInvStep, OutcomeInvStep, BudgetInvStep
   DEF SafetyInv

\* Every reachable state is well-typed and safe.
LEMMA AlwaysSafe == Spec => [](TypeOK /\ SafetyInv)
BY TypeInit, TypeStep, SafetyInit, SafetyStep, PTL DEF Spec

\* Spec => []NoDangerousCommit: for every configuration, every edit of the
\* reasoning worker and every failing restore, what complete_rank commits from
\* the working tree has passed the danger check of run_rank_loop, also when the
\* cancel API or another process reverts the tree in between.
THEOREM NothingDangerousCommitted == Spec => []NoDangerousCommit
<1>1. SafetyInv => NoDangerousCommit
  BY DEF SafetyInv, DangerInv
<1> QED BY <1>1, AlwaysSafe, PTL

\* Spec => []DirectCommitTested: in a run that nobody cancels or disturbs, with
\* edits inside igris/ and tests/, the tree that complete_rank commits is the
\* tree that targeted tests, full pytest and smoke passed on.
THEOREM CommitsTested == Spec => []DirectCommitTested
<1>1. SafetyInv => DirectCommitTested
  BY DEF SafetyInv, TestedInv
<1> QED BY <1>1, AlwaysSafe, PTL

\* Spec => []CompletedMeansCommitted: however worker, cancel call and quality
\* gate interleave, a run is reported completed only with a commit, in a dry run
\* or with a UI goal that was satisfied already.
THEOREM CompletedHasCommit == Spec => []CompletedMeansCommitted
<1>1. SafetyInv => CompletedMeansCommitted
  BY DEF SafetyInv, CompletedInv
<1> QED BY <1>1, AlwaysSafe, PTL

\* Spec => []OutcomeAgrees: status, outcome and failure class of a run that was
\* never cancelled agree when its worker is done, whichever exit it took.
THEOREM OutcomesAgree == Spec => []OutcomeAgrees
<1>1. SafetyInv => OutcomeAgrees
  BY DEF SafetyInv, OutcomeInv, OutcomeAgrees
<1> QED BY <1>1, AlwaysSafe, PTL

\* Spec => []BudgetOvershoot: for all prices and limits, the execution budget
\* and the helper's are each overshot by less than one call.
THEOREM BudgetsBounded == Spec => []BudgetOvershoot
<1>1. SafetyInv => BudgetOvershoot
  BY DEF SafetyInv, BudgetInv
<1> QED BY <1>1, AlwaysSafe, PTL

\* Spec => ForeignEditsKept: as long as no other process reverts the tree, work
\* that was in it before the run is neither discarded nor committed.
THEOREM ForeignKept == ASSUME ~Interference PROVE Spec => ForeignEditsKept
<1>1. ASSUME TypeOK, TreeInv, [Next]_vars, tree.tracked = Foreign, ~cancel_requested
      PROVE  tree' = tree
  <2>1. RepairHasFailure /\ pc \in {"start", "git_status", "mbop", "done"}
    BY <1>1 DEF TreeInv
  <2>2. CASE \/ Hop \/ Departure \/ Collecting \/ Judging \/ Failing \/ Preparing \/ Renewing
             \/ Publishing \/ Closing
    BY <1>1, <2>1, <2>2 DEF Hop, Departure, Collecting, Judging, Failing, Preparing, Renewing,
                           Publishing, Closing
  <2>3. CASE Reasoning \/ Testing \/ Mending \/ Committing
    BY <2>1, <2>3 DEF Reasoning, Testing, Mending, Committing
  <2>4. CASE Meanwhile
    BY <1>1, <2>4 DEF Meanwhile
  <2> QED BY <1>1, <2>1, <2>2, <2>3, <2>4, StepShapes
<1>2. TypeOK /\ SafetyInv /\ [Next]_vars
        => [tree.tracked = Foreign /\ ~cancel_requested => tree' = tree]_vars
  BY <1>1 DEF SafetyInv
<1> QED BY <1>2, AlwaysSafe, PTL DEF Spec, ForeignEditsKept

\* Spec => NewFilesSurvive: no restore of the worker, of the cancel call or of
\* another process, and no failed recovery of the patch, loses new files of the
\* reasoning worker before a commit has been made.
THEOREM NewFilesKept == Spec => NewFilesSurvive
<1>1. ASSUME TypeOK, TreeInv, [Next]_vars, tree.untracked # NoEdit
      PROVE  tree'.untracked # NoEdit \/ delivery'.committed
  <2>1. RepairHasFailure /\ SoundTree(tree) /\ tree \in TreeType /\ patch \in TreeType
    BY <1>1, TypeFacts DEF TreeInv
  <2>2. tree' \in {tree, Restored(tree)} => tree'.untracked # NoEdit
    BY <1>1, <2>1, RestoredTree
  <2>3. CASE \/ Hop \/ Collecting \/ Testing \/ Judging \/ Failing \/ Preparing \/ Renewing
             \/ Publishing \/ Closing \/ Meanwhile
    BY <2>2, <2>3 DEF Hop, Collecting, Testing, Judging, Failing, Preparing, Renewing,
                      Publishing, Closing, Meanwhile
  <2>4. CASE Departure
    <3>1. [patch EXCEPT !.untracked = tree.untracked].untracked = tree.untracked
      BY <2>1 DEF TreeType
    <3> QED BY <1>1, <2>2, <2>4, <3>1 DEF Departure
  <2>5. CASE Reasoning
    BY <1>1, <2>5 DEF Reasoning
  <2>6. CASE Mending
    BY <1>1, <2>1, <2>6, RepairedTree DEF Mending
  <2>7. CASE Committing
    BY <2>7 DEF Committing
  <2> QED BY <1>1, <2>1, <2>3, <2>4, <2>5, <2>6, <2>7, StepShapes
<1>2. TypeOK /\ SafetyInv /\ [Next]_vars
        => [tree.untracked # NoEdit => tree'.untracked # NoEdit \/ delivery'.committed]_vars
  BY <1>1 DEF SafetyInv
<1> QED BY <1>2, AlwaysSafe, PTL DEF Spec, NewFilesSurvive

\* Spec => StatusRefinesStore: for every configuration without an execution
\* budget and an enforced quality gate, which write the status directly, the run
\* implements the run store's promise step by step: whatever worker and cancel
\* call ask for, the status moves along allowed transitions.
THEOREM StatusRefines ==
  ASSUME \A c \in Configs : c.max_cost = 0 /\ ~c.enforce_qg
  PROVE  Spec => StatusRefinesStore
<1>1. Init => Store!Init
  BY DEF Init, Store!Init
<1>2. ASSUME NEW s \in Statuses, NEW t \in Statuses, status = s, status' = StatusAfter(s, t)
      PROVE  [Store!Next]_status
  <2>1. CASE Validate(s, t)
    BY <1>2, <2>1 DEF StatusAfter, Store!Next, Store!Statuses, Store!Validate, Store!ActiveStatuses,
       Store!TERMINAL_STATUSES, Store!AllowedTransitions, Statuses, ActiveStatuses,
       TERMINAL_STATUSES, Validate, AllowedTransitions
  <2>2. CASE ~Validate(s, t)
    BY <1>2, <2>2 DEF StatusAfter
  <2> QED BY <2>1, <2>2
<1>3. ASSUME TypeOK, TreeInv, [Next]_vars PROVE [Store!Next]_status
  <2>1. RepairHasFailure /\ status \in Statuses /\ cfg \in Configs
    BY <1>3, TypeFacts DEF TreeInv
  <2>2. ~BudgetExceeded /\ ~cfg.enforce_qg
    BY <2>1 DEF BudgetExceeded
  <2>3. {"blocked", "cancelled", "completed", "cancelling"} \subseteq Statuses
    BY DEF Statuses, TERMINAL_STATUSES, ActiveStatuses
  <2>4. ASSUME NEW t \in {"blocked", "cancelled", "completed", "cancelling"},
               status' = StatusAfter(status, t)
        PROVE  [Store!Next]_status
    BY <1>2, <2>1, <2>3, <2>4
  <2>5. CASE \/ Hop \/ Reasoning \/ Collecting \/ Testing \/ Judging \/ Failing \/ Preparing
             \/ Mending \/ Renewing \/ Committing \/ Publishing \/ Closing
    <3>1. status' = status
      BY <2>2, <2>5 DEF Hop, Reasoning, Collecting, Testing, Judging, Failing, Preparing, Mending,
         Renewing, Committing, Publishing, Closing, RunFrame, runVars
    <3> QED BY <3>1
  <2>6. CASE Departure
    BY <2>4, <2>6 DEF Departure
  <2>7. CASE Meanwhile
    BY <2>4, <2>7 DEF Meanwhile, runVars
  <2> QED BY <1>3, <2>1, <2>5, <2>6, <2>7, StepShapes
<1>4. TypeOK /\ SafetyInv /\ [Next]_vars => [Store!Next]_status
  BY <1>3 DEF SafetyInv
<1> QED BY <1>1, <1>4, AlwaysSafe, PTL DEF Spec, StatusRefinesStore, Store!Spec
=============================================================================
