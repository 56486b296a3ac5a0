------------------------------- MODULE RankLoop -------------------------------
(***************************************************************************)
(* One supervised run in single-stage mode, started through the            *)
(* asynchronous API: the worker thread walks through pre-flight, the rank  *)
(* attempts with their repair cycles, and delivery, while another thread   *)
(* may cancel the run through the API.                                     *)
(*                                                                         *)
(* The worker is a program counter pc; an action is the code between two   *)
(* points where the run waits for a command of the backend or looks at its *)
(* cancel flag.  What the backend answers (git, pytest, the reasoning      *)
(* worker, GitHub) is chosen nondeterministically.                         *)
(*                                                                         *)
(* A definition named X_Y that stands before X is a deliberately wrong     *)
(* variant of X; nothing uses it, and the properties must notice it when   *)
(* it takes the place of X.                                                *)
(***************************************************************************)
EXTENDS Integers, RunStatus, FailurePolicy

CONSTANTS
  Configs,         \* the RankSupervisorConfig values a run may have
  Reasonings,      \* the answers of the reasoning worker
  TestRuns,        \* the results of targeted tests, full pytest and smoke
  Dangers,         \* how dangerous an edit of tracked files may be
  Scopes,          \* where the tracked edits of one reasoning call may lie
  RestoreResults,  \* whether git restore and git status may fail
  Costs,           \* what one repair reasoning call may cost
  HelperCosts,     \* what one call of the API helper may cost
  Interference     \* another process may touch the working tree and the patch

\* The fields of RankSupervisorConfig (and the two environment limits) that the
\* run reads.  max_rank_attempts and max_repair_cycles are clamped by from_dict.
ConfigType ==
  [max_rank_attempts : Nat \ {0}, max_repair_cycles : Nat, dry_run : BOOLEAN,
   allow_github_pr : BOOLEAN, allow_merge_if_green : BOOLEAN, semantic_gate : BOOLEAN,
   ui : {"none", "visibility", "card"}, planning : BOOLEAN, issue_number : BOOLEAN,
   max_calls : Nat, max_usd : Nat, max_cost : Nat, enforce_qg : BOOLEAN]

\* files: what files_modified names: nothing, paths that do not exist, or at
\* least one path that exists.
ReasoningType ==
  [stop : StopReasons, files : {"none", "missing", "existing"}, text : Texts]

TestRunType == [targeted : TestResults, full : TestResults, smoke : SmokeResults]

ScopeType == {"inside", "mixed"}

ASSUME ConfigsAssumption == Configs \subseteq ConfigType
ASSUME AnswersAssumption ==
  /\ Reasonings \subseteq ReasoningType
  /\ TestRuns \subseteq TestRunType
  /\ Dangers \subseteq DangerLevels
  /\ Scopes \subseteq ScopeType
  /\ RestoreResults \subseteq BOOLEAN
ASSUME CostsAssumption == Costs \subseteq Nat /\ HelperCosts \subseteq Nat
ASSUME InterferenceAssumption == Interference \in BOOLEAN

VARIABLES
  cfg,             \* the configuration of the run
  pc,              \* where the worker thread is
  status,          \* run.status
  outcome,         \* run.outcome
  failure_class,   \* run.failure_class
  canceller,       \* where the cancel API call is; the flag is set unless "idle"
  attempt,         \* local variables of run_rank_loop ...
  attempt_limit,
  repair_cycles,
  extension_used,  \* ... final_validation_extension_used
  att,             \* what the current attempt has observed
  signals,         \* run.capability_signals
  same,            \* run.same_failure_count and run.last_repair_failure
  spent,           \* run.execution_budget_used_usd
  escalation,      \* run.api_escalations_used and run.api_budget_used_usd
  tree,            \* the working tree, relative to HEAD
  patch,           \* .igris/rank_pending.patch
  validated,       \* the working tree that passed the tests of this attempt
  delivery,        \* what was committed, pushed, found green and merged
  recorded         \* the run statuses written to the assignment outcomes

runVars      == <<status, outcome, failure_class>>
loopVars     == <<attempt, attempt_limit, repair_cycles, extension_used>>
effortVars   == <<same, spent, escalation>>
workVars     == <<tree, patch, validated>>
deliveryVars == <<delivery, recorded>>
vars == <<cfg, pc, runVars, canceller, loopVars, att, signals, effortVars, workVars,
          deliveryVars>>

-----------------------------------------------------------------------------
(* Working trees.  An edit is a number: what was there before the run, or  *)
(* which reasoning call made it (edit 2a by the reasoning of attempt a,    *)
(* 2a + 1 by the repair that follows it).                                  *)

NoEdit  == 0
Foreign == 1
RankEdit   == 2 * attempt
RepairEdit == 2 * attempt + 1

\* tracked: the diff against HEAD; scope "mixed" when part of it lies outside
\* igris/ and tests/.  untracked: new files under igris/ and tests/.
TreeType == [tracked : Nat, danger : DangerLevels, scope : ScopeType, untracked : Nat]

CleanTree == [tracked |-> NoEdit, danger |-> "safe", scope |-> "inside", untracked |-> NoEdit]

Dirty(t) == t.tracked # NoEdit \/ t.untracked # NoEdit

\* git restore . and git clean -e igris -e tests: untracked files survive.
Restored_NoExclude(t) == CleanTree
Restored(t) == [CleanTree EXCEPT !.untracked = t.untracked]

\* restore_dangerous_diff, which may fail and leave the tree alone.
RestoreTo(t, ok) == IF ok THEN Restored(t) ELSE t

Scaffolded(t, edit) == [t EXCEPT !.untracked = edit]

\* What a reasoning call may leave behind: the tree as it was, new tracked
\* changes, new files, or both.
Rewritten(t, edit, d, s) == [t EXCEPT !.tracked = edit, !.danger = d, !.scope = s]
Edited(t, edit) ==
  LET tracked == {t} \cup {Rewritten(t, edit, d, s) : d \in Dangers, s \in Scopes}
  IN  tracked \cup {Scaffolded(u, edit) : u \in tracked}

-----------------------------------------------------------------------------
(* The attempt record and the other types.                                 *)

NoAttempt ==
  [stop |-> "finish", files |-> "none", text |-> "plain", diff |-> FALSE, danger |-> "safe",
   targeted |-> "pass", full |-> "pass", smoke |-> "pass", failure |-> "", high |-> FALSE,
   plan |-> FALSE, repair_stop |-> "finish"]

AttemptType ==
  [stop : StopReasons, files : {"none", "missing", "existing"}, text : Texts, diff : BOOLEAN,
   danger : DangerLevels, targeted : TestResults, full : TestResults, smoke : SmokeResults,
   failure : Failures \cup {""}, high : BOOLEAN, plan : BOOLEAN, repair_stop : StopReasons]

FailureClasses ==
  Failures \cup {"", "user_cancelled", "dependency_skip", "workspace_dirty",
                 "dependency_not_satisfied", "infra_timeout", "decomposition_required",
                 "capability_ceiling_reached", "execution_budget_exceeded",
                 "mbop_quality_gate_failed", "supervisor_bug"}

Preflight == {"start", "git_status", "baseline", "baseline_smoke", "plan"}
Attempting == {"attempt", "branch", "reason", "reasoned", "collect", "validate", "judge", "route"}
Repairing == {"failed", "escalate", "repair", "repair_reason", "repair_diff", "repair_tests",
              "repair_smoke", "repair_failed", "repaired"}
Delivering == {"commit", "recover", "push", "ci", "merge", "post_merge", "finalize"}
Labels == Preflight \cup Attempting \cup Repairing \cup {"complete"} \cup Delivering
            \cup {"mbop", "done"}

NoDelivery == [content |-> CleanTree, committed |-> FALSE, recovered |-> FALSE,
               pushed |-> FALSE, ci |-> FALSE, merged |-> FALSE]

cancel_requested == canceller # "idle"

Init ==
  /\ cfg \in Configs
  /\ pc = "start"
  /\ status = "running" /\ outcome = "" /\ failure_class = ""
  /\ canceller = "idle"
  /\ attempt = 1 /\ repair_cycles = 0 /\ extension_used = FALSE
  /\ attempt_limit = cfg.max_rank_attempts
  /\ att = NoAttempt
  /\ signals = NoSignals
  /\ same = [count |-> 0, last |-> ""]
  /\ spent = 0
  /\ escalation = [calls |-> 0, usd |-> 0]
  /\ tree \in {CleanTree, [CleanTree EXCEPT !.tracked = Foreign]}
  /\ patch = CleanTree      \* __init__ removes a patch left by an earlier run
  /\ validated = CleanTree
  /\ delivery = NoDelivery
  /\ recorded = {}

-----------------------------------------------------------------------------
(* How a run returns.                                                      *)

\* supervisor.run is left: the asynchronous worker goes on to the MBOP hooks.
Return ==
  /\ pc' = "mbop"
  /\ att' = NoAttempt
  /\ UNCHANGED <<cfg, canceller, loopVars, effortVars, validated, deliveryVars>>

\* The git commands of cleanup_blocked_workspace and cleanup_cancelled_workspace.
Cleanup == \E ok \in RestoreResults : tree' = RestoreTo(tree, ok)

\* _blocked, which also removes the pending patch.
Blocked_NoOutcome(f) ==
  /\ status' = StatusAfter(status, "blocked")
  /\ failure_class' = f
  /\ patch' = CleanTree
  /\ Return
  /\ UNCHANGED outcome
Blocked(f) ==
  /\ status' = StatusAfter(status, "blocked")
  /\ outcome' = "Blocked"
  /\ failure_class' = f
  /\ patch' = CleanTree
  /\ Return

\* _blocked with cleanup_workspace=True, and with False (its default).
BlockedClean(f) == Blocked(f) /\ Cleanup
BlockedDirty_Cleaning(f) == BlockedClean(f) /\ UNCHANGED signals
BlockedDirty(f) == Blocked(f) /\ UNCHANGED <<tree, signals>>

\* cancelled (the helper behind _cancelled).
Cancelled ==
  /\ status' = StatusAfter(status, "cancelled")
  /\ outcome' = "Cancelled"
  /\ failure_class' = "user_cancelled"
  /\ Cleanup
  /\ Return
  /\ UNCHANGED <<signals, patch>>

\* _cancel_if_requested, then the rest of the step.
CancelOr(Step) == IF cancel_requested THEN Cancelled ELSE Step

\* complete_noop: the goal is already satisfied, nothing is delivered.
CompleteNoop ==
  /\ status' = StatusAfter(status, "completed")
  /\ outcome' = "Completed"
  /\ Return
  /\ UNCHANGED <<failure_class, signals, patch>>

\* _handle_capability_limit: with the strong model exhausted the run is
\* blocked, otherwise it asks for a decomposition.
HandleCapabilityLimit(sig) ==
  /\ CapabilityLimit(sig)
  /\ BlockedClean(IF StructuralCeiling(sig) THEN "capability_ceiling_reached"
                                            ELSE "decomposition_required")

\* The loop's exits: the capability limit is looked at before the failure.
LimitOrBlocked(f) ==
  /\ IF CapabilityLimit(signals) THEN HandleCapabilityLimit(signals) ELSE BlockedClean(f)
  /\ UNCHANGED signals

\* The run goes on at label l with the same status.
Goto(l) == pc' = l /\ UNCHANGED <<cfg, runVars, canceller, recorded>>

\* The run goes on at label l and has changed nothing.
Advance(l) ==
  Goto(l) /\ UNCHANGED <<loopVars, att, signals, effortVars, workVars, delivery>>

-----------------------------------------------------------------------------
(* Pre-flight: run_preflight_phase.                                        *)

DependencyGate ==
  /\ pc = "start"
  /\ \/ BlockedDirty("dependency_skip")
     \/ CancelOr(Advance("git_status"))

\* Only tracked changes count as a dirty workspace.
GitStatus ==
  /\ pc = "git_status"
  /\ CancelOr(IF tree.tracked # NoEdit
              THEN BlockedDirty("workspace_dirty") \/ BlockedDirty("infrastructure_bug")
              ELSE \/ BlockedDirty("infrastructure_bug")
                   \/ cfg.issue_number /\ BlockedDirty("dependency_not_satisfied")
                   \/ Advance("baseline"))

\* A cached result for this HEAD skips the tests, and the cancel check with
\* them.  Known failures let the run go on like a pass.
BaselineTests ==
  /\ pc = "baseline"
  /\ \/ Advance("baseline_smoke")
     \/ CancelOr(\/ Advance("baseline_smoke")
                 \/ BlockedDirty("infra_timeout")
                 \/ BlockedDirty("pytest_failure"))

BaselineSmoke ==
  /\ pc = "baseline_smoke"
  /\ CancelOr(Advance("plan") \/ BlockedDirty("infrastructure_bug"))

\* Assignment routing and the mission plan; planning may ask for a
\* decomposition before anything is attempted.
PlanMission ==
  /\ pc = "plan"
  /\ \/ Advance("attempt")
     \/ cfg.planning /\ BlockedDirty("decomposition_required")

-----------------------------------------------------------------------------
(* An attempt: run_rank_loop.                                              *)

\* The loop test.  The code after the loop has no action: were it reached, the
\* worker would be stuck here.
StartAttempt_OffByOne ==
  /\ pc = "attempt"
  /\ attempt < attempt_limit
  /\ CancelOr(Advance("branch"))
StartAttempt ==
  /\ pc = "attempt"
  /\ attempt <= attempt_limit
  /\ CancelOr(Advance("branch"))

CreateBranch ==
  /\ pc = "branch"
  /\ CancelOr(Advance("reason") \/ BlockedDirty("infrastructure_bug"))

\* backend.run_reasoning edits the working tree and answers.
NoProgress(a) == a.stop = "no_diff_repair" /\ a.files = "none"

RunReasoning ==
  /\ pc = "reason"
  /\ \E r \in Reasonings :
       /\ att' = [att EXCEPT !.stop = r.stop, !.files = r.files, !.text = r.text]
       /\ signals' = IF NoProgress(r) THEN RecordSignal(signals, "no_diff_repair") ELSE signals
  /\ tree' \in Edited(tree, RankEdit)
  /\ Goto("reasoned")
  /\ UNCHANGED <<loopVars, effortVars, patch, validated, delivery>>

\* The capability limit is looked at before the cancel flag.
AfterReasoning ==
  /\ pc = "reasoned"
  /\ IF NoProgress(att) /\ CapabilityLimit(signals)
     THEN HandleCapabilityLimit(signals) /\ UNCHANGED signals
     ELSE CancelOr(Advance("collect"))

\* The protected UI contract files were edited although the goal holds: the
\* edit is taken back and the run completes as a no-op.
UiContractLocked ==
  \E ok \in RestoreResults :
    IF ok THEN tree' = Restored(tree) /\ CompleteNoop ELSE BlockedDirty("infrastructure_bug")

\* The pre-apply quality gate looks at what a finished reasoning call produced.
Gated(a, diff) == cfg.semantic_gate /\ a.stop = "finish" /\ (a.files # "none" \/ diff)

\* The diff is read and saved as the pending patch before it is judged.
CollectDiff ==
  /\ pc = "collect"
  /\ LET diff == tree.tracked # NoEdit
     IN  IF NoProgress(att)
         THEN /\ att' = [att EXCEPT !.failure = "reasoning_loop_blocked"]
              /\ Goto("validate")
              /\ UNCHANGED <<loopVars, signals, effortVars, workVars, delivery>>
         ELSE \/ cfg.ui = "card" /\ diff /\ UiContractLocked
              \/ /\ patch' = IF diff THEN [tree EXCEPT !.untracked = NoEdit] ELSE patch
                 /\ \E f \in IF Gated(att, diff) THEN {"", "semantic_incomplete"} ELSE {""} :
                      att' = [att EXCEPT !.diff = diff, !.failure = f,
                                         !.danger = IF diff THEN tree.danger ELSE "safe"]
                 /\ Goto("validate")
                 /\ UNCHANGED <<loopVars, signals, effortVars, tree, validated, delivery>>

TooDangerous_Never(a) == FALSE
TooDangerous(a) == a.danger = "immediate"

Green(t) == t.targeted = "pass" /\ t.full = "pass" /\ t.smoke = "pass"

\* A failure found earlier skips the tests, and the danger check with them.
ValidateAttempt ==
  /\ pc = "validate"
  /\ \/ att.failure # "" /\ Advance("judge")
     \/ /\ att.failure = "" /\ TooDangerous(att)
        /\ att' = [att EXCEPT !.failure = "destructive_diff"]
        /\ Cleanup
        /\ Goto("judge")
        /\ UNCHANGED <<loopVars, signals, effortVars, patch, validated, delivery>>
     \/ /\ att.failure = "" /\ ~TooDangerous(att)
        /\ \E t \in TestRuns :
             /\ att' = [att EXCEPT !.targeted = t.targeted, !.full = t.full, !.smoke = t.smoke]
             /\ validated' = IF Green(t) THEN tree ELSE CleanTree
        /\ Goto("judge")
        /\ UNCHANGED <<loopVars, signals, effortVars, tree, patch, delivery>>

\* _rank_passed: the reasoning delivered something that exists, and all is green.
HasDiff(a) == a.diff \/ a.files = "existing"
RankPassed_TargetedOnly(a) ==
  /\ a.files # "none" \/ (HasDiff(a) /\ a.stop = "reasoning_timeout")
  /\ HasDiff(a)
  /\ a.targeted = "pass"
RankPassed(a) ==
  /\ a.files # "none" \/ (HasDiff(a) /\ a.stop = "reasoning_timeout")
  /\ HasDiff(a)
  /\ Green(a)

\* _ui_noop_completion_eligible, up to the contract itself.
UiNoop(a) == cfg.ui = "card" /\ a.failure = "" /\ ~a.diff /\ Green(a)

\* The signals that a judged attempt leaves.
JudgedSignals(a, f) ==
  LET s1 == CASE a.failure # "" \/ f # "reasoning_loop_blocked" -> signals
              [] a.stop \in {"reasoning_timeout", "budget_exceeded", "blocked"} ->
                   RecordSignal(signals, "reasoning_timeout")
              [] a.stop = "no_diff_repair" -> RecordSignal(signals, "no_diff_repair")
              [] OTHER -> signals
  IN  IF a.full = "hung" THEN RecordSignal(s1, "pytest_hang") ELSE s1

\* What the attempt is judged to be: a pass may still lack the visible UI change.
Verdicts(a) ==
  IF a.failure # "" THEN {a.failure}
  ELSE IF ~RankPassed(a)
       THEN {ClassifyFailure(a.stop, a.text, a.danger, a.targeted, a.full, a.smoke)}
  ELSE {""} \cup (IF cfg.ui # "none" THEN {"missing_ui_visibility"} ELSE {})

JudgeAttempt ==
  /\ pc = "judge"
  /\ \/ UiNoop(att) /\ CompleteNoop /\ UNCHANGED tree
     \/ /\ \E f \in Verdicts(att) :
             /\ att' = [att EXCEPT !.failure = f]
             /\ signals' = JudgedSignals(att, f)
        /\ Goto("route")
        /\ UNCHANGED <<loopVars, effortVars, workVars, delivery>>

\* An unreachable provider is not repaired but decomposed; a pass goes through
\* the acceptance gate and its outcome is recorded before it is delivered.
ProviderDown(a) == a.failure = "infrastructure_bug" /\ a.text = "provider_down"

RouteAttempt ==
  /\ pc = "route"
  /\ IF FastTrack(signals, att.failure)
     THEN HandleCapabilityLimit(signals) /\ UNCHANGED signals
     ELSE IF ProviderDown(att)
     THEN /\ signals' = RecordSignal(signals, "reasoning_timeout")
          /\ BlockedClean("decomposition_required")
     ELSE \/ att.failure # "" /\ Advance("failed")
          \/ /\ att.failure = "" /\ cfg.semantic_gate
             /\ att' = [att EXCEPT !.failure = "semantic_incomplete"]
             /\ Goto("failed")
             /\ UNCHANGED <<loopVars, signals, effortVars, workVars, delivery>>
          \/ /\ att.failure = ""
             /\ recorded' = recorded \cup {status}
             /\ pc' = "complete"
             /\ UNCHANGED <<cfg, runVars, canceller, loopVars, att, signals, effortVars,
                            workVars, delivery>>

-----------------------------------------------------------------------------
(* A repair cycle: the end of the loop body and repair_cycle.              *)

\* A failure that cannot be repaired, or a spent budget of cycles, ends the run.
RepairAllowed_OneMore ==
  att.failure \in REPAIRABLE_FAILURES /\ repair_cycles <= cfg.max_repair_cycles
RepairAllowed ==
  att.failure \in REPAIRABLE_FAILURES /\ repair_cycles < cfg.max_repair_cycles

FailedAttempt ==
  /\ pc = "failed"
  /\ IF ~RepairAllowed
     THEN LimitOrBlocked(att.failure)
     ELSE /\ failure_class' = att.failure
          /\ repair_cycles' = repair_cycles + 1
          /\ pc' = "escalate"
          /\ UNCHANGED <<cfg, status, outcome, canceller, attempt, attempt_limit,
                         extension_used, att, signals, effortVars, workVars, deliveryVars>>

\* maybe_api_escalate: within both budgets the helper may be called; a call
\* counts whether it answers or not, its cost only when it does.
Escalate ==
  /\ pc = "escalate"
  /\ \/ UNCHANGED <<att, escalation>>
     \/ /\ escalation.calls < cfg.max_calls /\ escalation.usd < cfg.max_usd
        /\ \/ escalation' = [escalation EXCEPT !.calls = @ + 1] /\ UNCHANGED att
           \/ \E c \in HelperCosts, high, plan \in BOOLEAN :
                /\ escalation' = [calls |-> escalation.calls + 1, usd |-> escalation.usd + c]
                /\ att' = [att EXCEPT !.high = high, !.plan = plan]
  /\ Goto("repair")
  /\ UNCHANGED <<loopVars, signals, same, spent, workVars, delivery>>

BudgetExceeded_Strict == cfg.max_cost > 0 /\ spent > cfg.max_cost
BudgetExceeded == cfg.max_cost > 0 /\ spent >= cfg.max_cost

\* update_same_failure_tracking: how often the failure came back in a row.
Tracked(failure) ==
  [count |-> IF failure = same.last THEN same.count + 1 ELSE 0, last |-> failure]

\* Same-failure tracking, the execution budget, decide_repair_strategy and the
\* provider check.  The budget guard writes the status directly.
PrepareRepair ==
  /\ pc = "repair"
  /\ same' = Tracked(att.failure)
  /\ IF BudgetExceeded
     THEN /\ status' = "failed"
          /\ failure_class' = "execution_budget_exceeded"
          /\ pc' = "repair_failed"
          /\ UNCHANGED outcome
     ELSE /\ pc' \in IF SkipRepair(att.failure, same'.count, att.high)
                     THEN {"repair_failed"} ELSE {"repair_failed", "repair_reason"}
          /\ UNCHANGED runVars
  /\ UNCHANGED <<cfg, canceller, loopVars, att, signals, spent, escalation, workVars,
                 deliveryVars>>

\* The signals that the repair reasoning leaves.
RepairSignals(stop) ==
  IF stop \in {"reasoning_timeout", "budget_exceeded", "blocked"}
  THEN RecordSignal(signals, "reasoning_timeout")
  ELSE IF stop = "max_steps" /\ StrongExecution(att.failure, same.count, att.plan)
  THEN RecordSignal(signals, "max_steps_ceiling")
  ELSE signals

RepairReasoning ==
  /\ pc = "repair_reason"
  /\ \E r \in Reasonings, c \in Costs :
       /\ att' = [att EXCEPT !.repair_stop = r.stop]
       /\ signals' = RepairSignals(r.stop)
       /\ spent' = spent + c
  /\ tree' \in Edited(tree, RepairEdit)
  /\ Goto("repair_diff")
  /\ UNCHANGED <<loopVars, same, escalation, patch, validated, delivery>>

Retryable == att.failure \in RETRYABLE_REPAIR_FAILURES

\* re_scaffold_targeted_test_if_missing may write a missing targeted test; an
\* invalid one stays behind as an untracked file.
Rescaffolded(t) == {t, Scaffolded(t, RepairEdit)}

\* preserve_targeted_tests_after_restore_retry.
Preserved(t) ==
  IF att.failure \in {"missing_tests", "pytest_failure"} THEN Rescaffolded(t) ELSE {t}

\* The repair was taken back: repair_cycle answers False ...
GiveUp(t) == tree' = t /\ pc' = "repair_failed"
\* ... or True, so that the next attempt is made.
Retry(t) == tree' \in Preserved(t) /\ pc' = "repaired"

\* A rejected repair: without a working restore the cycle fails.
Reject(then) ==
  \E ok \in RestoreResults :
    IF ~ok THEN GiveUp(tree) ELSE IF then THEN Retry(Restored(tree)) ELSE GiveUp(Restored(tree))

\* Whatever the restore says: a failed pytest repair may go on with a new
\* scaffold, and a retryable failure goes on anyway when "then" allows it.
RestoreAndRetry(then) ==
  \E ok \in RestoreResults :
    LET t == RestoreTo(tree, ok)
    IN  \/ /\ att.failure = "pytest_failure"
           /\ tree' = Scaffolded(t, RepairEdit) /\ pc' = "repaired"
        \/ IF then THEN Retry(t)
           ELSE /\ tree' \in IF att.failure = "pytest_failure" THEN Rescaffolded(t) ELSE {t}
                /\ pc' = "repair_failed"

\* A missing-tests repair whose diff is not a valid test file is replaced by a
\* scaffold, which is tested like any other repair.
ReplaceByScaffold ==
  \E ok \in RestoreResults :
    IF ~ok THEN GiveUp(tree)
    ELSE \/ tree' = Restored(tree) /\ pc' = "repaired"
         \/ /\ tree' = Scaffolded(Restored(tree), RepairEdit)
            /\ pc' \in {"repair_tests", "repaired"}

\* The diff of the repair, before its tests.
RepairDiff ==
  /\ pc = "repair_diff"
  /\ IF att.repair_stop = "reasoning_timeout"
     THEN RestoreAndRetry(FALSE) /\ UNCHANGED signals
     ELSE \/ \E ok \in RestoreResults : GiveUp(RestoreTo(tree, ok)) /\ UNCHANGED signals
          \/ tree.danger # "safe" /\ Reject(Retryable) /\ UNCHANGED signals
          \/ /\ tree.tracked # NoEdit /\ tree.danger = "safe"
             /\ Reject(TRUE)
             /\ UNCHANGED signals
          \/ /\ tree.danger = "safe" /\ att.failure = "missing_tests"
             /\ ReplaceByScaffold
             /\ UNCHANGED signals
          \/ /\ tree.tracked = NoEdit /\ att.failure # "missing_tests"
             /\ signals' = RecordSignal(signals, "no_diff_repair")
             /\ RestoreAndRetry(Retryable)
          \/ /\ tree.tracked # NoEdit /\ tree.danger = "safe"
             /\ pc' = "repair_tests"
             /\ UNCHANGED <<tree, signals>>
  /\ UNCHANGED <<cfg, runVars, canceller, loopVars, att, effortVars, patch, validated,
                 deliveryVars>>

\* The repair is validated by full pytest.
RepairTests ==
  /\ pc = "repair_tests"
  /\ \/ /\ pc' = IF att.high THEN "repair_smoke" ELSE "repaired"
        /\ UNCHANGED <<tree, signals>>
     \/ /\ \E hung \in BOOLEAN :
             signals' = IF hung THEN RecordSignal(signals, "pytest_hang") ELSE signals
        /\ IF att.failure = "missing_tests"
           THEN pc' = "repaired" /\ UNCHANGED tree
           ELSE RestoreAndRetry(Retryable)
  /\ UNCHANGED <<cfg, runVars, canceller, loopVars, att, effortVars, patch, validated,
                 deliveryVars>>

\* High-risk advice asks for a smoke test on top.
RepairSmoke ==
  /\ pc = "repair_smoke"
  /\ \/ pc' = "repaired" /\ UNCHANGED tree
     \/ /\ Cleanup
        /\ pc' = IF Retryable THEN "repaired" ELSE "repair_failed"
  /\ UNCHANGED <<cfg, runVars, canceller, loopVars, att, signals, effortVars, patch,
                 validated, deliveryVars>>

RepairFailed == pc = "repair_failed" /\ LimitOrBlocked(att.failure)

\* A repair on the last attempt extends the limit: while cycles are left, and
\* once more after that.
NextAttempt ==
  /\ pc = "repaired"
  /\ \/ attempt # attempt_limit /\ UNCHANGED <<attempt_limit, extension_used>>
     \/ /\ attempt = attempt_limit /\ repair_cycles < cfg.max_repair_cycles
        /\ attempt_limit' = attempt_limit + 1
        /\ UNCHANGED extension_used
     \/ /\ attempt = attempt_limit /\ repair_cycles >= cfg.max_repair_cycles
        /\ attempt_limit' = IF extension_used THEN attempt_limit ELSE attempt_limit + 1
        /\ extension_used' = TRUE
  /\ attempt' = attempt + 1
  /\ att' = NoAttempt
  /\ validated' = CleanTree
  /\ Goto("attempt")
  /\ UNCHANGED <<repair_cycles, signals, effortVars, tree, patch, delivery>>

-----------------------------------------------------------------------------
(* Delivery: complete_rank, then the MBOP hooks of the worker thread.      *)

\* The last look at the cancel flag: nothing after this reads it.
CompleteRank_Unchecked ==
  pc = "complete" /\ Advance(IF cfg.dry_run THEN "finalize" ELSE "commit")
CompleteRank ==
  /\ pc = "complete"
  /\ CancelOr(Advance(IF cfg.dry_run THEN "finalize" ELSE "commit"))

AfterCommit_NoLabel == IF cfg.allow_github_pr THEN "open_pr" ELSE "finalize"
AfterCommit == IF cfg.allow_github_pr THEN "push" ELSE "finalize"

\* git add igris tests; git commit.  Tracked changes elsewhere stay behind.
Committed(t) == [t EXCEPT !.scope = "inside"]
LeftBehind(t) == IF t.scope = "mixed" THEN [t EXCEPT !.untracked = NoEdit] ELSE CleanTree

\* On a clean tree there is nothing to commit and the pending patch decides.
NothingToCommit_Success ==
  IF patch # CleanTree THEN Advance("recover") ELSE Advance(AfterCommit)
NothingToCommit ==
  IF patch # CleanTree THEN Advance("recover") ELSE BlockedDirty("infrastructure_bug")

Commit ==
  /\ pc = "commit"
  /\ IF Dirty(tree)
     THEN \/ BlockedDirty("infrastructure_bug")
          \/ /\ delivery' = [delivery EXCEPT !.content = Committed(tree), !.committed = TRUE]
             /\ tree' = LeftBehind(tree)
             /\ patch' = CleanTree
             /\ Goto(AfterCommit)
             /\ UNCHANGED <<loopVars, att, signals, effortVars, validated>>
     ELSE NothingToCommit

\* git apply --index of the patch, and a second commit.  A patch that does not
\* apply, or a commit that fails, blocks the run; the latter leaves the patch applied.
RecoverPatch ==
  /\ pc = "recover"
  /\ \/ BlockedDirty("infrastructure_bug")
     \/ /\ patch # CleanTree
        /\ Blocked("infrastructure_bug")
        /\ tree' = [patch EXCEPT !.untracked = tree.untracked]
        /\ UNCHANGED signals
     \/ /\ patch # CleanTree
        /\ delivery' = [delivery EXCEPT !.content = patch, !.committed = TRUE,
                                        !.recovered = TRUE]
        /\ patch' = CleanTree
        /\ Goto(AfterCommit)
        /\ UNCHANGED <<loopVars, att, signals, effortVars, tree, validated>>

\* push_branch and open_pr: a failure is noted and ignored.
Push ==
  /\ pc = "push"
  /\ \E ok \in BOOLEAN : delivery' = [delivery EXCEPT !.pushed = ok]
  /\ Goto("ci")
  /\ UNCHANGED <<loopVars, att, signals, effortVars, workVars>>

\* gh pr checks --watch: no checks are green without a pushed branch.
AfterCi_Unchecked(green) == IF cfg.allow_merge_if_green THEN "merge" ELSE "finalize"
AfterCi(green) == IF cfg.allow_merge_if_green /\ green THEN "merge" ELSE "finalize"

WaitCi ==
  /\ pc = "ci"
  /\ \E green \in BOOLEAN :
       /\ green => delivery.pushed
       /\ delivery' = [delivery EXCEPT !.ci = green]
       /\ Goto(AfterCi(green))
  /\ UNCHANGED <<loopVars, att, signals, effortVars, workVars>>

\* merge_pr and pull_main: a failure is noted and ignored.
Merge ==
  /\ pc = "merge"
  /\ \E ok \in BOOLEAN : delivery' = [delivery EXCEPT !.merged = ok]
  /\ Goto("post_merge")
  /\ UNCHANGED <<loopVars, att, signals, effortVars, workVars>>

\* The smoke test after the merge, put off when the runtime needs a restart.
PostMergeSmoke ==
  /\ pc = "post_merge"
  /\ \/ Advance("finalize")
     \/ /\ status' = StatusAfter(status, "blocked")
        /\ outcome' = "Blocked"
        /\ failure_class' = "infrastructure_bug"
        /\ Return
        /\ UNCHANGED <<signals, tree, patch>>

Finalize_Direct ==
  /\ pc = "finalize"
  /\ status' = "completed"
  /\ outcome' = "Completed"
  /\ Return
  /\ UNCHANGED <<failure_class, signals, tree, patch>>
Finalize_NoStatus ==
  /\ pc = "finalize"
  /\ outcome' = "Completed"
  /\ Return
  /\ UNCHANGED <<status, failure_class, signals, tree, patch>>
Finalize ==
  /\ pc = "finalize"
  /\ status' = StatusAfter(status, "completed")
  /\ outcome' = "Completed"
  /\ Return
  /\ UNCHANGED <<failure_class, signals, tree, patch>>

\* mbop_post_run: an enforced quality gate takes a completed run back, writing
\* the status directly.
MbopPostRun ==
  /\ pc = "mbop"
  /\ pc' = "done"
  /\ \/ UNCHANGED runVars
     \/ /\ cfg.enforce_qg /\ status = "completed"
        /\ status' = "blocked"
        /\ outcome' = "Blocked"
        /\ failure_class' = "mbop_quality_gate_failed"
  /\ UNCHANGED <<cfg, canceller, loopVars, att, signals, effortVars, workVars, deliveryVars>>

\* The except clause of the worker thread, for any step of supervisor.run.
WorkerException ==
  /\ pc \notin {"mbop", "done"}
  /\ status' = StatusAfter(status, "blocked")
  /\ outcome' = "Blocked"
  /\ failure_class' = "supervisor_bug"
  /\ Return
  /\ UNCHANGED <<signals, tree, patch>>

-----------------------------------------------------------------------------
(* The API thread: cancel_supervised_run.                                  *)

\* The status is read and the flag is set.
CancelRequest ==
  /\ canceller = "idle"
  /\ status \notin TERMINAL_RUN_STATUSES
  /\ canceller' = "requested"
  /\ UNCHANGED <<cfg, pc, runVars, loopVars, att, signals, effortVars, workVars, deliveryVars>>

\* A new SelfRepairSupervisor removes the pending patch; then "cancelling".
CancelTransition ==
  /\ canceller = "requested"
  /\ canceller' = "cancelling"
  /\ patch' = CleanTree
  /\ status' = StatusAfter(status, "cancelling")
  /\ UNCHANGED <<cfg, pc, outcome, failure_class, loopVars, att, signals, effortVars, tree,
                 validated, deliveryVars>>

\* The first half of cancelled, run by the API thread ...
CancelMark ==
  /\ canceller = "cancelling"
  /\ canceller' = "cleaning"
  /\ status' = StatusAfter(status, "cancelled")
  /\ outcome' = "Cancelled"
  /\ failure_class' = "user_cancelled"
  /\ UNCHANGED <<cfg, pc, loopVars, att, signals, effortVars, workVars, deliveryVars>>

\* ... and its second half, in the tree that the worker is using.
CancelCleanup ==
  /\ canceller = "cleaning"
  /\ canceller' = "finished"
  /\ Cleanup
  /\ UNCHANGED <<cfg, pc, runVars, loopVars, att, signals, effortVars, patch, validated,
                 deliveryVars>>

-----------------------------------------------------------------------------
(* Other processes that share the checkout.                                *)

\* A watchdog's cleanup reverts the tree.
TreeReverted ==
  /\ Interference
  /\ Dirty(tree)
  /\ tree' = Restored(tree)
  /\ UNCHANGED <<cfg, pc, runVars, canceller, loopVars, att, signals, effortVars, patch,
                 validated, deliveryVars>>

\* Any other SelfRepairSupervisor removes the pending patch when it is created.
OtherSupervisor ==
  /\ Interference
  /\ patch # CleanTree
  /\ patch' = CleanTree
  /\ UNCHANGED <<cfg, pc, runVars, canceller, loopVars, att, signals, effortVars, tree,
                 validated, deliveryVars>>

-----------------------------------------------------------------------------

Steps ==
  \/ DependencyGate \/ GitStatus \/ BaselineTests \/ BaselineSmoke \/ PlanMission
  \/ StartAttempt \/ CreateBranch \/ RunReasoning \/ AfterReasoning \/ CollectDiff
  \/ ValidateAttempt \/ JudgeAttempt \/ RouteAttempt
  \/ FailedAttempt \/ Escalate \/ PrepareRepair \/ RepairReasoning \/ RepairDiff
  \/ RepairTests \/ RepairSmoke \/ RepairFailed \/ NextAttempt
  \/ CompleteRank \/ Commit \/ RecoverPatch \/ Push \/ WaitCi \/ Merge \/ PostMergeSmoke
  \/ Finalize \/ MbopPostRun

Worker == Steps \/ WorkerException

CancelSteps == CancelTransition \/ CancelMark \/ CancelCleanup

Environment == TreeReverted \/ OtherSupervisor

\* The worker thread is done; without this step TLC would call it a deadlock.
Terminating == pc = "done" /\ UNCHANGED vars

Next == Worker \/ CancelRequest \/ CancelSteps \/ Environment \/ Terminating

\* Both threads are scheduled by the operating system and every command of the
\* backend has a timeout, so a thread that can go on does.  An exception is
\* never owed.
Fairness == WF_vars(Steps) /\ WF_vars(CancelSteps)

Spec == Init /\ [][Next]_vars /\ Fairness

-----------------------------------------------------------------------------
(* Properties.                                                             *)

\* Every variable of the run stays in its domain (the run's fields, the local
\* variables of run_rank_loop, the tree and what was delivered).
TypeOK ==
  /\ cfg \in Configs
  /\ pc \in Labels
  /\ status \in Statuses
  /\ outcome \in {"", "Completed", "Blocked", "Cancelled"}
  /\ failure_class \in FailureClasses
  /\ canceller \in {"idle", "requested", "cancelling", "cleaning", "finished"}
  /\ attempt \in Nat \ {0} /\ attempt_limit \in Nat /\ repair_cycles \in Nat
  /\ extension_used \in BOOLEAN
  /\ att \in AttemptType
  /\ signals \in [CapabilitySignals -> Nat]
  /\ same \in [count : Nat, last : Failures \cup {""}]
  /\ spent \in Nat
  /\ escalation \in [calls : Nat, usd : Nat]
  /\ tree \in TreeType /\ patch \in TreeType /\ validated \in TreeType
  /\ delivery \in [content : TreeType, committed : BOOLEAN, recovered : BOOLEAN,
                   pushed : BOOLEAN, ci : BOOLEAN, merged : BOOLEAN]
  /\ recorded \subseteq Statuses

\* The repair budget bounds the attempts, whatever max_rank_attempts says: every
\* attempt but the last is followed by one repair cycle, the limit is always
\* extended in time, and the code after the loop of run_rank_loop is never reached.
AttemptBound ==
  /\ attempt <= cfg.max_repair_cycles + 1
  /\ repair_cycles <= cfg.max_repair_cycles
  /\ pc = "attempt" => attempt <= attempt_limit /\ repair_cycles = attempt - 1

\* What complete_rank commits from the working tree is the tree that targeted
\* tests, full pytest and smoke passed on, as long as nobody else touches the
\* tree, the edits stay under igris/ and tests/, and the patch is not needed.
DirectCommitTested ==
  delivery.committed /\ ~delivery.recovered /\ ~cancel_requested
      /\ ~Interference /\ Scopes = {"inside"}
    => delivery.content = validated

\* A diff that the danger check of run_rank_loop rejects (.env, .venv, a removed
\* create_app) is never committed from the working tree, not even when the
\* restore fails, the run is cancelled or the tree is reverted meanwhile.
NoDangerousCommit ==
  delivery.committed /\ ~delivery.recovered => delivery.content.danger # "immediate"

\* A merge has behind it a commit that was pushed and found green, in a run
\* whose configuration allows it; a blocked, failed or cancelled delivery has
\* merged nothing unless its own commit went through CI.
MergeGate ==
  /\ delivery.merged => delivery.ci /\ cfg.allow_merge_if_green
  /\ delivery.ci => delivery.pushed /\ cfg.allow_github_pr
  /\ delivery.pushed => delivery.committed /\ ~cfg.dry_run

\* A run that ends as completed has committed its work, unless it was a dry run
\* or the UI goal was found satisfied already.
CompletedMeansCommitted ==
  status = "completed" => delivery.committed \/ cfg.dry_run \/ cfg.ui = "card"

\* Without a cancel request the three fields of a finished run agree: run.status,
\* run.outcome and run.failure_class are written separately and in two modules.
OutcomeAgrees ==
  pc = "done" /\ ~cancel_requested =>
    /\ status = "completed" <=> outcome = "Completed"
    /\ status \in {"blocked", "failed"} <=> outcome = "Blocked"
    /\ outcome = "Blocked" => failure_class # ""

\* The execution budget is looked at before a repair and charged after it, the
\* helper's likewise: each is overshot by less than one call.
BudgetOvershoot ==
  /\ cfg.max_cost > 0 /\ spent >= cfg.max_cost => \E c \in Costs : spent < cfg.max_cost + c
  /\ escalation.calls <= cfg.max_calls
  /\ escalation.usd > 0 => \E c \in HelperCosts : escalation.usd < cfg.max_usd + c

\* The pre-flight check protects work that was in the tree before the run: no
\* step of the worker discards or commits it.
ForeignEditsKept ==
  [][tree.tracked = Foreign /\ ~cancel_requested => tree' = tree]_vars

\* New files of the reasoning worker survive every restore of the supervisor and
\* of the cancel API, from attempt to attempt, until they are committed.
NewFilesSurvive ==
  [][tree.untracked # NoEdit => tree'.untracked # NoEdit \/ delivery'.committed]_vars

\* Once the cancel flag is set, a worker that has not begun to deliver never
\* does: every way to the commit passes the check of complete_rank.
CancelStopsDelivery ==
  [][cancel_requested /\ pc \notin Delivering => pc' \notin Delivering]_vars

\* The run store's promise (RunStatusSpec), for the status of this run: whatever
\* worker and cancel call ask for, the status moves along allowed transitions.
\* For runs without an execution budget and an enforced quality gate, which
\* write the status directly, and with a status request taken as one step
\* (RunLifecycle takes it apart).
Store == INSTANCE RunStatusSpec
StatusRefinesStore == Store!Spec

\* The worker thread ends: no loop of attempts, repairs and extensions goes on
\* for ever.
WorkerEnds == <>(pc = "done")

\* The run ends in a terminal status and stays in one, also when both threads
\* write the status.
StatusSettles == <>[](status \in TERMINAL_STATUSES)

\* A cancel request that finds the run still preparing or attempting ends it as
\* cancelled, or as blocked when the worker gives up first; it is not reported
\* completed, unless a UI goal turns out to be satisfied already.
CancelSettles ==
  (cancel_requested /\ pc \in Preflight \cup Attempting /\ cfg.ui # "card")
    ~> [](status \in {"cancelled", "blocked", "failed"})

-----------------------------------------------------------------------------
(* What comments and tests of the repository say, and the code does not do. *)

\* "Full pytest passed before merge consideration." (the body of every PR): what
\* a run that nobody cancels commits is what its tests ran on.
UncancelledCommitTested ==
  delivery.committed /\ ~cancel_requested => delivery.content = validated
=============================================================================
