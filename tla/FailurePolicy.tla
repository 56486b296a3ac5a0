---------------------------- MODULE FailurePolicy ----------------------------
(***************************************************************************)
(* The decisions of the supervisor that depend on data alone: how a failed *)
(* attempt is classified, which failures may be repaired or retried, when  *)
(* the capability signals of a run reach the limit and when the repair     *)
(* strategy gives up.                                                      *)
(***************************************************************************)
EXTENDS Integers

\* Failures that a repair cycle may be spent on (the same set twice in the
\* code: REPAIRABLE_FAILURES and REPAIRABLE).
REPAIRABLE_FAILURES ==
  {"pytest_failure", "reasoning_loop_blocked", "max_steps", "ask_user", "missing_tests",
   "missing_ui_visibility", "wrong_file_edit", "infrastructure_bug", "invalid_bootstrap",
   "syntax_error", "semantic_incomplete", "test_runner_timeout"}

\* Failures after which a rejected repair is retried with the remaining budget.
RETRYABLE_REPAIR_FAILURES ==
  {"reasoning_loop_blocked", "missing_ui_visibility", "missing_tests", "wrong_file_edit",
   "max_steps", "syntax_error", "pytest_failure"}

CEILING_SIGNAL_FAILURES == {"pytest_failure", "max_steps", "reasoning_loop_blocked"}

CAPABILITY_LIMIT_THRESHOLD == 2

\* What run.capability_signals counts.
CapabilitySignals == {"reasoning_timeout", "pytest_hang", "no_diff_repair", "max_steps_ceiling"}

NoSignals == [s \in CapabilitySignals |-> 0]

\* _record_capability_signal.
RecordSignal(signals, s) == [signals EXCEPT ![s] = @ + 1]

SignalTotal(signals) ==
  signals["reasoning_timeout"] + signals["pytest_hang"]
    + signals["no_diff_repair"] + signals["max_steps_ceiling"]

\* _detect_capability_limit: one signal, or all of them together, at the limit.
CapabilityLimit(signals) ==
  \/ \E s \in CapabilitySignals : signals[s] >= CAPABILITY_LIMIT_THRESHOLD
  \/ SignalTotal(signals) >= CAPABILITY_LIMIT_THRESHOLD

\* _should_fast_track_capability_limit.
FastTrack(signals, failure) ==
  /\ failure \in {"reasoning_loop_blocked", "pytest_failure", "test_runner_timeout",
                  "infrastructure_bug"}
  /\ CapabilityLimit(signals)

\* _is_structural_ceiling.
StructuralCeiling(signals) == signals["max_steps_ceiling"] >= 1

-----------------------------------------------------------------------------
(* Observations of one attempt, abstracted to what the code tells apart.   *)

\* The stop reasons of the reasoning worker; "finish" comes with status
\* "finished", the others with an unfinished one.
StopReasons == {"finish", "reasoning_timeout", "budget_exceeded", "no_diff_repair",
                "max_steps", "ask_user", "blocked"}

\* What the reasoning text shows: an unreachable provider, a syntax error, a
\* goal about tests with no test file touched, or a diff that quotes a syntax error.
Texts == {"plain", "provider_down", "syntax", "untested", "diff_syntax"}

\* A test run passes, fails, is killed by its timeout, or has no such target.
TestResults == {"pass", "fail", "hung", "missing"}

SmokeResults == {"pass", "fail", "bootstrap"}

\* _has_destructive_diff is the wider check; _has_immediately_dangerous_diff
\* is the part of it applied before the tests.
DangerLevels == {"safe", "destructive", "immediate"}

\* classify_failure, its tests in their order.
ClassifyFailure(stop, text, danger, targeted, full, smoke) ==
  IF danger # "safe"                                THEN "destructive_diff"
  ELSE IF text = "provider_down"                    THEN "infrastructure_bug"
  ELSE IF "hung" \in {targeted, full}               THEN "test_runner_timeout"
  ELSE IF targeted = "missing"                      THEN "missing_tests"
  ELSE IF targeted = "fail" \/ full # "pass"        THEN "pytest_failure"
  ELSE IF text = "syntax"                           THEN "syntax_error"
  ELSE IF stop \in {"reasoning_timeout", "budget_exceeded", "no_diff_repair", "blocked"}
                                                    THEN "reasoning_loop_blocked"
  ELSE IF stop \in {"max_steps", "ask_user"}        THEN stop
  ELSE IF text = "untested"                         THEN "missing_tests"
  ELSE IF text = "diff_syntax"                      THEN "syntax_error"
  ELSE IF smoke = "bootstrap"                       THEN "invalid_bootstrap"
  ELSE "infrastructure_bug"

Failures == REPAIRABLE_FAILURES \cup {"destructive_diff"}

\* decide_repair_strategy, reduced to its skip_repair: a failure that cannot
\* be repaired, one that keeps recurring, or risky advice about a recurring one.
SkipRepair(failure, same_failure_count, high_risk) ==
  \/ failure \notin REPAIRABLE_FAILURES
  \/ same_failure_count >= CAPABILITY_LIMIT_THRESHOLD /\ failure \in CEILING_SIGNAL_FAILURES
  \/ high_risk /\ same_failure_count >= 1

\* The profile the repair runs with is strong_execution: a helper plan decides
\* by the recurrence count, otherwise the failure class does.
MAX_SAME_FAILURE_RETRIES == 2
StrongExecution(failure, same_failure_count, plan) ==
  IF plan THEN same_failure_count >= MAX_SAME_FAILURE_RETRIES ELSE failure = "max_steps"
=============================================================================
