----------------------------- MODULE AgentLoop -----------------------------
(***************************************************************************)
(* AgentReasoningLoop.run: up to max_steps steps, each of them an action   *)
(* chosen by a model, filtered by the anti-repeat, contract and schema     *)
(* guards, executed on the working tree, and followed by the read-loop     *)
(* guard, a checkpoint and the bookkeeping of its outcome.  With it the    *)
(* edit handlers of AgentLoopEditMixin and LoopCheckpointManager.          *)
(*                                                                         *)
(* A step is three atomic pieces (executed, saved, tracked); a shutdown    *)
(* signal can come between them.  An action is its kind, the path it names *)
(* and the content it writes; the model may choose any, so the redirection *)
(* of the chosen action (to a test file still to be created, to the file   *)
(* the micro-step planner wants read) needs no step of its own.            *)
(***************************************************************************)
EXTENDS Naturals, FiniteSets

CONSTANTS
  Paths,                    \* source files
  Texts,                    \* contents an edit may leave behind
  max_steps,
  max_consecutive_errors,
  no_diff_steps_max,
  AutoCommitThreshold,      \* _READ_LOOP_AUTO_COMMIT_THRESHOLD
  AutoCommitEvery,          \* the 10 in steps_without_write % 10
  repeat_threshold

ASSUME LoopConstants ==
  /\ Paths # {} /\ Texts \subseteq Nat \ {0}
  /\ {max_steps, max_consecutive_errors, repeat_threshold, AutoCommitEvery} \subseteq Nat \ {0}
  \* The defaults (20 or 50, against 20 and 10) let an attempt coincide with
  \* the last read-only step.
  /\ no_diff_steps_max \in Nat /\ AutoCommitThreshold \in 1 .. no_diff_steps_max
  /\ no_diff_steps_max % AutoCommitEvery = 0

VARIABLES
  suppressed,    \* must_not_ask_user or suppress_human_gate in the context
  loopAt,        \* top | executed | saved | returned
  stepNum,       \* the step being executed
  stepOutcome,   \* its outcome, until it is tracked
  errorsInRow,   \* _consecutive_errors
  dry,           \* _steps_without_write
  tree,          \* the working tree: path -> content, 0 when absent
  index,         \* git's index: path -> content, 0 when untracked
  history,       \* _action_history: action -> [n: successes, used: result referenced since]
  unused,        \* action -> its successes since its result was last referenced
  commitFailed,  \* an automatic commit has failed
  checkpoint,    \* step of the checkpoint file, 0 when there is none
  signalled,     \* should_shutdown
  loopResult     \* [status, stop_reason, unreported: executed steps not in steps, bad: failed_steps]

loopVars == <<suppressed, loopAt, stepNum, stepOutcome, errorsInRow, dry, tree, index, history,
              unused, commitFailed, checkpoint, signalled, loopResult>>
workVars == <<tree, index, history, unused>>

Act(k, p, t) == [kind |-> k, path |-> p, text |-> t]
NoPath == "none"
Edits == {Act("write", p, t) : p \in Paths, t \in Texts}
Searches == {Act("find", NoPath, 0)}
Reads == {Act("read", p, 0) : p \in Paths}
Commands == {Act("command", NoPath, 0)}   \* run_tests, git_status, git_diff, http_check, update_plan, record_memory
Acts == Edits \cup Searches \cup Reads \cup Commands
\* READ_ONLY_REPEAT_ACTIONS: a repetition is skipped, of any other action it is
\* blocked.  Of the commands git_status and git_diff are in it; of the searches
\* list_directory is not, for it is called list_dir there.
RepeatOutcomes(a) ==
  CASE a.kind = "read" -> {"skipped"} [] a.kind = "write" -> {"blocked"} [] OTHER -> {"skipped", "blocked"}
Terminals == {"finish", "blocked", "ask_user"}
Outcomes == {"none", "success", "failure", "error", "skipped"} \cup Terminals

\* Paths in the result of an action; text output has none (_was_result_consumed).
ResultPaths(a) == CASE a.kind = "find" -> Paths [] a.kind = "write" -> {a.path} [] OTHER -> {}

Untracked(t) == {p \in Paths : index[p] = 0 /\ t[p] # 0}

LoopInit ==
  /\ suppressed \in BOOLEAN
  /\ loopAt = "top" /\ stepNum = 0 /\ stepOutcome = "none"
  /\ errorsInRow = 0 /\ dry = 0
  /\ tree \in [Paths -> {0} \cup Texts] /\ index = tree
  /\ history = [a \in Acts |-> [n |-> 0, used |-> FALSE]]
  /\ unused = [a \in Acts |-> 0]
  /\ commitFailed = FALSE /\ checkpoint = 0 /\ signalled = FALSE
  /\ loopResult = [status |-> "running", stop_reason |-> "", unreported |-> 0, bad |-> 0]

-----------------------------------------------------------------------------
(***************************************************************************)
(* _check_stop_conditions                                                  *)
(***************************************************************************)
StopCondition ==
  IF errorsInRow >= max_consecutive_errors THEN "budget_exceeded"
  ELSE IF dry >= no_diff_steps_max THEN "no_diff_repair" ELSE ""

\* run() after the loop: the checkpoint goes, whatever the reason.
Returns(status, reason, tally) ==
  /\ loopAt' = "returned"
  /\ loopResult' = [tally EXCEPT !.status = status, !.stop_reason = reason]
  /\ checkpoint' = 0

StopBeforeStep ==
  /\ loopAt = "top"
  /\ \/ stepNum < max_steps /\ StopCondition # ""
        /\ Returns("stopped", StopCondition, loopResult)
     \/ stepNum = max_steps   \* the for loop is exhausted
        /\ Returns("stopped", "max_steps", loopResult)
  /\ UNCHANGED <<suppressed, stepNum, stepOutcome, errorsInRow, dry, workVars, commitFailed, signalled>>

\* _check_anti_repeat: enough identical successes, and the last result unused.
AntiRepeat(a) == history[a].n >= repeat_threshold /\ ~history[a].used

\* _record_action_history: a reference counts only after the last success.
Recorded(a, outcome) ==
  [b \in Acts |->
     IF b = a /\ outcome = "success"
       THEN [n |-> IF history[b].n < repeat_threshold THEN history[b].n + 1 ELSE history[b].n, used |-> FALSE]
     ELSE IF a.path \in ResultPaths(b) /\ history[b].n > 0 THEN [history[b] EXCEPT !.used = TRUE]
     ELSE history[b]]
CountUnused(a, outcome) ==
  [b \in Acts |-> IF b = a /\ outcome = "success" THEN unused[b] + 1
                  ELSE IF a.path \in ResultPaths(b) THEN 0 ELSE unused[b]]

\* The read-loop guard of run(): d read-only steps in a row, the tree t.  Every
\* AutoCommitEvery of them it adds and commits the untracked source files; what
\* a failed commit leaves added is not untracked at the next try.
\* Mutant: the threshold itself is missed.
AutoCommitDue_Late(d, t) ==
  d > AutoCommitThreshold /\ d % AutoCommitEvery = 0 /\ Untracked(t) # {}
AutoCommitDue(d, t) ==
  d >= AutoCommitThreshold /\ d % AutoCommitEvery = 0 /\ Untracked(t) # {}
Added(t) == [p \in Paths |-> IF p \in Untracked(t) THEN t[p] ELSE index[p]]
ReadLoopGuard(d, t) ==
  IF AutoCommitDue(d, t)
    THEN \/ index' = Added(t) /\ dry' = 0 /\ UNCHANGED commitFailed
         \/ index' \in {index, Added(t)} /\ dry' = d /\ commitFailed' = TRUE
    ELSE dry' = d /\ UNCHANGED <<index, commitFailed>>

\* Mutant: a skipped step is not counted against max_steps.
NextStepNum_SkipIsFree(o) == IF o = "skipped" THEN stepNum ELSE stepNum + 1
NextStepNum(o) == stepNum + 1
\* A step has been executed: its outcome, the tree, the index and the counter.
Executed(outcome, wrote, t) ==
  /\ loopAt' = "executed" /\ stepNum' = NextStepNum(outcome) /\ stepOutcome' = outcome
  /\ loopResult' = [loopResult EXCEPT !.unreported = @ + 1]
  /\ tree' = t
  /\ ReadLoopGuard(IF wrote THEN 0 ELSE dry + 1, t)
  /\ UNCHANGED <<suppressed, errorsInRow, checkpoint, signalled>>
MayStep == loopAt = "top" /\ stepNum < max_steps /\ StopCondition = ""

\* No usable action: parse errors, or an exception in any of the stages.
NoAction ==
  /\ MayStep
  /\ \E o \in {"failure", "error"} : Executed(o, FALSE, tree)
  /\ UNCHANGED <<history, unused>>

\* The action is stopped by the anti-repeat guard, the contract or the schema.
Refused(a) ==
  /\ MayStep
  /\ LET wrote == a.kind = "write" IN
     \/ AntiRepeat(a) /\ \E o \in RepeatOutcomes(a) : Executed(o, wrote, tree)
     \/ ~AntiRepeat(a) /\ \E o \in {"skipped", "failure"} : Executed(o, wrote, tree)
  /\ UNCHANGED <<history, unused>>

Performed(a, outcome) ==
  /\ history' = Recorded(a, outcome) /\ unused' = CountUnused(a, outcome)

\* The outcome of an executed action, or an exception in what follows it.
Shown(o) == {o, "error"}

\* An edit handler writes and verifies; or finds nothing to do, is refused by a
\* guard, or would leave invalid Python, which blocks the step; or fails in the
\* write, with the file in any state.
Written(a) ==
  /\ \E x \in Shown("success") : Executed(x, TRUE, [tree EXCEPT ![a.path] = a.text])
  /\ Performed(a, "success")
Unwritten(a) ==
  \/ \E o \in {"failure", "blocked"} : Executed(o, TRUE, tree) /\ Performed(a, "failure")
  \/ \E x \in Shown("success") : Executed(x, TRUE, tree) /\ Performed(a, "success")
HalfWritten(a) ==
  /\ \E t \in Texts : Executed("failure", TRUE, [tree EXCEPT ![a.path] = t])
  /\ Performed(a, "failure")
Edit(a) ==
  /\ MayStep /\ a \in Edits /\ ~AntiRepeat(a)
  /\ Written(a) \/ Unwritten(a) \/ HalfWritten(a)

\* Navigation and commands; the tests may leave files behind.  git_commit and
\* git_add have handlers, but no place in ACTION_TYPES: they are Refused.  So
\* is what is routed to the command risk engine, which does not exist.
Operate(a) ==
  /\ MayStep /\ a \in Acts \ Edits /\ ~AntiRepeat(a)
  /\ \/ /\ a.kind \in {"find", "read"}
        /\ \E o \in {"success", "failure"} :
             Performed(a, o) /\ \E x \in Shown(o) : Executed(x, FALSE, tree)
     \/ /\ a.kind = "command"
        /\ \E o \in {"success", "failure"}, p \in Paths, t \in {0} \cup Texts :
             Performed(a, o) /\ \E x \in Shown(o) : Executed(x, FALSE, [tree EXCEPT ![p] = t])

\* finish, blocked (also when no model answers) and ask_user.
Terminal(k) ==
  /\ MayStep
  /\ Executed(k, FALSE, tree)
  /\ UNCHANGED <<history, unused>>

\* The checkpoint is written to a temporary file and moved; a failure is ignored.
SaveCheckpoint ==
  /\ loopAt = "executed" /\ loopAt' = "saved"
  /\ checkpoint' \in {stepNum, checkpoint}
  /\ UNCHANGED <<suppressed, stepNum, stepOutcome, errorsInRow, dry, workVars, commitFailed, signalled, loopResult>>

\* Shutdown is looked at here, before the step is put into the result.
ShutDown ==
  /\ loopAt = "saved" /\ signalled
  /\ Returns("stopped", "graceful_shutdown", loopResult)
  /\ UNCHANGED <<suppressed, stepNum, stepOutcome, errorsInRow, dry, workVars, commitFailed, signalled>>

\* The outcome of the step in the result.
Tally(o) ==
  [loopResult EXCEPT !.unreported = @ - 1,
                     !.bad = @ + (IF o \in {"failure", "error"} THEN 1 ELSE 0)]
\* A suppressed question counts as skipped; the other terminal outcomes end the loop.
TrackOutcome ==
  /\ loopAt = "saved" /\ ~signalled
  /\ IF stepOutcome \in Terminals /\ ~(stepOutcome = "ask_user" /\ suppressed)
       THEN /\ Returns(IF stepOutcome = "finish" THEN "finished" ELSE "blocked", stepOutcome, Tally(stepOutcome))
            /\ UNCHANGED errorsInRow
       ELSE /\ loopAt' = "top"
            /\ loopResult' = Tally(stepOutcome)
            /\ errorsInRow' = CASE stepOutcome = "success" -> 0
                                [] stepOutcome \in {"failure", "error"} -> errorsInRow + 1
                                [] OTHER -> errorsInRow
            /\ UNCHANGED checkpoint
  /\ stepOutcome' = "none"
  /\ UNCHANGED <<suppressed, stepNum, dry, workVars, commitFailed, signalled>>

\* SIGTERM or SIGINT to the worker process.
Signal ==
  /\ ~signalled /\ loopAt \in {"top", "executed", "saved"}
  /\ signalled' = TRUE
  /\ UNCHANGED <<suppressed, loopAt, stepNum, stepOutcome, errorsInRow, dry, workVars, commitFailed, checkpoint, loopResult>>

LoopStep ==
  \/ StopBeforeStep \/ NoAction \/ SaveCheckpoint \/ ShutDown \/ TrackOutcome
  \/ \E a \in Acts : Refused(a) \/ Edit(a) \/ Operate(a)
  \/ \E k \in Terminals : Terminal(k)
LoopNext == LoopStep \/ Signal
\* The thread of the loop goes on; signals come from outside.
LoopFairness == WF_loopVars(LoopStep)
LoopSpec == LoopInit /\ [][LoopNext]_loopVars /\ LoopFairness

-----------------------------------------------------------------------------
LoopTypeOK ==
  /\ loopAt \in {"top", "executed", "saved", "returned"}
  /\ stepNum \in 0 .. max_steps /\ stepOutcome \in Outcomes
  /\ errorsInRow \in 0 .. max_consecutive_errors /\ dry \in 0 .. no_diff_steps_max
  /\ {tree, index} \subseteq [Paths -> {0} \cup Texts]
  /\ checkpoint \in 0 .. max_steps

\* However the model mixes its actions, the same action never succeeds more
\* than repeat_threshold times without some later action having referred to
\* its result: the anti-repeat guard is not undone by a reference from before
\* the last success.
RepeatsUsed == \A a \in Acts : unused[a] <= repeat_threshold

\* A loop that stops as no_diff_repair leaves no untracked source file for the
\* clean-up to delete, unless git refused the commit, whether an edit or a
\* command created it, and at whatever step.
WorkNotLost == loopResult.stop_reason = "no_diff_repair" /\ ~commitFailed => Untracked(tree) = {}

\* Every executed step is in the result, except the one a shutdown signal cuts
\* off (its edits are reported, the step is not); and a loop that reports an
\* exhausted error budget has reported that many failures.
StepsReported ==
  loopAt = "returned" =>
    /\ loopResult.unreported = (IF loopResult.stop_reason = "graceful_shutdown" THEN 1 ELSE 0)
    /\ loopResult.stop_reason = "budget_exceeded" => loopResult.bad >= max_consecutive_errors

\* What the loop promises its callers: no idle repetition, no lost file, a true
\* report.
LoopSafe == RepeatsUsed /\ WorkNotLost /\ StepsReported

\* Skipped and failed steps, refused questions and automatic commits included,
\* the loop returns.
LoopReturns == <>(loopAt = "returned")
=============================================================================
