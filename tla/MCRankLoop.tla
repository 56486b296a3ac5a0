----------------------------- MODULE MCRankLoop -----------------------------
(***************************************************************************)
(* Constants of the runs of RankLoop.                                      *)
(***************************************************************************)
EXTENDS RankLoop

\* One attempt and one repair cycle, everything optional switched off.
BaseConfig ==
  [max_rank_attempts |-> 1, max_repair_cycles |-> 1, dry_run |-> FALSE,
   allow_github_pr |-> FALSE, allow_merge_if_green |-> FALSE, semantic_gate |-> FALSE,
   ui |-> "none", planning |-> FALSE, issue_number |-> FALSE,
   max_calls |-> 0, max_usd |-> 0, max_cost |-> 0, enforce_qg |-> FALSE]

MergeConfig == [BaseConfig EXCEPT !.allow_github_pr = TRUE, !.allow_merge_if_green = TRUE]

R(s, f, t) == [stop |-> s, files |-> f, text |-> t]
T(t, f, s) == [targeted |-> t, full |-> f, smoke |-> s]

FinishedReasoning == R("finish", "existing", "plain")
StuckReasoning    == R("no_diff_repair", "none", "plain")
TimedOutReasoning == R("reasoning_timeout", "none", "plain")
StepsReasoning    == R("max_steps", "missing", "plain")

AllGreen == T("pass", "pass", "pass")
FullFails == T("pass", "fail", "pass")
TargetMissing == T("missing", "pass", "pass")

-----------------------------------------------------------------------------
\* Attempts, repairs and extensions: the repair budget below, at and above the
\* attempt limit; runs that merge, that only open a PR, and a dry run.
CoreConfigs ==
  {MergeConfig,
   [MergeConfig EXCEPT !.max_repair_cycles = 0, !.allow_merge_if_green = FALSE],
   [BaseConfig EXCEPT !.max_repair_cycles = 2],
   [BaseConfig EXCEPT !.max_rank_attempts = 3],
   [BaseConfig EXCEPT !.max_repair_cycles = 0, !.dry_run = TRUE]}
CoreReasonings == {FinishedReasoning, StuckReasoning, TimedOutReasoning}
CoreTests == {AllGreen, FullFails}

Safe == {"safe"}
Inside == {"inside"}
AlwaysRestored == {TRUE}
MayFail == BOOLEAN
Free == {0}

\* Everything that can go wrong in an attempt: gates, UI goals, planning,
\* dangerous edits, failing restores, hanging tests, unreachable providers.
HostileConfigs ==
  {[BaseConfig EXCEPT !.semantic_gate = TRUE, !.planning = TRUE, !.issue_number = TRUE],
   [BaseConfig EXCEPT !.ui = "card"],
   [BaseConfig EXCEPT !.ui = "visibility", !.max_repair_cycles = 0, !.enforce_qg = TRUE]}
HostileReasonings == {FinishedReasoning, StuckReasoning, TimedOutReasoning, StepsReasoning,
                      R("ask_user", "none", "provider_down")}
HostileTests == {AllGreen, TargetMissing, T("pass", "hung", "pass"), T("pass", "pass", "bootstrap")}
Risky == {"safe", "destructive", "immediate"}
Anywhere == {"inside", "mixed"}

\* Budgets: two cycles with priced reasoning, with and without a helper.
BudgetConfigs ==
  {[BaseConfig EXCEPT !.max_repair_cycles = 2, !.max_cost = 2],
   [BaseConfig EXCEPT !.max_repair_cycles = 2, !.max_calls = 2, !.max_usd = 2]}
BudgetTests == {FullFails}
BudgetReasonings == {FinishedReasoning, StepsReasoning}
Prices == {1, 2}

\* One run and what it needs to show a disagreement.
RepairConfig == {BaseConfig}
Finished == {FinishedReasoning}
=============================================================================
