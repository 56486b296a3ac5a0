------------------------------ MODULE Roadmap ------------------------------
(***************************************************************************)
(* Who works on which issue: the watchdog of web/server.py that launches   *)
(* the next roadmap issue when no run is active, the decomposition of a    *)
(* mission into sub-issues (supervisor_decomposition, supervisor_subissues)*)
(* and the child run that is queued for the first of them                  *)
(* (supervisor_autorun_escalation).                                        *)
(*                                                                         *)
(* A run is seen from outside: it completes, fails, or is blocked as too   *)
(* large; RankLoop is the inside.  The watchdog is a coroutine, a run is a *)
(* thread that goes on after its status has become blocked.  GitHub is     *)
(* external.  A run that is over and that nobody refers to leaves its slot.*)
(***************************************************************************)
EXTENDS Naturals, FiniteSets

CONSTANTS
  Issues,                \* issue numbers
  RoadmapIssues,         \* those open and labelled roadmap at the start
  Slots,                 \* runs that exist at one time
  MAX_AUTOCHAIN_DEPTH,
  MaxFailures,           \* _WATCHDOG_MAX_CONSECUTIVE_FAILURES
  CeilingSkipAfter,      \* _WATCHDOG_CEILING_SKIP_AFTER
  MaxRestarts, MaxApiCalls   \* bounds

ASSUME RoadmapConstants ==
  /\ Issues \subseteq Nat \ {0} /\ RoadmapIssues \subseteq Issues /\ Slots \subseteq Nat \ {0}
  /\ IsFiniteSet(Issues) /\ IsFiniteSet(Slots)
  /\ {MAX_AUTOCHAIN_DEPTH, MaxFailures, CeilingSkipAfter} \subseteq Nat \ {0}
  /\ CeilingSkipAfter <= MaxFailures

VARIABLES
  issue,       \* number -> [state: unused | open | closed, leaf: labelled no-decompose]
  run,         \* slot -> the run in it
  watchdog,    \* [at, last: its last run, on: the issue of that run]
  failures,    \* _issue_failures
  skipped,     \* _skipped_issues
  skippedFile, \* watchdog_skipped_issues.json
  hint,        \* next_roadmap_target.json: an issue, or 0
  failed,      \* issue -> runs of it that failed, and whether one met a ceiling
  givenUp,     \* the issues whose giving up was saved, and not torn since
  used         \* [restarts, calls]: the bounds

roadmapVars == <<issue, run, watchdog, failures, skipped, skippedFile, hint, failed, givenUp, used>>
watchdogVars == <<watchdog, failures, skipped, skippedFile, failed, givenUp>>

NoRun == [status |-> "none", on |-> 0, named |-> 0, depth |-> 0, autosub |-> FALSE, ceiling |-> FALSE,
          worker |-> "over", sub |-> 0, child |-> FALSE]
NewRun(i, named, depth, autosub) ==
  [NoRun EXCEPT !.status = "running", !.on = i, !.named = named, !.depth = depth, !.autosub = autosub,
                !.worker = "working"]

\* list_active_supervised_runs: a run being cancelled is not among them.
Active == {r \in Slots : run[r].status = "running"}
AtWork == {r \in Slots : run[r].worker # "over"}
Free == {r \in Slots : run[r].worker = "over" /\ watchdog.last # r}
Slot == CHOOSE r \in Free : \A s \in Free : r <= s
Set(r, new) == run' = [run EXCEPT ![r] = new]

\* The worker of a run returns: what is left is what the watchdog looks at.
Over(r, status, ceiling, child) ==
  IF watchdog.last = r THEN [NoRun EXCEPT !.status = status, !.ceiling = ceiling, !.child = child] ELSE NoRun
Outcome(r, status) == IF run[r].status = "running" THEN status ELSE "cancelled"

RoadmapInit ==
  /\ issue = [i \in Issues |-> [state |-> IF i \in RoadmapIssues THEN "open" ELSE "unused", leaf |-> FALSE]]
  /\ run = [r \in Slots |-> NoRun]
  /\ watchdog = [at |-> "poll", last |-> 0, on |-> 0]
  /\ failures = [i \in Issues |-> 0] /\ skipped = {} /\ skippedFile = {} /\ hint = 0
  /\ failed = [i \in Issues |-> [n |-> 0, ceiling |-> FALSE]]
  /\ givenUp = {}
  /\ used = [restarts |-> 0, calls |-> 0]

-----------------------------------------------------------------------------
(***************************************************************************)
(* The watchdog                                                            *)
(***************************************************************************)
WatchdogAt(here) == watchdog.at = here
WatchdogTo(there) == watchdog' = [watchdog EXCEPT !.at = there]

\* No run is active: look at the run launched last.  If it has queued a child,
\* pause and look again.
Poll ==
  /\ WatchdogAt("poll") /\ Active = {}
  /\ WatchdogTo(IF watchdog.last = 0 THEN "launch"
                ELSE IF run[watchdog.last].status = "blocked" /\ run[watchdog.last].child THEN "recheck"
                ELSE "account")
  /\ UNCHANGED <<issue, run, failures, skipped, skippedFile, hint, failed, givenUp, used>>

Recheck ==
  /\ WatchdogAt("recheck")
  /\ WatchdogTo(IF Active = {} THEN "account" ELSE "poll")
  /\ UNCHANGED <<issue, run, failures, skipped, skippedFile, hint, failed, givenUp, used>>

\* The outcome of the last run.  Only a blocked run counts; a completed one
\* resets nothing, for the watchdog looks for the status "done".
\* Mutant: the run is remembered and counted again at the next poll.
Forgotten_Kept == [watchdog EXCEPT !.at = "launch"]
Forgotten == [at |-> "launch", last |-> 0, on |-> 0]
\* Mutant: the list is kept in memory only.
SkipSaved_Ignored(s) == skippedFile' = skippedFile /\ givenUp' = s
\* The file is written, left alone, or broken off after the truncation, which
\* loads as empty.
SkipSaved(s) ==
  \/ skippedFile' = s /\ givenUp' = s
  \/ UNCHANGED <<skippedFile, givenUp>>
  \/ skippedFile' = {} /\ givenUp' = {}
GiveUp_Exactly(count, threshold) == count = threshold   \* mutant: misses a count that has passed it
GiveUp(count, threshold) == count >= threshold
Account ==
  /\ WatchdogAt("account")
  /\ LET r == run[watchdog.last]
         i == watchdog.on
         threshold == IF r.ceiling THEN CeilingSkipAfter ELSE MaxFailures
     IN  IF r.status = "blocked"
           THEN /\ failures' = [failures EXCEPT ![i] = IF @ < MaxFailures THEN @ + 1 ELSE @]
                /\ IF GiveUp(failures[i] + 1, threshold)
                     THEN skipped' = skipped \cup {i} /\ SkipSaved(skipped')
                     ELSE UNCHANGED <<skipped, skippedFile, givenUp>>
           ELSE UNCHANGED <<failures, skipped, skippedFile, givenUp>>
  /\ watchdog' = Forgotten
  /\ run' = [run EXCEPT ![watchdog.last] = IF @.worker = "over" /\ watchdog'.last = 0 THEN NoRun ELSE @]
  /\ UNCHANGED <<issue, hint, failed, used>>

\* After the clean-up of the working tree (git in an executor): the hinted
\* issue unless it is skipped, else the first open one that is not skipped.
\* A hinted issue comes without its labels.
Pickable == {i \in Issues : issue[i].state = "open" /\ i \notin skipped}
Hinted == hint # 0 /\ hint \notin skipped
NextIssue == IF Hinted THEN hint ELSE CHOOSE i \in Pickable : \A j \in Pickable : i <= j
Launch ==
  /\ WatchdogAt("launch") /\ Free # {}
  /\ hint' = 0
  /\ IF Hinted \/ Pickable # {}
       THEN /\ Set(Slot, NewRun(NextIssue, NextIssue, 1, Hinted \/ ~issue[NextIssue].leaf))
            /\ watchdog' = [at |-> "poll", last |-> Slot, on |-> NextIssue]
       ELSE UNCHANGED run /\ WatchdogTo("poll")
  /\ UNCHANGED <<issue, failures, skipped, skippedFile, failed, givenUp, used>>

WatchdogStep == Poll \/ Recheck \/ Account \/ Launch

-----------------------------------------------------------------------------
(***************************************************************************)
(* The worker of a run                                                     *)
(***************************************************************************)
Working(r) == run[r].worker = "working"
CountFailure(r, ceiling) ==
  failed' = [failed EXCEPT ![run[r].on] = [n |-> IF @.n < MaxFailures THEN @.n + 1 ELSE @.n,
                                           ceiling |-> @.ceiling \/ ceiling]]

\* The pull request is merged; its text closes the first issue that the goal
\* names.  A root run leaves a hint for the watchdog.
Complete(r) ==
  /\ Working(r)
  /\ Set(r, Over(r, Outcome(r, "completed"), FALSE, FALSE))
  /\ IF run[r].status = "running"
       THEN LET n == run[r].named IN
            /\ issue' = IF n = 0 THEN issue ELSE [issue EXCEPT ![n].state = "closed"]
            /\ IF run[r].depth = 0
                 THEN hint' \in {0} \cup {i \in Issues : issue[i].state = "open" /\ i # n}
                 ELSE UNCHANGED hint
       ELSE UNCHANGED <<issue, hint>>
  /\ UNCHANGED <<watchdogVars, used>>

\* complete_noop: the goal is found satisfied; nothing is delivered.
CompleteNoop(r) ==
  /\ Working(r) /\ run[r].status = "running"
  /\ Set(r, Over(r, "completed", FALSE, FALSE))
  /\ UNCHANGED <<issue, watchdogVars, hint, used>>

Fail(r) ==
  /\ Working(r)
  /\ \E c \in BOOLEAN :
       /\ Set(r, Over(r, Outcome(r, "blocked"), c, FALSE))
       /\ CountFailure(r, c)
  /\ UNCHANGED <<issue, watchdog, failures, skipped, skippedFile, hint, givenUp, used>>

\* blocked_decomposition_required: the run is blocked first.  The policy then
\* wants allow_auto_subissues and a harmless decomposition.
Decompose(r) ==
  /\ Working(r) /\ run[r].status = "running"
  /\ \E approved \in BOOLEAN :
       Set(r, IF approved /\ run[r].autosub
                THEN [run[r] EXCEPT !.status = "blocked", !.worker = "creating"]
                ELSE Over(r, "blocked", FALSE, FALSE))
  /\ CountFailure(r, FALSE)
  /\ UNCHANGED <<issue, watchdog, failures, skipped, skippedFile, hint, givenUp, used>>

\* auto_create_subissues: an open issue of the same title is taken over, else
\* an issue is opened, or opening it fails.
CreateSubissues(r) ==
  /\ run[r].worker = "creating"
  /\ \/ \E i \in Issues :
          /\ \/ issue[i].state = "open" /\ UNCHANGED issue
             \/ /\ issue[i].state = "unused" /\ \A j \in Issues : issue[j].state = "unused" => i <= j
                /\ issue' = [issue EXCEPT ![i] = [state |-> "open", leaf |-> TRUE]]
          /\ Set(r, [run[r] EXCEPT !.sub = i, !.worker = "queueing"])
     \/ Set(r, Over(r, "blocked", FALSE, FALSE)) /\ UNCHANGED issue
  /\ UNCHANGED <<watchdogVars, hint, used>>

\* autorun_guards.  Of other active runs only the goal and report are searched
\* for the URL of the sub-issue: the goal of a run started for it by URL has it.
\* Mutant: the depth is compared one level too late.
AutorunGuards_DeepEnough(r) ==
  /\ run[r].depth <= MAX_AUTOCHAIN_DEPTH /\ run[r].sub # run[r].named
  /\ \A s \in Slots \ {r} : run[s].status \in {"running", "cancelling"} => ~(run[s].depth = 0 /\ run[s].on = run[r].sub)
AutorunGuards(r) ==
  /\ run[r].depth < MAX_AUTOCHAIN_DEPTH
  /\ run[r].sub # run[r].named
  /\ \A s \in Slots \ {r} : run[s].status \in {"running", "cancelling"} => ~(run[s].depth = 0 /\ run[s].on = run[r].sub)

\* autorun_first_subissue: one more level; the rights of the parent.  The goal
\* of the child is the text of the sub-issue, which quotes the parent's goal.
ChildOf(r, named) == NewRun(run[r].sub, named, run[r].depth + 1, run[r].autosub)
StartChild(r) ==
  /\ run[r].worker = "queueing"
  /\ \/ /\ AutorunGuards(r) /\ Free # {}
        /\ \E named \in {0, run[r].named} :
             run' = [run EXCEPT ![r] = Over(r, "blocked", FALSE, TRUE), ![Slot] = ChildOf(r, named)]
     \/ Set(r, Over(r, "blocked", FALSE, FALSE))   \* refused, over budget, or the issue cannot be fetched
  /\ UNCHANGED <<issue, watchdogVars, hint, used>>

WorkerStep(r) == Complete(r) \/ CompleteNoop(r) \/ Fail(r) \/ Decompose(r) \/ CreateSubissues(r) \/ StartChild(r)

-----------------------------------------------------------------------------
\* The API starts a run on an issue, by its URL; and cancels a run.
ApiStart ==
  /\ used.calls < MaxApiCalls /\ Free # {}
  /\ \E i \in Issues, autosub \in BOOLEAN :
       issue[i].state = "open" /\ Set(Slot, NewRun(i, i, 0, autosub))
  /\ used' = [used EXCEPT !.calls = @ + 1]
  /\ UNCHANGED <<issue, watchdogVars, hint>>
ApiCancel(r) ==
  /\ used.calls < MaxApiCalls /\ run[r].status = "running"
  /\ Set(r, [run[r] EXCEPT !.status = "cancelling"])
  /\ used' = [used EXCEPT !.calls = @ + 1]
  /\ UNCHANGED <<issue, watchdogVars, hint>>

\* The server restarts: threads, runs and counters are gone.
Restart ==
  /\ used.restarts < MaxRestarts
  /\ used' = [used EXCEPT !.restarts = @ + 1]
  /\ run' = [r \in Slots |-> NoRun]
  /\ watchdog' = [at |-> "poll", last |-> 0, on |-> 0]
  /\ failures' = [i \in Issues |-> 0] /\ skipped' = skippedFile
  /\ UNCHANGED <<issue, skippedFile, hint, failed, givenUp>>

RoadmapNext ==
  \/ WatchdogStep \/ ApiStart \/ Restart
  \/ \E r \in Slots : WorkerStep(r) \/ ApiCancel(r)
\* The event loop resumes the watchdog; a worker ends (RankLoop's WorkerEnds).
RoadmapFairness == WF_roadmapVars(WatchdogStep) /\ \A r \in Slots : WF_roadmapVars(WorkerStep(r))
RoadmapSpec == RoadmapInit /\ [][RoadmapNext]_roadmapVars /\ RoadmapFairness

-----------------------------------------------------------------------------
RoadmapTypeOK ==
  /\ \A i \in Issues : issue[i].state \in {"unused", "open", "closed"}
  /\ \A r \in Slots : /\ run[r].status \in {"none", "running", "cancelling", "completed", "blocked", "cancelled"}
                      /\ run[r].worker \in {"working", "creating", "queueing", "over"}
                      /\ run[r].on \in Issues \cup {0} /\ run[r].sub \in Issues \cup {0}
  /\ watchdog.at \in {"poll", "recheck", "account", "launch"} /\ watchdog.last \in Slots \cup {0}
  /\ hint \in Issues \cup {0} /\ skipped \cup skippedFile \subseteq Issues

\* Children queue children, but a chain that the watchdog or the API started
\* never gets deeper than MAX_AUTOCHAIN_DEPTH, whoever decomposes what.
ChainBounded == \A r \in Slots : run[r].depth <= MAX_AUTOCHAIN_DEPTH

\* The watchdog gives an issue up only if that many different runs of it have
\* failed, or one has met the capability ceiling: no run is counted twice,
\* across deferred polls, children and restarts.
SkipEarned ==
  \A i \in skipped : failed[i].n >= MaxFailures \/ (failed[i].ceiling /\ failed[i].n >= CeilingSkipAfter)

\* An issue that was given up is not launched again, not even after a restart
\* or through a hint, once the skip list has been written and until a write
\* of it is torn.
SkipKept ==
  [][watchdog.last = 0 /\ watchdog'.last # 0 => watchdog'.on \notin givenUp]_roadmapVars

\* Unless runs keep completing without delivering, every roadmap issue is
\* closed or given up: failing runs, children and decompositions do not keep
\* the watchdog on one issue for ever.
GivenUpOrClosed == \A i \in RoadmapIssues : <>(issue[i].state = "closed" \/ i \in skipped)
RoadmapDrains == <>[][~\E r \in Slots : CompleteNoop(r)]_roadmapVars => GivenUpOrClosed

\* The watchdog moves on to the next issue "instead of retrying forever".
NeverRetriesForever == GivenUpOrClosed

\* The watchdog: "start the next roadmap issue when no run is active".
OneRunAtATime == used.calls = 0 => Cardinality(Active) <= 1
=============================================================================
