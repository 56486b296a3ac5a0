------------------------ MODULE OrchestrationProofs ------------------------
(***************************************************************************)
(* Proofs about AgentLoop, for every set of files and contents, every      *)
(* limit on steps, errors, read-only steps and repetitions; and about the  *)
(* composition of the reasoning loop, the staged mission and the roadmap.  *)
(***************************************************************************)
EXTENDS MCOrchestration, MissionProofs

-----------------------------------------------------------------------------
(* The inductive invariant, part by part.                                  *)

Entry == [n : Nat, used : BOOLEAN]
StopReasons == {"", "budget_exceeded", "no_diff_repair", "max_steps", "graceful_shutdown"} \cup Terminals
ResultType ==
  [status : {"running", "stopped", "finished", "blocked"}, stop_reason : StopReasons, unreported : Nat, bad : Nat]
Trees == [Paths -> {0} \cup Texts]

\* The types of what LoopTypeOK leaves out.
LoopShapes ==
  /\ LoopTypeOK /\ tree \in Trees /\ index \in Trees
  /\ suppressed \in BOOLEAN /\ commitFailed \in BOOLEAN /\ signalled \in BOOLEAN
  /\ loopResult \in ResultType

\* A step is executed only below the limit of errors.
BelowLimit == loopAt \in {"executed", "saved"} => errorsInRow < max_consecutive_errors

\* The history of an action bounds its unused successes, and a referenced result
\* leaves none.
HistoryInv ==
  /\ history \in [Acts -> Entry] /\ unused \in [Acts -> Nat]
  /\ \A a \in Acts :
       /\ unused[a] <= history[a].n /\ history[a].n <= repeat_threshold
       /\ history[a].used => unused[a] = 0

\* At the last read-only step nothing is untracked, or git has refused a commit.
UntrackedInv ==
  /\ dry = no_diff_steps_max /\ ~commitFailed => Untracked(tree) = {}
  /\ loopResult.stop_reason = "no_diff_repair" => dry = no_diff_steps_max

\* One step is unreported between its execution and its bookkeeping, and every
\* error in a row has been reported.
ReportInv ==
  /\ loopResult.unreported =
       (IF loopAt \in {"executed", "saved"} \/ loopResult.stop_reason = "graceful_shutdown" THEN 1 ELSE 0)
  /\ loopAt # "returned" => loopResult.stop_reason = ""
  /\ errorsInRow <= loopResult.bad
  /\ loopResult.stop_reason = "budget_exceeded" => errorsInRow >= max_consecutive_errors

LoopInv == LoopShapes /\ BelowLimit /\ HistoryInv /\ UntrackedInv /\ ReportInv

\* The limits are numbers.
LEMMA LimitTypes ==
  /\ max_steps \in Nat /\ max_steps >= 1
  /\ max_consecutive_errors \in Nat /\ max_consecutive_errors >= 1
  /\ repeat_threshold \in Nat /\ repeat_threshold >= 1
  /\ no_diff_steps_max \in Nat /\ no_diff_steps_max >= 1
  /\ AutoCommitThreshold \in Nat /\ AutoCommitThreshold <= no_diff_steps_max
BY LoopConstants

\* Nothing has been executed at the start.
LEMMA LoopInvInit == LoopInit => LoopInv
<1> SUFFICES ASSUME LoopInit PROVE LoopInv
  OBVIOUS
<1> USE LimitTypes
<1>0. /\ loopAt = "top" /\ stepNum = 0 /\ stepOutcome = "none" /\ errorsInRow = 0 /\ dry = 0 /\ checkpoint = 0
      /\ tree \in Trees /\ index \in Trees
  BY Zenon DEF LoopInit, Trees
<1>r. loopResult = [status |-> "running", stop_reason |-> "", unreported |-> 0, bad |-> 0]
  BY Zenon DEF LoopInit
<1>a. loopResult.stop_reason = ""
  BY <1>r
<1>b. loopResult.unreported = 0 /\ loopResult.bad = 0
  BY <1>r
<1>1. LoopShapes
  <2>1. LoopTypeOK
    BY <1>0 DEF LoopTypeOK, Trees, Outcomes
  <2>2. suppressed \in BOOLEAN /\ commitFailed \in BOOLEAN /\ signalled \in BOOLEAN
    BY Zenon DEF LoopInit
  <2>3. loopResult \in ResultType
    BY <1>r DEF ResultType, StopReasons
  <2> QED BY <1>0, <2>1, <2>2, <2>3 DEF LoopShapes
<1>2. BelowLimit
  BY <1>0 DEF BelowLimit
<1>3. HistoryInv
  <2>1. [n |-> 0, used |-> FALSE] \in Entry
    BY DEF Entry
  <2>2. history \in [Acts -> Entry] /\ unused \in [Acts -> Nat]
    BY <2>1 DEF LoopInit
  <2>3. \A a \in Acts : history[a] = [n |-> 0, used |-> FALSE] /\ unused[a] = 0
    BY DEF LoopInit
  <2> QED BY <2>2, <2>3 DEF HistoryInv
<1>4. UntrackedInv
  <2>1. dry # no_diff_steps_max
    BY <1>0
  <2>2. loopResult.stop_reason # "no_diff_repair"
    BY <1>a
  <2> QED BY Zenon, <2>1, <2>2 DEF UntrackedInv
<1>5. ReportInv
  <2>1. loopAt # "returned" /\ loopAt \notin {"executed", "saved"}
    BY <1>0
  <2>2. errorsInRow <= loopResult.bad
    BY <1>0, <1>b
  <2>3. loopResult.stop_reason # "graceful_shutdown" /\ loopResult.stop_reason # "budget_exceeded"
    BY <1>a
  <2> QED BY Zenon, <1>a, <1>b, <2>1, <2>2, <2>3 DEF ReportInv
<1> QED
  BY <1>1, <1>2, <1>3, <1>4, <1>5 DEF LoopInv

-----------------------------------------------------------------------------
(* The history of actions.                                                 *)

\* A success that the anti-repeat guard lets through stays within the threshold:
\* either the last result has been referenced, and nothing is unused, or the
\* history has room.
LEMMA PerformedKeeps ==
  ASSUME HistoryInv, NEW a \in Acts, ~AntiRepeat(a), NEW o, Performed(a, o)
  PROVE  HistoryInv'
<1> USE LimitTypes DEF HistoryInv
<1> DEFINE Success(b) == [n |-> IF history[b].n < repeat_threshold THEN history[b].n + 1 ELSE history[b].n,
                          used |-> FALSE]
           Referred(b) == [history[b] EXCEPT !.used = TRUE]
           Bounded(e, u) == e \in Entry /\ u \in Nat /\ u <= e.n /\ e.n <= repeat_threshold /\ (e.used => u = 0)
<1>1. \A b \in Acts : Bounded(history[b], unused[b])
  BY DEF Entry
<1>2. ASSUME NEW b \in Acts
      PROVE  Bounded(IF b = a /\ o = "success" THEN Success(b)
                     ELSE IF a.path \in ResultPaths(b) /\ history[b].n > 0 THEN Referred(b) ELSE history[b],
                     IF b = a /\ o = "success" THEN unused[b] + 1
                     ELSE IF a.path \in ResultPaths(b) THEN 0 ELSE unused[b])
  <2> USE <1>1
  <2>1. CASE b = a /\ o = "success"
    <3>1. history[b].n < repeat_threshold \/ history[b].used
      BY <2>1 DEF AntiRepeat, Entry
    <3>2. Bounded(Success(b), unused[b] + 1)
      BY <3>1 DEF Entry
    <3> QED BY <2>1, <3>2
  <2>2. CASE ~(b = a /\ o = "success") /\ a.path \in ResultPaths(b)
    <3>1. Referred(b) \in Entry /\ Referred(b).n = history[b].n
      BY DEF Entry
    <3>2. Bounded(Referred(b), 0) /\ Bounded(history[b], 0)
      BY <3>1 DEF Entry
    <3> QED BY <2>2, <3>2
  <2>3. CASE ~(b = a /\ o = "success") /\ a.path \notin ResultPaths(b)
    BY <2>3
  <2> QED BY <2>1, <2>2, <2>3
<1>3. \A b \in Acts : Bounded(history'[b], unused'[b])
  BY <1>2 DEF Performed, Recorded, CountUnused
<1>4. DOMAIN history' = Acts /\ DOMAIN unused' = Acts
      /\ history' = [b \in Acts |-> history'[b]] /\ unused' = [b \in Acts |-> unused'[b]]
  BY DEF Performed, Recorded, CountUnused
<1>5. history' \in [Acts -> Entry] /\ unused' \in [Acts -> Nat]
  BY <1>3, <1>4
<1> QED
  BY <1>3, <1>5


-----------------------------------------------------------------------------
(* The result.                                                             *)

\* A step is executed, or put into the result, or the loop returns: the fields
\* of the result that change and those that do not.
LEMMA CountedResult ==
  ASSUME NEW r \in ResultType
  PROVE  LET q == [r EXCEPT !.unreported = @ + 1] IN
         /\ q \in ResultType /\ q.unreported = r.unreported + 1
         /\ q.bad = r.bad /\ q.stop_reason = r.stop_reason
<1>1. \A u \in Nat : LET q == [r EXCEPT !.unreported = u] IN
        q \in ResultType /\ q.unreported = u /\ q.bad = r.bad /\ q.stop_reason = r.stop_reason
  BY DEF ResultType
<1>2. r.unreported \in Nat
  BY DEF ResultType
<1>3. r.unreported + 1 \in Nat
  BY <1>2
<1> QED BY <1>1, <1>3

\* Tally
LEMMA TalliedResult ==
  ASSUME loopResult \in ResultType, loopResult.unreported = 1, NEW o
  PROVE  /\ Tally(o) \in ResultType /\ Tally(o).unreported = 0
         /\ Tally(o).stop_reason = loopResult.stop_reason
         /\ Tally(o).bad = loopResult.bad + (IF o \in {"failure", "error"} THEN 1 ELSE 0)
<1> DEFINE c == IF o \in {"failure", "error"} THEN 1 ELSE 0
<1>1. \A u, b \in Nat : LET q == [loopResult EXCEPT !.unreported = u, !.bad = b] IN
        q \in ResultType /\ q.unreported = u /\ q.bad = b /\ q.stop_reason = loopResult.stop_reason
  BY DEF ResultType
<1>2. loopResult.bad \in Nat /\ c \in Nat
  BY DEF ResultType
<1>3. loopResult.bad + c \in Nat
  BY <1>2
<1>4. loopResult.unreported - 1 = 0
  OBVIOUS
<1>5. Tally(o) = [loopResult EXCEPT !.unreported = 0, !.bad = loopResult.bad + c]
  BY <1>4 DEF Tally
<1>6. /\ Tally(o) \in ResultType /\ Tally(o).unreported = 0
      /\ Tally(o).stop_reason = loopResult.stop_reason /\ Tally(o).bad = loopResult.bad + c
  <2> HIDE DEF c
  <2> DEFINE n == loopResult.bad + c
             q == [loopResult EXCEPT !.unreported = 0, !.bad = n]
  <2>1. n \in Nat
    BY <1>3
  <2>2. Tally(o) = q
    BY <1>5
  <2> HIDE DEF n
  <2>3. q \in ResultType /\ q.unreported = 0 /\ q.bad = n /\ q.stop_reason = loopResult.stop_reason
    BY <1>1, <2>1
  <2> HIDE DEF q
  <2>4. Tally(o) \in ResultType /\ Tally(o).unreported = 0 /\ Tally(o).bad = n
        /\ Tally(o).stop_reason = loopResult.stop_reason
    BY <2>2, <2>3
  <2> QED BY <2>4 DEF n
<1> QED BY <1>6

\* Returns
Closed(t, s, q) == [t EXCEPT !.status = s, !.stop_reason = q]
LEMMA ReturnedResult ==
  ASSUME NEW t \in ResultType, NEW s \in {"stopped", "finished", "blocked"}, NEW q \in StopReasons
  PROVE  /\ Closed(t, s, q) \in ResultType /\ Closed(t, s, q).stop_reason = q
         /\ Closed(t, s, q).unreported = t.unreported /\ Closed(t, s, q).bad = t.bad
BY DEF ResultType, Closed


-----------------------------------------------------------------------------
(* The steps.                                                              *)

\* What LoopInv says of everything but the history.
RestInv == LoopShapes /\ BelowLimit /\ UntrackedInv /\ ReportInv

\* Files are added to the index as they are in the tree.
LEMMA AddedTree == ASSUME index \in Trees, NEW t \in Trees PROVE Added(t) \in Trees
BY DEF Added, Trees

\* The read-loop guard at the last read-only step: what is untracked is committed,
\* and the count starts again, or the commit has failed.
LEMMA GuardCommits ==
  ASSUME LoopShapes, NEW t \in Trees, NEW d \in 0 .. no_diff_steps_max, ReadLoopGuard(d, t), tree' = t
  PROVE  /\ dry' \in 0 .. no_diff_steps_max /\ index' \in Trees /\ commitFailed' \in BOOLEAN
         /\ dry' = no_diff_steps_max /\ ~commitFailed' => Untracked(tree)' = {}
<1> USE LimitTypes
<1>1. CASE AutoCommitDue(d, t)
  <2>1. Added(t) \in Trees
    BY AddedTree DEF LoopShapes
  <2>2. CASE index' = Added(t) /\ dry' = 0 /\ UNCHANGED commitFailed
    <3>1. dry' \in 0 .. no_diff_steps_max /\ dry' # no_diff_steps_max
      BY <2>2
    <3> QED BY Zenon, <2>1, <2>2, <3>1 DEF LoopShapes
  <2>3. CASE index' \in {index, Added(t)} /\ dry' = d /\ commitFailed' = TRUE
    BY Zenon, <2>1, <2>3 DEF LoopShapes
  <2> QED BY Zenon, <1>1, <2>2, <2>3 DEF ReadLoopGuard
<1>2. CASE ~AutoCommitDue(d, t)
  <2>1. dry' = d /\ index' = index /\ commitFailed' = commitFailed
    BY Zenon, <1>2 DEF ReadLoopGuard
  <2>2. ASSUME d = no_diff_steps_max PROVE Untracked(t) = {}
    <3>1. d >= AutoCommitThreshold /\ d % AutoCommitEvery = 0
      BY <2>2, LoopConstants
    <3> QED BY Zenon, <1>2, <3>1 DEF AutoCommitDue
  <2>3. Untracked(tree)' = Untracked(t)
    BY <2>1 DEF Untracked
  <2> QED BY Zenon, <2>1, <2>2, <2>3 DEF LoopShapes
<1> QED BY <1>1, <1>2

\* A step is executed.
LEMMA ExecutedKeeps ==
  ASSUME LoopInv, MayStep, NEW o \in Outcomes \ {"none"}, NEW w \in BOOLEAN, NEW t \in Trees, Executed(o, w, t)
  PROVE  RestInv'
<1> USE LimitTypes
<1> DEFINE d == IF w THEN 0 ELSE dry + 1
<1>1. /\ loopAt = "top" /\ stepNum < max_steps /\ stepNum \in Nat
      /\ errorsInRow < max_consecutive_errors /\ errorsInRow \in Nat /\ dry < no_diff_steps_max /\ dry \in Nat
  <2>1. loopAt = "top" /\ stepNum < max_steps /\ StopCondition = ""
    BY DEF MayStep
  <2>2. errorsInRow \in Nat /\ dry \in Nat /\ stepNum \in Nat
    BY DEF LoopInv, LoopShapes, LoopTypeOK
  <2> QED BY <2>1, <2>2 DEF StopCondition
<1>2. d \in 0 .. no_diff_steps_max
  BY <1>1
<1>3. /\ loopAt' = "executed" /\ stepNum' = stepNum + 1 /\ stepOutcome' = o /\ tree' = t /\ ReadLoopGuard(d, t)
      /\ loopResult' = [loopResult EXCEPT !.unreported = @ + 1]
      /\ UNCHANGED <<suppressed, errorsInRow, checkpoint, signalled>>
  BY DEF Executed, NextStepNum
<1> HIDE DEF d
<1>4. /\ dry' \in 0 .. no_diff_steps_max /\ index' \in Trees /\ commitFailed' \in BOOLEAN
      /\ dry' = no_diff_steps_max /\ ~commitFailed' => Untracked(tree)' = {}
  BY <1>2, <1>3, GuardCommits DEF LoopInv
<1>5. /\ loopResult' \in ResultType /\ loopResult'.unreported = loopResult.unreported + 1
      /\ loopResult'.bad = loopResult.bad /\ loopResult'.stop_reason = loopResult.stop_reason
  BY <1>3, CountedResult DEF LoopInv, LoopShapes
<1>6. loopResult.unreported = 0 /\ loopResult.stop_reason = ""
  BY <1>1 DEF LoopInv, ReportInv
<1>7. LoopTypeOK'
  BY <1>1, <1>3, <1>4 DEF LoopInv, LoopShapes, LoopTypeOK, Trees
<1>8. LoopShapes'
  BY Zenon, <1>3, <1>4, <1>5, <1>7 DEF LoopInv, LoopShapes
<1>9. BelowLimit'
  BY <1>1, <1>3 DEF BelowLimit
<1>10. UntrackedInv'
  <2>1. loopResult'.stop_reason # "no_diff_repair"
    BY <1>5, <1>6
  <2> QED BY Zenon, <1>4, <2>1 DEF UntrackedInv
<1>11. ReportInv'
  <2>1. loopResult'.unreported = 1
    <3>1. loopResult'.unreported = 0 + 1
      BY Zenon, <1>5, <1>6
    <3> QED BY <3>1
  <2>2. errorsInRow' <= loopResult'.bad
    <3>1. errorsInRow' = errorsInRow
      BY <1>3
    <3>2. errorsInRow <= loopResult.bad
      BY Zenon DEF LoopInv, ReportInv
    <3> QED BY Zenon, <1>5, <3>1, <3>2
  <2>3. loopResult'.stop_reason = "" /\ loopResult'.stop_reason # "budget_exceeded"
    BY <1>5, <1>6
  <2> QED BY Zenon, <1>3, <2>1, <2>2, <2>3 DEF ReportInv
<1> QED BY <1>8, <1>9, <1>10, <1>11 DEF RestInv


\* The loop returns, with the steps and the errors it has counted.
LEMMA ReturnsKeeps ==
  ASSUME LoopInv, NEW st \in {"stopped", "finished", "blocked"}, NEW q \in StopReasons, NEW t \in ResultType,
         Returns(st, q, t), stepOutcome' \in Outcomes, errorsInRow <= t.bad,
         t.unreported = (IF q = "graceful_shutdown" THEN 1 ELSE 0),
         q = "budget_exceeded" => errorsInRow >= max_consecutive_errors,
         q = "no_diff_repair" => dry = no_diff_steps_max,
         UNCHANGED <<suppressed, stepNum, errorsInRow, dry, workVars, commitFailed, signalled>>
  PROVE  LoopInv'
<1> USE LimitTypes
<1>1. /\ loopAt' = "returned" /\ checkpoint' = 0
      /\ loopResult' \in ResultType /\ loopResult'.stop_reason = q
      /\ loopResult'.unreported = t.unreported /\ loopResult'.bad = t.bad
  <2>1. loopAt' = "returned" /\ checkpoint' = 0 /\ loopResult' = Closed(t, st, q)
    BY Zenon DEF Returns, Closed
  <2>2. /\ Closed(t, st, q) \in ResultType /\ Closed(t, st, q).stop_reason = q
        /\ Closed(t, st, q).unreported = t.unreported /\ Closed(t, st, q).bad = t.bad
    BY ReturnedResult
  <2> QED BY Zenon, <2>1, <2>2
<1>2. LoopTypeOK'
  <2>1. 0 \in 0 .. max_steps /\ "returned" \in {"top", "executed", "saved", "returned"}
    OBVIOUS
  <2>2. LoopTypeOK /\ UNCHANGED <<stepNum, errorsInRow, dry, tree, index>>
    BY Zenon DEF LoopInv, LoopShapes, workVars
  <2> QED BY Zenon, <1>1, <2>1, <2>2 DEF LoopTypeOK
<1>3. LoopShapes'
  BY Zenon, <1>1, <1>2 DEF LoopInv, LoopShapes, workVars
<1>4. BelowLimit'
  BY <1>1 DEF BelowLimit
<1>5. HistoryInv'
  BY Zenon DEF LoopInv, HistoryInv, workVars
<1>6. UntrackedInv'
  <2>1. Untracked(tree)' = Untracked(tree)
    BY Zenon DEF Untracked, workVars
  <2> QED BY Zenon, <1>1, <2>1 DEF LoopInv, UntrackedInv
<1>7. ReportInv'
  <2>1. loopAt' \notin {"executed", "saved"}
    BY <1>1
  <2> QED BY Zenon, <1>1, <2>1 DEF ReportInv
<1> QED BY <1>3, <1>4, <1>5, <1>6, <1>7 DEF LoopInv

\* The edited tree is a tree.
LEMMA EditedTree ==
  ASSUME LoopInv, NEW p \in Paths, NEW x \in {0} \cup Texts PROVE [tree EXCEPT ![p] = x] \in Trees
BY DEF LoopInv, LoopShapes, Trees

\* The files and contents of the actions.
LEMMA EditFields == \A a \in Edits : a \in Acts /\ a.path \in Paths /\ a.text \in Texts
BY DEF Edits, Acts, Act

\* Every action and every signal keeps the invariant.
LEMMA LoopInvStep == LoopInv /\ [LoopNext]_loopVars => LoopInv'
<1> SUFFICES ASSUME LoopInv, [LoopNext]_loopVars PROVE LoopInv'
  OBVIOUS
<1> USE LimitTypes
<1>a. /\ LoopShapes /\ BelowLimit /\ HistoryInv /\ UntrackedInv /\ ReportInv /\ tree \in Trees
      /\ loopResult \in ResultType /\ stepOutcome \in Outcomes
  BY DEF LoopInv, LoopShapes, LoopTypeOK
<1>b. {"success", "failure", "error", "skipped", "blocked"} \cup Terminals \subseteq Outcomes \ {"none"}
  BY DEF Outcomes, Terminals
<1>c. ASSUME RestInv', HistoryInv' PROVE LoopInv'
  BY <1>c DEF RestInv, LoopInv
<1>d. ASSUME UNCHANGED <<history, unused>> PROVE HistoryInv'
  BY Zenon, <1>a, <1>d DEF HistoryInv
<1>1. CASE StopBeforeStep
  <2>1. /\ loopAt = "top" /\ loopResult.unreported = 0 /\ errorsInRow <= loopResult.bad
        /\ UNCHANGED <<suppressed, stepNum, stepOutcome, errorsInRow, dry, workVars, commitFailed, signalled>>
    <3>1. loopAt = "top" /\ loopAt \notin {"executed", "saved"} /\ loopAt # "returned"
      BY <1>1 DEF StopBeforeStep
    <3>2. loopResult.stop_reason = ""
      BY Zenon, <1>a, <3>1 DEF ReportInv
    <3>3. loopResult.stop_reason # "graceful_shutdown"
      BY <3>2
    <3> QED BY Zenon, <1>a, <1>1, <3>1, <3>3 DEF ReportInv, StopBeforeStep
  <2>2. errorsInRow \in Nat /\ dry \in 0 .. no_diff_steps_max
    BY <1>a DEF LoopShapes, LoopTypeOK
  <2>3. \E q \in {"budget_exceeded", "no_diff_repair", "max_steps"} :
          /\ Returns("stopped", q, loopResult)
          /\ q = "budget_exceeded" => errorsInRow >= max_consecutive_errors
          /\ q = "no_diff_repair" => dry = no_diff_steps_max
    <3>1. CASE Returns("stopped", "max_steps", loopResult)
      BY <3>1
    <3>2. CASE StopCondition # "" /\ Returns("stopped", StopCondition, loopResult)
      <4>1. CASE errorsInRow >= max_consecutive_errors
        BY Zenon, <3>2, <4>1 DEF StopCondition
      <4>2. CASE ~(errorsInRow >= max_consecutive_errors) /\ dry >= no_diff_steps_max
        <5>1. dry = no_diff_steps_max
          BY <2>2, <4>2
        <5> QED BY Zenon, <3>2, <4>2, <5>1 DEF StopCondition
      <4>3. CASE ~(errorsInRow >= max_consecutive_errors) /\ ~(dry >= no_diff_steps_max)
        BY Zenon, <3>2, <4>3 DEF StopCondition
      <4> QED BY <4>1, <4>2, <4>3
    <3> QED BY Zenon, <1>1, <3>1, <3>2 DEF StopBeforeStep
  <2>4. PICK q \in {"budget_exceeded", "no_diff_repair", "max_steps"} :
          /\ Returns("stopped", q, loopResult)
          /\ q = "budget_exceeded" => errorsInRow >= max_consecutive_errors
          /\ q = "no_diff_repair" => dry = no_diff_steps_max
    BY <2>3
  <2>5. q \in StopReasons /\ q # "graceful_shutdown" /\ stepOutcome' \in Outcomes
    BY <2>1, <1>a DEF StopReasons
  <2> QED BY <1>a, <2>1, <2>4, <2>5, ReturnsKeeps
<1>2. CASE NoAction
  BY <1>a, <1>b, <1>c, <1>d, <1>2, ExecutedKeeps DEF NoAction
<1>3. ASSUME NEW a \in Acts, Refused(a) PROVE LoopInv'
  <2>1. RepeatOutcomes(a) \subseteq {"skipped", "blocked"}
    BY DEF RepeatOutcomes
  <2>2. PICK o \in {"skipped", "blocked", "failure"} : Executed(o, a.kind = "write", tree)
    BY <1>3, <2>1 DEF Refused
  <2>3. RestInv'
    BY <1>a, <1>b, <1>3, <2>2, ExecutedKeeps DEF Refused
  <2> QED BY <1>c, <1>d, <1>3, <2>3 DEF Refused
<1>4. ASSUME NEW a \in Acts, Edit(a) PROVE LoopInv'
  <2>1. MayStep /\ a \in Edits /\ ~AntiRepeat(a) /\ a.path \in Paths /\ a.text \in {0} \cup Texts
    BY <1>4, EditFields DEF Edit
  <2>2. CASE Written(a)
    <3>1. [tree EXCEPT ![a.path] = a.text] \in Trees
      BY <2>1, EditedTree
    <3>2. RestInv'
      BY <1>b, <2>1, <2>2, <3>1, ExecutedKeeps DEF Written, Shown
    <3>3. HistoryInv'
      BY <1>a, <2>1, <2>2, PerformedKeeps DEF Written
    <3> QED BY <1>c, <3>2, <3>3
  <2>3. CASE Unwritten(a)
    <3>1. RestInv'
      BY <1>a, <1>b, <2>1, <2>3, ExecutedKeeps DEF Unwritten, Shown
    <3>2. HistoryInv'
      BY <1>a, <2>1, <2>3, PerformedKeeps DEF Unwritten
    <3> QED BY <1>c, <3>1, <3>2
  <2>4. CASE HalfWritten(a)
    <3>1. PICK x \in Texts : Executed("failure", TRUE, [tree EXCEPT ![a.path] = x])
      BY <2>4 DEF HalfWritten
    <3>2. [tree EXCEPT ![a.path] = x] \in Trees
      BY <2>1, EditedTree
    <3>3. RestInv'
      BY <1>b, <2>1, <3>1, <3>2, ExecutedKeeps
    <3>4. HistoryInv'
      BY <1>a, <2>1, <2>4, PerformedKeeps DEF HalfWritten
    <3> QED BY <1>c, <3>3, <3>4
  <2> QED BY <1>4, <2>2, <2>3, <2>4 DEF Edit
<1>5. ASSUME NEW a \in Acts, Operate(a) PROVE LoopInv'
  <2>1. MayStep /\ ~AntiRepeat(a)
    BY <1>5 DEF Operate
  <2>2. HistoryInv'
    BY <1>a, <1>5, <2>1, PerformedKeeps DEF Operate
  <2>3. CASE \E o \in {"success", "failure"} : \E x \in Shown(o) : Executed(x, FALSE, tree)
    BY <1>a, <1>b, <1>c, <2>1, <2>2, <2>3, ExecutedKeeps DEF Shown
  <2>4. CASE \E o \in {"success", "failure"}, p \in Paths, t \in {0} \cup Texts :
               \E x \in Shown(o) : Executed(x, FALSE, [tree EXCEPT ![p] = t])
    <3>1. PICK o \in {"success", "failure"}, p \in Paths, t \in {0} \cup Texts :
               \E x \in Shown(o) : Executed(x, FALSE, [tree EXCEPT ![p] = t])
      BY <2>4
    <3>2. [tree EXCEPT ![p] = t] \in Trees
      BY EditedTree
    <3>3. RestInv'
      BY <1>b, <2>1, <3>1, <3>2, ExecutedKeeps DEF Shown
    <3> QED BY <1>c, <2>2, <3>3
  <2> QED BY <1>5, <2>3, <2>4 DEF Operate
<1>6. ASSUME NEW k \in Terminals, Terminal(k) PROVE LoopInv'
  <2>1. RestInv'
    BY <1>a, <1>b, <1>6, ExecutedKeeps DEF Terminal
  <2> QED BY <1>c, <1>d, <1>6, <2>1 DEF Terminal
<1>7. CASE SaveCheckpoint
  <2>1. /\ loopAt = "executed" /\ loopAt' = "saved" /\ checkpoint' \in {stepNum, checkpoint}
        /\ UNCHANGED <<suppressed, stepNum, stepOutcome, errorsInRow, dry, tree, index, history, unused>>
        /\ UNCHANGED <<commitFailed, signalled, loopResult>>
    BY Zenon, <1>7 DEF SaveCheckpoint, workVars
  <2>2. LoopTypeOK'
    BY <1>a, <2>1 DEF LoopShapes, LoopTypeOK
  <2>3. LoopShapes'
    BY Zenon, <1>a, <2>1, <2>2 DEF LoopShapes
  <2>4. BelowLimit'
    BY <1>a, <2>1 DEF BelowLimit
  <2>5. UntrackedInv'
    BY Zenon, <1>a, <2>1 DEF UntrackedInv, Untracked
  <2>6. ReportInv'
    <3>1. loopAt \in {"executed", "saved"} /\ loopAt' \in {"executed", "saved"} /\ loopAt # "returned" /\ loopAt' # "returned"
      BY <2>1
    <3> QED BY Zenon, <1>a, <2>1, <3>1 DEF ReportInv
  <2> QED BY <1>c, <1>d, <2>1, <2>3, <2>4, <2>5, <2>6 DEF RestInv
<1>e. ASSUME loopAt = "saved" PROVE loopResult.unreported = 1 /\ errorsInRow <= loopResult.bad
                                    /\ errorsInRow < max_consecutive_errors /\ loopResult.stop_reason = ""
  <2>1. loopAt \in {"executed", "saved"} /\ loopAt # "returned"
    BY <1>e
  <2> QED BY Zenon, <1>a, <2>1 DEF ReportInv, BelowLimit
<1>8. CASE ShutDown
  <2>1. /\ loopAt = "saved" /\ Returns("stopped", "graceful_shutdown", loopResult)
        /\ UNCHANGED <<suppressed, stepNum, stepOutcome, errorsInRow, dry, workVars, commitFailed, signalled>>
    BY <1>8 DEF ShutDown
  <2>2. "graceful_shutdown" \in StopReasons /\ stepOutcome' \in Outcomes
    BY <1>a, <2>1 DEF StopReasons
  <2> QED BY <1>a, <1>e, <2>1, <2>2, ReturnsKeeps
<1>9. CASE TrackOutcome
  <2> DEFINE t == Tally(stepOutcome)
             c == IF stepOutcome \in {"failure", "error"} THEN 1 ELSE 0
  <2>1. /\ loopAt = "saved" /\ stepOutcome' = "none" /\ "none" \in Outcomes
        /\ UNCHANGED <<suppressed, stepNum, dry, workVars, commitFailed, signalled>>
    BY <1>9 DEF TrackOutcome, Outcomes
  <2>2. t \in ResultType /\ t.unreported = 0 /\ t.stop_reason = loopResult.stop_reason /\ t.bad = loopResult.bad + c
    BY <1>a, <1>e, <2>1, TalliedResult
  <2>3. loopResult.bad \in Nat /\ errorsInRow \in Nat /\ c \in {0, 1}
    BY <1>a DEF LoopShapes, LoopTypeOK, ResultType
  <2>4. errorsInRow <= t.bad /\ errorsInRow + c <= t.bad
    <3>1. t.bad = loopResult.bad + c /\ errorsInRow <= loopResult.bad
      BY Zenon, <1>e, <2>1, <2>2
    <3> HIDE DEF t, c
    <3> QED BY <2>3, <3>1
  <2>5. CASE stepOutcome \in Terminals /\ ~(stepOutcome = "ask_user" /\ suppressed)
    <3>1. /\ Returns(IF stepOutcome = "finish" THEN "finished" ELSE "blocked", stepOutcome, t)
          /\ UNCHANGED errorsInRow
      BY Zenon, <1>9, <2>5 DEF TrackOutcome
    <3>2. stepOutcome \in StopReasons \ {"graceful_shutdown", "budget_exceeded", "no_diff_repair"}
      BY <2>5 DEF StopReasons, Terminals
    <3> HIDE DEF t, c
    <3> QED BY <2>1, <2>2, <2>4, <3>1, <3>2, ReturnsKeeps
  <2>6. CASE ~(stepOutcome \in Terminals /\ ~(stepOutcome = "ask_user" /\ suppressed))
    <3>1. /\ loopAt' = "top" /\ loopResult' = t /\ UNCHANGED checkpoint
          /\ errorsInRow' = CASE stepOutcome = "success" -> 0
                              [] stepOutcome \in {"failure", "error"} -> errorsInRow + 1
                              [] OTHER -> errorsInRow
      BY Zenon, <1>9, <2>6 DEF TrackOutcome
    <3>2. errorsInRow' \in {0, errorsInRow + c}
      BY <2>3, <3>1
    <3>3. errorsInRow' \in 0 .. max_consecutive_errors
      <4>1. errorsInRow < max_consecutive_errors
        BY Zenon, <1>e, <2>1
      <4> QED BY <2>3, <3>2, <4>1
    <3>4. errorsInRow' <= loopResult'.bad
      <4>1. t.bad \in Nat
        BY <2>2 DEF ResultType
      <4> HIDE DEF t, c
      <4>2. errorsInRow' <= t.bad
        BY <2>3, <2>4, <3>2, <4>1
      <4> QED BY Zenon, <3>1, <4>2
    <3>5. LoopTypeOK'
      <4>1. LoopTypeOK /\ UNCHANGED <<stepNum, dry, tree, index>>
        BY Zenon, <1>a, <2>1 DEF LoopShapes, workVars
      <4>2. "top" \in {"top", "executed", "saved", "returned"}
        OBVIOUS
      <4> QED BY Zenon, <2>1, <3>1, <3>3, <4>1, <4>2 DEF LoopTypeOK
    <3>6. LoopShapes'
      BY Zenon, <1>a, <2>1, <2>2, <3>1, <3>5 DEF LoopShapes, workVars
    <3>7. loopAt' \notin {"executed", "saved"}
      BY <3>1
    <3>8. loopResult'.stop_reason = "" /\ loopResult'.unreported = 0
      BY Zenon, <1>e, <2>1, <2>2, <3>1
    <3>9. /\ loopResult'.stop_reason # "graceful_shutdown" /\ loopResult'.stop_reason # "budget_exceeded"
          /\ loopResult'.stop_reason # "no_diff_repair"
      BY <3>8
    <3>10. BelowLimit'
      BY Zenon, <3>7 DEF BelowLimit
    <3>11. UntrackedInv'
      BY Zenon, <1>a, <2>1, <3>9 DEF UntrackedInv, Untracked, workVars
    <3>12. ReportInv'
      BY Zenon, <3>4, <3>7, <3>8, <3>9 DEF ReportInv
    <3>13. UNCHANGED <<history, unused>>
      BY Zenon, <2>1 DEF workVars
    <3> QED BY <1>c, <1>d, <3>6, <3>10, <3>11, <3>12, <3>13 DEF RestInv
  <2> QED BY <2>5, <2>6
<1>10. CASE Signal \/ UNCHANGED loopVars
  <2>1. /\ UNCHANGED <<suppressed, loopAt, stepNum, stepOutcome, errorsInRow, dry, tree, index, history, unused>>
        /\ UNCHANGED <<commitFailed, checkpoint, loopResult>>
        /\ signalled' \in BOOLEAN
    BY Zenon, <1>a, <1>10 DEF Signal, loopVars, workVars, LoopShapes
  <2>2. LoopShapes'
    BY Zenon, <1>a, <2>1 DEF LoopShapes, LoopTypeOK
  <2>3. BelowLimit' /\ UntrackedInv' /\ ReportInv'
    BY Zenon, <1>a, <2>1 DEF BelowLimit, UntrackedInv, Untracked, ReportInv
  <2> QED BY <1>c, <1>d, <2>1, <2>2, <2>3 DEF RestInv
<1> QED
  BY <1>1, <1>2, <1>3, <1>4, <1>5, <1>6, <1>7, <1>8, <1>9, <1>10 DEF LoopNext, LoopStep

\* However the model mixes its actions, the loop does not repeat an action whose
\* result is not used, stops without losing a new file, and reports its steps.
THEOREM LoopIsSafe == LoopSpec => []LoopSafe
<1>1. LoopInv => LoopSafe
  <2> SUFFICES ASSUME LoopInv PROVE LoopSafe
    OBVIOUS
  <2> USE LimitTypes DEF LoopInv
  <2>1. RepeatsUsed
    BY DEF RepeatsUsed, HistoryInv, Entry
  <2>2. WorkNotLost
    BY Zenon DEF WorkNotLost, UntrackedInv
  <2>3. StepsReported
    <3> SUFFICES ASSUME loopAt = "returned"
                 PROVE  /\ loopResult.unreported = (IF loopResult.stop_reason = "graceful_shutdown" THEN 1 ELSE 0)
                        /\ loopResult.stop_reason = "budget_exceeded" => loopResult.bad >= max_consecutive_errors
      BY DEF StepsReported
    <3>1. loopAt \notin {"executed", "saved"}
      OBVIOUS
    <3>2. loopResult.unreported = (IF loopResult.stop_reason = "graceful_shutdown" THEN 1 ELSE 0)
      BY Zenon, <3>1 DEF ReportInv
    <3>3. ASSUME loopResult.stop_reason = "budget_exceeded" PROVE loopResult.bad >= max_consecutive_errors
      <4>1. errorsInRow >= max_consecutive_errors /\ errorsInRow <= loopResult.bad
        BY Zenon, <3>3 DEF ReportInv
      <4>2. errorsInRow \in Nat /\ loopResult.bad \in Nat
        BY DEF LoopShapes, LoopTypeOK, ResultType
      <4> QED BY <4>1, <4>2
    <3> QED BY <3>2, <3>3
  <2> QED BY <2>1, <2>2, <2>3 DEF LoopSafe
<1> QED
  BY <1>1, LoopInvInit, LoopInvStep, PTL DEF LoopSpec

\* The variables of the loop stay in their sets: the counters of steps, errors and
\* read-only steps never pass their limits.
THEOREM LoopTypes == LoopSpec => []LoopTypeOK
<1>1. LoopInv => LoopTypeOK
  BY DEF LoopInv, LoopShapes
<1> QED
  BY <1>1, LoopInvInit, LoopInvStep, PTL DEF LoopSpec

-----------------------------------------------------------------------------
(* The composition of MCOrchestration.                                     *)

\* A step of the composition is a step or a stutter of each component: a scene
\* that is not shown rests.
LEMMA SceneSteps ==
  [Next]_vars => [RoadmapNext]_roadmapVars /\ [StagedNext]_stagedVars /\ [LoopNext]_loopVars
<1> SUFFICES ASSUME [Next]_vars
             PROVE  [RoadmapNext]_roadmapVars /\ [StagedNext]_stagedVars /\ [LoopNext]_loopVars
  OBVIOUS
<1>1. CASE InRoadmap(RoadmapNext)
  BY Zenon, <1>1 DEF InRoadmap
<1>2. CASE InStaged(StagedNext)
  BY Zenon, <1>2 DEF InStaged
<1>3. CASE InLoop(LoopNext)
  BY Zenon, <1>3 DEF InLoop
<1>4. CASE UNCHANGED vars
  BY Zenon, <1>4 DEF vars
<1> QED
  BY Zenon, <1>1, <1>2, <1>3, <1>4 DEF Next

\* Whichever of them runs, the state of the watchdog and of the runs, of the stages
\* and of the reasoning loop keeps its types, with all counters in their bounds.
THEOREM WorkIsTyped == Spec => []WorkTypeOK
<1> DEFINE Inv == RoadmapInv /\ StagedTypeOK /\ LoopInv
<1>1. Init => Inv
  BY Zenon, RoadmapInvInit, StagedTypeInit, LoopInvInit DEF Init
<1>2. Inv /\ [Next]_vars => Inv'
  BY Zenon, SceneSteps, RoadmapInvStep, StagedTypeStep, LoopInvStep
<1>3. Inv => WorkTypeOK
  BY Zenon, RoadmapTypes DEF WorkTypeOK, LoopInv, LoopShapes
<1> QED
  <2> HIDE DEF Inv
  <2> QED BY <1>1, <1>2, <1>3, PTL DEF Spec
=============================================================================
