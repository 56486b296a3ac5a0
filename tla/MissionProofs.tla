---------------------------- MODULE MissionProofs ----------------------------
(***************************************************************************)
(* Proofs about StagedMission, for every plan of required and satisfied    *)
(* stages and every retry and repair budget; and about Roadmap, for every  *)
(* set of issues, any number of runs at a time, of restarts and of API     *)
(* calls, and every depth and threshold.                                   *)
(***************************************************************************)
EXTENDS StagedMission, Roadmap, WellFoundedInduction, TLAPS

-----------------------------------------------------------------------------
(* Success has evidence.                                                   *)

\* The stages that a mission may require are stages of the plan.
LEMMA RequiredAreStages ==
  \A m \in Missions : m.required \subseteq Stages
<1>1. /\ Len(Plan) = 4 /\ 1 \in 1 .. 4 /\ 2 \in 1 .. 4 /\ 3 \in 1 .. 4 /\ 4 \in 1 .. 4
      /\ Plan[1] = "backend_api_change" /\ Plan[2] = "backend_tests"
      /\ Plan[3] = "ui_dashboard_change" /\ Plan[4] = "ui_dashboard_tests"
  BY DEF Plan
<1>2. {"backend_api_change", "backend_tests", "ui_dashboard_change", "ui_dashboard_tests"} \subseteq Stages
  BY <1>1 DEF Stages
<1> QED
  BY <1>2, StagedConstants

\* A required stage is never skipped, and one that succeeded left evidence.
EvidenceInv ==
  /\ mission \in Missions /\ DOMAIN stageStatus = Stages
  /\ \A s \in mission.required :
       /\ stageStatus[s] # "skipped"
       /\ stageStatus[s] = "success" => s \in evidence

\* All stages are pending at the start.
LEMMA EvidenceInit == StagedInit => EvidenceInv
BY RequiredAreStages DEF StagedInit, EvidenceInv

\* Giving the current stage a status keeps the invariant, if a success of it has
\* evidence and a skip is not of a required stage.
LEMMA StatusKeeps ==
  ASSUME EvidenceInv, NEW there, NEW status, StageTo(there, status), mission' = mission, evidence \subseteq evidence',
         Current \in mission.required => status # "skipped" /\ (status = "success" => Current \in evidence')
  PROVE  EvidenceInv'
BY RequiredAreStages DEF EvidenceInv, StageTo

\* A reasoning loop that leads to success has changed or tried to change a file,
\* or the family of the stage had been edited before.
LEMMA ScopeKeeps ==
  ASSUME EvidenceInv, NEW r \in Results, InScope(r), Satisfied(Current, FALSE), mission' = mission,
         evidence' = IF Observed(r) # {} \/ Touched(Family(Current)) THEN evidence \cup {Current} ELSE evidence
  PROVE  EvidenceInv'
<1>1. CASE StageFails
  BY <1>1, StatusKeeps DEF StageFails
<1>2. CASE StageDone("success") /\ r.end = "finished" /\ (Observed(r) # {} \/ ~NothingDone(r))
  <2>1. Observed(r) # {}
    BY <1>2 DEF NothingDone
  <2> QED
    BY <1>2, <2>1, StatusKeeps DEF StageDone
<1>3. CASE StageDone("success") /\ UiEvidence(r)
  <2>1. Observed(r) # {} \/ Touched(Family(Current))
    BY <1>3 DEF UiEvidence, Satisfied, Observed, Touched
  <2> QED
    BY <1>3, <2>1, StatusKeeps DEF StageDone
<1> QED
  BY <1>1, <1>2, <1>3 DEF InScope

\* Every step keeps the invariant.
LEMMA EvidenceStep == EvidenceInv /\ [StagedNext]_stagedVars => EvidenceInv'
<1> SUFFICES ASSUME EvidenceInv, [StagedNext]_stagedVars PROVE EvidenceInv'
  OBVIOUS
<1>1. CASE BeginAttempt \/ Validate \/ Repair \/ UNCHANGED stagedVars
  BY <1>1 DEF BeginAttempt, Validate, Repair, stagedVars, EvidenceInv
<1>2. CASE SkipOptional
  BY <1>2, StatusKeeps DEF SkipOptional, StageDone
<1>3. CASE PreserveProgress
  BY <1>3, StatusKeeps DEF PreserveProgress, StageDone, EvidenceInv
<1>4. CASE AlreadySatisfied
  BY <1>4, StatusKeeps DEF AlreadySatisfied, StageDone
<1>5. CASE RunReasoning
  <2>1. PICK r \in Results :
          /\ UiRecovery(r) \/ WrongFileEdit(r) \/ InScope(r)
          /\ evidence' = IF Observed(r) # {} \/ Touched(Family(Current)) THEN evidence \cup {Current} ELSE evidence
    BY <1>5 DEF RunReasoning
  <2>2. mission' = mission /\ Satisfied(Current, FALSE) /\ evidence \subseteq evidence'
    BY <1>5, <2>1 DEF RunReasoning
  <2>3. CASE UiRecovery(r)
    BY <2>2, <2>3, StatusKeeps DEF UiRecovery, StageFails, EvidenceInv
  <2>4. CASE WrongFileEdit(r)
    BY <2>2, <2>4, StatusKeeps DEF WrongFileEdit, StageFails
  <2>5. CASE InScope(r)
    BY <2>1, <2>2, <2>5, ScopeKeeps
  <2> QED
    BY <2>1, <2>3, <2>4, <2>5
<1> QED
  BY <1>1, <1>2, <1>3, <1>4, <1>5 DEF StagedNext, StagedStep

\* No required stage is marked successful without evidence, in any number of
\* attempts and retries (run_staged_reasoning).
THEOREM SuccessIsEarned == StagedSpec => []SuccessHasEvidence
<1>1. EvidenceInv => SuccessHasEvidence
  BY DEF EvidenceInv, SuccessHasEvidence
<1> QED
  BY <1>1, EvidenceInit, EvidenceStep, PTL DEF StagedSpec

-----------------------------------------------------------------------------
(* Types of a mission in stages.                                           *)

EditType == [by : Stages \cup {"repair"}, path : ProjectFiles]
StageStatuses == {"pending", "success", "skipped", "failure"}

\* The plan has four stages, and the current one is one of them.
LEMMA PlanFacts ==
  /\ Len(Plan) = 4
  /\ \A i \in 1 .. 4 : Plan[i] \in Stages
BY DEF Plan, Stages

\* What a stage leaves behind are edits, and so is what is restored of them.
LEMMA AfterTypes ==
  ASSUME edits \subseteq EditType, Current \in Stages, NEW r \in Results
  PROVE  After(r.changed) \subseteq EditType /\ Restored(r) \subseteq EditType
<1>1. r.changed \subseteq ProjectFiles
  BY DEF Results
<1>2. \A p \in r.changed : [by |-> Current, path |-> p] \in EditType
  BY <1>1 DEF EditType
<1>3. After(r.changed) \subseteq EditType
  BY <1>2 DEF After
<1> QED
  BY <1>3 DEF Restored

\* A stage ends, or is left for the repair cycle.
LEMMA StageTypes ==
  ASSUME StagedTypeOK, InStages, UNCHANGED <<mission, cycle>>, edits' \subseteq EditType,
         (\E st \in StageStatuses : StageDone(st)) \/ StageFails
  PROVE  StagedTypeOK'
<1>1. stagePos \in 1 .. 4 /\ 0 \in 0 .. ui_retry_budget
  BY PlanFacts, StagedConstants DEF StagedTypeOK, InStages
<1> QED
  BY <1>1, PlanFacts DEF StagedTypeOK, StageDone, StageFails, StageTo, NextStage, StageStatuses, EditType

\* Every step of a mission keeps the types: a stage is begun only inside the
\* plan, retried within its budget, and repaired within the cycles.
LEMMA StagedTypeStep == StagedTypeOK /\ [StagedNext]_stagedVars => StagedTypeOK'
<1> SUFFICES ASSUME StagedTypeOK, [StagedNext]_stagedVars PROVE StagedTypeOK'
  OBVIOUS
<1>1. {ui_retry_budget, max_repair_cycles} \subseteq Nat /\ edits \subseteq EditType
  BY StagedConstants DEF StagedTypeOK, EditType
<1>2. InStages => Current \in Stages
  BY PlanFacts DEF InStages, Current, StagedTypeOK
<1>3. CASE BeginAttempt
  BY <1>1, <1>3, PlanFacts DEF BeginAttempt, StagedTypeOK
<1>4. CASE SkipOptional \/ PreserveProgress \/ AlreadySatisfied
  BY <1>1, <1>4, StageTypes DEF SkipOptional, PreserveProgress, AlreadySatisfied, Pending, StageStatuses
<1>5. CASE RunReasoning
  <2>1. PICK r \in Results : UiRecovery(r) \/ WrongFileEdit(r) \/ InScope(r)
    BY <1>5 DEF RunReasoning
  <2>2. InStages /\ UNCHANGED <<mission, cycle>>
    BY <1>5 DEF RunReasoning, Pending
  <2>3. After(r.changed) \subseteq EditType /\ Restored(r) \subseteq EditType
    BY <1>1, <1>2, <2>2, AfterTypes
  <2>4. CASE UiRecovery(r)
    <3>1. edits' \subseteq EditType
      BY <2>3, <2>4 DEF UiRecovery
    <3>2. CASE StageFails
      BY <2>2, <3>1, <3>2, StageTypes
    <3>3. CASE RetryLeft /\ uiRetries' = uiRetries + 1 /\ UNCHANGED <<missionAt, stageStatus, stagePos>>
      BY <1>1, <2>2, <3>1, <3>3 DEF RetryLeft, StagedTypeOK, EditType
    <3> QED BY <2>4, <3>2, <3>3 DEF UiRecovery
  <2>5. CASE WrongFileEdit(r)
    BY <2>2, <2>3, <2>5, StageTypes DEF WrongFileEdit
  <2>6. CASE InScope(r)
    BY <2>2, <2>3, <2>6, StageTypes DEF InScope, StageStatuses
  <2> QED BY <2>1, <2>4, <2>5, <2>6
<1>6. CASE Validate
  BY <1>6 DEF Validate, StagedTypeOK
<1>7. CASE Repair
  <2>1. \A p \in ProjectFiles : [by |-> "repair", path |-> p] \in EditType
    BY DEF EditType
  <2>2. \A x \in AfterRepair : x \subseteq EditType
    BY <1>1, <2>1 DEF AfterRepair
  <2> QED BY <1>1, <1>7, <2>2 DEF Repair, NextCycle, StagedTypeOK, EditType
<1>8. CASE UNCHANGED stagedVars
  BY <1>8 DEF stagedVars, StagedTypeOK
<1> QED
  BY <1>3, <1>4, <1>5, <1>6, <1>7, <1>8 DEF StagedNext, StagedStep

\* A mission starts with every stage pending.
LEMMA StagedTypeInit == StagedInit => StagedTypeOK
BY PlanFacts, StagedConstants DEF StagedInit, StagedTypeOK

-----------------------------------------------------------------------------
(* Edits of finished stages.                                               *)

\* The files of the UI stage are in no other family.
LEMMA UiFamily ==
  ASSUME NEW s, NEW p \in Family(s), p \in Family(UiStage) PROVE s = UiStage
BY DEF Family, UiStage

\* While stages run, what a step removes was in the family of the current one.
LEMMA EditsKept ==
  ASSUME [StagedNext]_stagedVars, missionAt = "stages", missionAt' = "stages",
         NEW e \in edits, e.path \in Family(e.by), e.by # Current
  PROVE  e \in edits'
<1>1. CASE BeginAttempt \/ SkipOptional \/ PreserveProgress \/ AlreadySatisfied \/ UNCHANGED stagedVars
  BY <1>1 DEF BeginAttempt, SkipOptional, PreserveProgress, AlreadySatisfied, stagedVars
<1>2. CASE Validate \/ Repair
  BY <1>2 DEF Validate, Repair
<1>3. CASE RunReasoning
  <2>1. PICK r \in Results : UiRecovery(r) \/ WrongFileEdit(r) \/ InScope(r)
    BY <1>3 DEF RunReasoning
  <2>2. e \in After(r.changed)
    BY DEF After
  <2>3. CASE UiRecovery(r)
    <3>1. Current = UiStage
      BY <2>3 DEF UiRecovery
    <3>2. e.path \notin Family(Current)
      BY <3>1, UiFamily
    <3> QED
      BY <2>2, <2>3, <3>2 DEF UiRecovery, Restored
  <2>4. CASE WrongFileEdit(r) \/ InScope(r)
    BY <2>2, <2>4 DEF WrongFileEdit, InScope
  <2> QED
    BY <2>1, <2>3, <2>4
<1> QED
  BY <1>1, <1>2, <1>3 DEF StagedNext, StagedStep

\* "Do not discard validated backend/test stages on UI failure": for every plan
\* and every behaviour of the reasoning loops.
THEOREM ValidatedEditsAreKept == StagedSpec => ValidatedEditsKept
<1>1. [StagedNext]_stagedVars
        => [missionAt = "stages" /\ missionAt' = "stages" =>
              \A e \in edits : e.by \in worked /\ e.path \in Family(e.by) /\ e.by # Current => e \in edits']_stagedVars
  BY EditsKept
<1> QED
  BY <1>1, PTL DEF StagedSpec, ValidatedEditsKept

-----------------------------------------------------------------------------
(* The watchdog and the runs of the roadmap.                               *)

\* A set of numbers that is not empty has a smallest one: the CHOOSE of Slot
\* and of Launch finds what it looks for.
LEMMA Smallest ==
  ASSUME NEW T, T \subseteq Nat, T # {}
  PROVE  \E x \in T : \A y \in T : x <= y
<1>1. IsWellFoundedOn(OpToRel(<, Nat), Nat)
  BY NatLessThanWellFounded
<1>2. PICK x \in T : \A y \in T : ~ (<<y, x>> \in OpToRel(<, Nat))
  BY <1>1, WFMin
<1>3. \A y \in T : ~ (y < x)
  BY <1>2 DEF OpToRel
<1> QED
  BY <1>3

-----------------------------------------------------------------------------
(* The depth of a chain.                                                   *)

\* A run has the fields of NoRun, and a depth within the limit.
RunOK(x) == DOMAIN x = DOMAIN NoRun /\ x.depth \in 0 .. MAX_AUTOCHAIN_DEPTH
RunsOK == DOMAIN run = Slots /\ \A r \in Slots : RunOK(run[r])

\* The runs that are made of nothing: the empty slot, the rest of a finished
\* run, and a new run of the watchdog or the API.
LEMMA NewRunsOK ==
  /\ RunOK(NoRun)
  /\ \A r, status, ceiling, child : RunOK(Over(r, status, ceiling, child))
  /\ \A i, named, autosub : \A depth \in 0 .. MAX_AUTOCHAIN_DEPTH : RunOK(NewRun(i, named, depth, autosub))
  /\ 0 \in 0 .. MAX_AUTOCHAIN_DEPTH /\ 1 \in 0 .. MAX_AUTOCHAIN_DEPTH
BY RoadmapConstants DEF RunOK, NoRun, Over, NewRun

\* Putting a good run into a slot keeps the runs good.
LEMMA SetOK ==
  ASSUME RunsOK, NEW r, NEW x, RunOK(x), Set(r, x) PROVE RunsOK'
BY DEF RunsOK, Set, RunOK

\* Initially there is no run.
LEMMA RunsOKInit == RoadmapInit => RunsOK
BY NewRunsOK DEF RoadmapInit, RunsOK

\* A worker changes its own run, which keeps its depth, or queues a child one
\* level deeper when autorun_guards has found room.
LEMMA WorkerKeepsRuns ==
  ASSUME RunsOK, NEW r \in Slots, WorkerStep(r) PROVE RunsOK'
<1>1. CASE Complete(r)
  BY <1>1, NewRunsOK, SetOK DEF Complete
<1>2. CASE CompleteNoop(r)
  BY <1>2, NewRunsOK, SetOK DEF CompleteNoop
<1>3. CASE Fail(r)
  BY <1>3, NewRunsOK, SetOK DEF Fail
<1>4. CASE Decompose(r)
  <2>1. RunOK([run[r] EXCEPT !.status = "blocked", !.worker = "creating"])
    BY DEF RunsOK, RunOK, NoRun
  <2> QED
    BY <1>4, <2>1, NewRunsOK, SetOK DEF Decompose
<1>5. CASE CreateSubissues(r)
  <2>1. \A i : RunOK([run[r] EXCEPT !.sub = i, !.worker = "queueing"])
    BY DEF RunsOK, RunOK, NoRun
  <2> QED
    BY <1>5, <2>1, NewRunsOK, SetOK DEF CreateSubissues
<1>6. CASE StartChild(r)
  <2>1. CASE Set(r, Over(r, "blocked", FALSE, FALSE))
    BY <2>1, NewRunsOK, SetOK
  <2>2. ASSUME AutorunGuards(r), NEW named, NEW x, x = ChildOf(r, named), NEW y, y = Over(r, "blocked", FALSE, TRUE),
               run' = [run EXCEPT ![r] = y, ![Slot] = x]
        PROVE  RunsOK'
    <3>1. RunOK(x)
      BY <2>2, NewRunsOK, RoadmapConstants DEF ChildOf, AutorunGuards, RunsOK, RunOK
    <3>2. RunOK(y)
      BY <2>2, NewRunsOK
    <3> QED
      BY <2>2, <3>1, <3>2 DEF RunsOK, RunOK
  <2> QED
    BY <1>6, <2>1, <2>2 DEF StartChild
<1> QED
  BY <1>1, <1>2, <1>3, <1>4, <1>5, <1>6 DEF WorkerStep

\* So does every other step: the watchdog starts runs at depth 1, the API at 0.
LEMMA RunsOKStep == RunsOK /\ [RoadmapNext]_roadmapVars => RunsOK'
<1> SUFFICES ASSUME RunsOK, [RoadmapNext]_roadmapVars PROVE RunsOK'
  OBVIOUS
<1>1. CASE Poll \/ Recheck \/ UNCHANGED roadmapVars
  BY <1>1 DEF Poll, Recheck, roadmapVars, RunsOK, RunOK
<1>2. CASE Account
  BY <1>2, NewRunsOK DEF Account, RunsOK, RunOK
<1>3. CASE Launch
  <2>1. run' = run \/ \E i, autosub : Set(Slot, NewRun(i, i, 1, autosub))
    BY <1>3 DEF Launch
  <2>2. ASSUME NEW i, NEW autosub, Set(Slot, NewRun(i, i, 1, autosub)) PROVE RunsOK'
    BY <2>2, NewRunsOK, SetOK
  <2> QED
    BY <2>1, <2>2 DEF RunsOK, RunOK
<1>4. CASE ApiStart
  BY <1>4, NewRunsOK, SetOK DEF ApiStart
<1>5. CASE Restart
  BY <1>5, NewRunsOK DEF Restart, RunsOK, RunOK
<1>6. ASSUME NEW r \in Slots, ApiCancel(r) PROVE RunsOK'
  <2>1. RunOK([run[r] EXCEPT !.status = "cancelling"])
    BY DEF RunsOK, RunOK, NoRun
  <2> QED
    BY <1>6, <2>1, SetOK DEF ApiCancel
<1> QED
  BY <1>1, <1>2, <1>3, <1>4, <1>5, <1>6, WorkerKeepsRuns DEF RoadmapNext, WatchdogStep

\* Children queue children, but no chain gets deeper than MAX_AUTOCHAIN_DEPTH,
\* whoever starts runs, decomposes or restarts in between (autorun_guards).
THEOREM ChainIsBounded == RoadmapSpec => []ChainBounded
<1>1. RunsOK => ChainBounded
  BY RoadmapConstants DEF RunsOK, RunOK, ChainBounded
<1> QED
  BY <1>1, RunsOKInit, RunsOKStep, PTL DEF RoadmapSpec

-----------------------------------------------------------------------------
(* What was given up.                                                      *)

\* What was saved as given up is on file, and what is on file is skipped; and
\* the watchdog has its three fields.
NoWatch == [at |-> "poll", last |-> 0, on |-> 0]
SkipInv ==
  /\ givenUp \subseteq skippedFile /\ skippedFile \subseteq skipped
  /\ DOMAIN watchdog = DOMAIN NoWatch

\* Initially nothing is given up.
LEMMA SkipInvInit == RoadmapInit => SkipInv
BY DEF RoadmapInit, SkipInv, NoWatch

\* Only Account and Restart touch the three sets: memory grows before the file
\* does, and a restart goes back to the file.
LEMMA SkipInvStep == SkipInv /\ [RoadmapNext]_roadmapVars => SkipInv'
<1> USE DEF NoWatch
<1> SUFFICES ASSUME SkipInv, [RoadmapNext]_roadmapVars PROVE SkipInv'
  OBVIOUS
<1>1. CASE Account
  BY <1>1 DEF Account, SkipSaved, Forgotten, SkipInv
<1>2. CASE Restart
  BY <1>2 DEF Restart, SkipInv
<1>3. CASE Poll \/ Recheck \/ Launch \/ ApiStart \/ UNCHANGED roadmapVars
  BY <1>3 DEF Poll, Recheck, Launch, WatchdogTo, ApiStart, watchdogVars, roadmapVars, SkipInv
<1>4. ASSUME NEW r \in Slots, WorkerStep(r) \/ ApiCancel(r) PROVE SkipInv'
  BY <1>4 DEF WorkerStep, Complete, CompleteNoop, Fail, Decompose, CreateSubissues, StartChild, ApiCancel,
              watchdogVars, SkipInv
<1> QED
  BY <1>1, <1>2, <1>3, <1>4 DEF RoadmapNext, WatchdogStep

\* The watchdog launches the hint or the smallest open issue, and neither is
\* skipped.
LEMMA NextIssueNotSkipped ==
  ASSUME Hinted \/ Pickable # {} PROVE NextIssue \notin skipped
<1>1. CASE Hinted
  BY <1>1 DEF Hinted, NextIssue
<1>2. CASE ~Hinted
  <2>1. Pickable # {} /\ Pickable \subseteq Nat
    BY <1>2, RoadmapConstants DEF Pickable
  <2>2. NextIssue \in Pickable
    BY <1>2, <2>1, Smallest DEF NextIssue
  <2> QED
    BY <2>2 DEF Pickable
<1> QED
  BY <1>1, <1>2

\* So a step of Launch that gives the watchdog a run gives it a good one.
LEMMA LaunchedNotSkipped ==
  ASSUME SkipInv, Launch, watchdog'.last # watchdog.last PROVE watchdog'.on \notin skipped
<1>1. CASE Hinted \/ Pickable # {}
  BY <1>1, NextIssueNotSkipped DEF Launch
<1>2. CASE ~(Hinted \/ Pickable # {})
  BY <1>2 DEF Launch, WatchdogTo, SkipInv, NoWatch
<1> QED
  BY <1>1, <1>2

\* No other step gives the watchdog a run.
LEMMA OnlyLaunchLaunches ==
  ASSUME SkipInv, [RoadmapNext]_roadmapVars, watchdog.last = 0, watchdog'.last # 0 PROVE Launch
<1>1. CASE Poll \/ Recheck
  BY <1>1 DEF Poll, Recheck, WatchdogTo, SkipInv, NoWatch
<1>2. CASE Account
  BY <1>2 DEF Account, Forgotten
<1>3. CASE ApiStart \/ UNCHANGED roadmapVars
  BY <1>3 DEF ApiStart, watchdogVars, roadmapVars
<1>4. CASE Restart
  BY <1>4 DEF Restart
<1>5. ASSUME NEW r \in Slots, WorkerStep(r) \/ ApiCancel(r) PROVE FALSE
  BY <1>5 DEF WorkerStep, Complete, CompleteNoop, Fail, Decompose, CreateSubissues, StartChild, ApiCancel,
              watchdogVars
<1> QED
  BY <1>1, <1>2, <1>3, <1>4, <1>5 DEF RoadmapNext, WatchdogStep

\* An issue whose giving up was saved is never launched again, not through a
\* hint and not after any number of restarts (_load_skipped_issues).
THEOREM GivenUpStaysGivenUp == RoadmapSpec => SkipKept
<1>1. SkipInv /\ [RoadmapNext]_roadmapVars
        => [watchdog.last = 0 /\ watchdog'.last # 0 => watchdog'.on \notin givenUp]_roadmapVars
  BY OnlyLaunchLaunches, LaunchedNotSkipped DEF SkipInv
<1> QED
  BY <1>1, SkipInvInit, SkipInvStep, PTL DEF RoadmapSpec, SkipKept

-----------------------------------------------------------------------------
(* What was counted.                                                       *)

RunStatuses == {"none", "running", "cancelling", "completed", "blocked", "cancelled"}
Workers == {"working", "creating", "queueing", "over"}
RunType ==
  [status : RunStatuses, on : Issues \cup {0}, named : Issues \cup {0}, depth : Nat, autosub : BOOLEAN,
   ceiling : BOOLEAN, worker : Workers, sub : Issues \cup {0}, child : BOOLEAN]
IssueType == [state : {"unused", "open", "closed"}, leaf : BOOLEAN]
FailedType == [n : 0 .. MaxFailures, ceiling : BOOLEAN]
WatchdogType == [at : {"poll", "recheck", "account", "launch"}, last : Slots \cup {0}, on : Issues \cup {0}]
RoadmapShapes ==
  /\ issue \in [Issues -> IssueType] /\ run \in [Slots -> RunType] /\ watchdog \in WatchdogType
  /\ failures \in [Issues -> 0 .. MaxFailures] /\ failed \in [Issues -> FailedType]
  /\ hint \in Issues \cup {0} /\ skipped \subseteq Issues /\ skippedFile \subseteq skipped

\* A run whose worker decomposes is blocked already; the ceiling is an outcome.
WorkersInv ==
  \A r \in Slots : /\ run[r].worker = "working" => run[r].status \in {"running", "cancelling"}
                   /\ run[r].worker \in {"creating", "queueing"} => run[r].status = "blocked"
                   /\ run[r].worker # "over" => ~run[r].ceiling

\* The watchdog accounts for a run it remembers and launches when it remembers
\* none; as long as the run works it is on the issue the watchdog remembers.
WatchedInv ==
  /\ watchdog.at = "launch" => watchdog.last = 0
  /\ watchdog.at \in {"recheck", "account"} => watchdog.last # 0
  /\ watchdog.last # 0 =>
       watchdog.on \in Issues /\ (run[watchdog.last].worker # "over" => run[watchdog.last].on = watchdog.on)

\* The failures that the watchdog has counted, and the one that it is about to
\* count, are failures of different runs; so is a ceiling that it is about to see.
Uncounted(i) == watchdog.last # 0 /\ watchdog.on = i /\ run[watchdog.last].status = "blocked"
CountedInv ==
  \A i \in Issues :
    /\ failures[i] <= failed[i].n
    /\ Uncounted(i) => /\ failures[i] < failed[i].n \/ failed[i].n = MaxFailures
                       /\ run[watchdog.last].ceiling => failed[i].ceiling

RoadmapInv == RoadmapShapes /\ WorkersInv /\ WatchedInv /\ CountedInv /\ SkipEarned

\* The constants as numbers.
LEMMA RoadmapNumbers ==
  /\ MaxFailures \in Nat \ {0} /\ CeilingSkipAfter \in Nat /\ CeilingSkipAfter <= MaxFailures
  /\ 0 \notin Slots /\ 0 \notin Issues /\ Slots \subseteq Nat /\ Issues \subseteq Nat
BY RoadmapConstants

\* An empty slot.
LEMMA NoRunFacts == NoRun \in RunType /\ NoRun.worker = "over" /\ NoRun.status = "none"
<1>1. NoRun \in RunType
  BY DEF NoRun, RunType, RunStatuses, Workers
<1> QED BY <1>1 DEF NoRun

\* What is left of a run whose worker has returned.
LEMMA OverFacts ==
  ASSUME NEW r, NEW st \in RunStatuses, NEW c \in BOOLEAN, NEW ch \in BOOLEAN
  PROVE  /\ Over(r, st, c, ch) \in RunType /\ Over(r, st, c, ch).worker = "over"
         /\ watchdog.last = r => Over(r, st, c, ch).status = st
         /\ Over(r, st, c, ch).ceiling => c
<1> DEFINE x == [NoRun EXCEPT !.status = st, !.ceiling = c, !.child = ch]
<1>1. x \in RunType
  BY NoRunFacts DEF RunType
<1>2. x.worker = "over" /\ x.status = st
  BY DEF NoRun
<1>3. x.ceiling = c /\ ~NoRun.ceiling
  BY DEF NoRun
<1> HIDE DEF x
<1>4. Over(r, st, c, ch) = IF watchdog.last = r THEN x ELSE NoRun
  BY DEF Over, x
<1> QED BY Zenon, <1>1, <1>2, <1>3, <1>4, NoRunFacts

\* A new run.
LEMMA NewRunFacts ==
  ASSUME NEW i \in Issues \cup {0}, NEW m \in Issues \cup {0}, NEW depth \in Nat, NEW a \in BOOLEAN
  PROVE  /\ NewRun(i, m, depth, a) \in RunType /\ NewRun(i, m, depth, a).worker = "working"
         /\ NewRun(i, m, depth, a).status = "running" /\ NewRun(i, m, depth, a).on = i
         /\ ~NewRun(i, m, depth, a).ceiling
<1> DEFINE x == [NoRun EXCEPT !.status = "running", !.on = i, !.named = m, !.depth = depth, !.autosub = a,
                              !.worker = "working"]
<1>1. x \in RunType
  BY NoRunFacts DEF RunType, RunStatuses, Workers
<1>2. x.worker = "working" /\ x.status = "running" /\ x.on = i
  BY DEF NoRun
<1>3. ~x.ceiling
  BY DEF NoRun
<1> HIDE DEF x
<1>4. NewRun(i, m, depth, a) = x
  BY DEF NewRun, x
<1> QED BY Zenon, <1>1, <1>2, <1>3, <1>4

\* A free slot is one, it is not the watchdog's, and nobody works in it.
LEMMA SlotIsFree == ASSUME Free # {} PROVE Slot \in Slots /\ run[Slot].worker = "over" /\ watchdog.last # Slot
<1>1. Free \subseteq Nat
  BY RoadmapNumbers DEF Free
<1>2. Slot \in Free
  BY <1>1, Smallest DEF Slot
<1> QED BY <1>2 DEF Free

\* Nothing is counted at the start.
LEMMA RoadmapInvInit == RoadmapInit => RoadmapInv
<1> SUFFICES ASSUME RoadmapInit PROVE RoadmapInv
  OBVIOUS
<1>1. RoadmapShapes
  <2>1. \A i \in Issues : [state |-> IF i \in RoadmapIssues THEN "open" ELSE "unused", leaf |-> FALSE] \in IssueType
    BY DEF IssueType
  <2>2. [n |-> 0, ceiling |-> FALSE] \in FailedType
    BY RoadmapNumbers DEF FailedType
  <2>3. [at |-> "poll", last |-> 0, on |-> 0] \in WatchdogType
    BY DEF WatchdogType
  <2>4. issue \in [Issues -> IssueType]
    BY <2>1 DEF RoadmapInit
  <2>5. failed \in [Issues -> FailedType]
    BY <2>2 DEF RoadmapInit
  <2>6. run \in [Slots -> RunType]
    BY NoRunFacts DEF RoadmapInit
  <2>7. watchdog \in WatchdogType
    BY Zenon, <2>3 DEF RoadmapInit
  <2>8. failures = [i \in Issues |-> 0] /\ skipped = {} /\ skippedFile = {} /\ hint = 0
    BY Zenon DEF RoadmapInit
  <2>9. failures \in [Issues -> 0 .. MaxFailures]
    BY <2>8, RoadmapNumbers
  <2> QED BY Zenon, <2>4, <2>5, <2>6, <2>7, <2>8, <2>9 DEF RoadmapShapes
<1>2. WorkersInv
  <2>1. \A r \in Slots : run[r].worker = "over"
    BY NoRunFacts DEF RoadmapInit
  <2> QED BY <2>1 DEF WorkersInv
<1>3. watchdog.last = 0 /\ watchdog.at = "poll"
  <2>1. watchdog = [at |-> "poll", last |-> 0, on |-> 0]
    BY Zenon DEF RoadmapInit
  <2> QED BY <2>1
<1>4. WatchedInv
  BY <1>3 DEF WatchedInv
<1>5. CountedInv
  <2>1. \A i \in Issues : failures[i] = 0 /\ failed[i] = [n |-> 0, ceiling |-> FALSE]
    BY DEF RoadmapInit
  <2>2. \A i \in Issues : failures[i] <= failed[i].n
    BY <2>1
  <2> QED BY Zenon, <1>3, <2>2 DEF CountedInv, Uncounted
<1>6. SkipEarned
  BY DEF SkipEarned, RoadmapInit
<1> QED
  BY <1>1, <1>2, <1>4, <1>5, <1>6 DEF RoadmapInv

\* CountFailure counts for the issue of the run, up to MaxFailures, and forgets
\* nothing.
LEMMA FailureCounted ==
  ASSUME RoadmapShapes, NEW r \in Slots, NEW c \in BOOLEAN, CountFailure(r, c)
  PROVE  /\ failed' \in [Issues -> FailedType]
         /\ \A i \in Issues : failed'[i].n >= failed[i].n /\ (failed[i].ceiling => failed'[i].ceiling)
         /\ \A i \in Issues : i = run[r].on =>
              /\ failed'[i].n > failed[i].n \/ failed'[i].n = MaxFailures
              /\ c => failed'[i].ceiling
<1> DEFINE More(e) == [n |-> IF e.n < MaxFailures THEN e.n + 1 ELSE e.n, ceiling |-> e.ceiling \/ c]
<1>1. ASSUME NEW e \in FailedType
      PROVE  /\ More(e) \in FailedType /\ More(e).n >= e.n /\ (More(e).n > e.n \/ More(e).n = MaxFailures)
             /\ e.ceiling => More(e).ceiling
             /\ c => More(e).ceiling
  BY <1>1, RoadmapNumbers DEF FailedType
<1>2. failed' = [failed EXCEPT ![run[r].on] = More(failed[run[r].on])]
  BY DEF CountFailure
<1> HIDE DEF More
<1>3. \A i \in Issues : failed'[i] = IF i = run[r].on THEN More(failed[i]) ELSE failed[i]
  BY <1>2 DEF RoadmapShapes
<1>4. \A i \in Issues : failed[i] \in FailedType /\ failed[i].n \in Nat
  BY RoadmapNumbers DEF RoadmapShapes, FailedType
<1>5. failed' \in [Issues -> FailedType]
  BY <1>1, <1>2, <1>4 DEF RoadmapShapes
<1>6. ASSUME NEW i \in Issues
      PROVE  /\ failed'[i].n >= failed[i].n /\ (failed[i].ceiling => failed'[i].ceiling)
             /\ i = run[r].on => /\ failed'[i].n > failed[i].n \/ failed'[i].n = MaxFailures
                                 /\ c => failed'[i].ceiling
  <2>1. CASE i = run[r].on
    BY <1>1, <1>3, <1>4, <2>1
  <2>2. CASE i # run[r].on
    <3>1. failed'[i] = failed[i] /\ failed[i].n >= failed[i].n
      BY <1>3, <1>4, <2>2
    <3> QED BY Zenon, <2>2, <3>1
  <2> QED BY <2>1, <2>2
<1> QED
  BY <1>5, <1>6

\* Steps of the workers and of the API.  What they may do to the run that the
\* watchdog remembers: it stops, stays on its issue, and when it becomes blocked
\* a failure of its issue is counted.
StaysWatched(old, new) == new.worker # "over" => old.worker # "over" /\ new.on = old.on
BlockCounted(old, new, i) ==
  new.status = "blocked" =>
    \/ old.status = "blocked" /\ (new.ceiling => old.ceiling)
    \/ /\ failed'[i].n > failed[i].n \/ failed'[i].n = MaxFailures
       /\ new.ceiling => failed'[i].ceiling

LEMMA WorkKeeps ==
  ASSUME RoadmapInv, UNCHANGED <<watchdog, failures, skipped, skippedFile>>,
         issue' \in [Issues -> IssueType], hint' \in Issues \cup {0}, run' \in [Slots -> RunType], WorkersInv',
         failed' \in [Issues -> FailedType],
         \A i \in Issues : failed'[i].n >= failed[i].n /\ (failed[i].ceiling => failed'[i].ceiling),
         watchdog.last # 0 => /\ StaysWatched(run[watchdog.last], run'[watchdog.last])
                              /\ BlockCounted(run[watchdog.last], run'[watchdog.last], watchdog.on)
  PROVE  RoadmapInv'
<1>1. RoadmapShapes'
  BY Zenon DEF RoadmapInv, RoadmapShapes
<1>2. WatchedInv'
  BY Zenon DEF RoadmapInv, WatchedInv, StaysWatched
<1>3. \A i \in Issues : /\ failed[i].n \in 0 .. MaxFailures /\ failed'[i].n \in 0 .. MaxFailures
                        /\ failures[i] \in Nat /\ failures'[i] = failures[i]
  BY DEF RoadmapInv, RoadmapShapes, FailedType
<1>4. CountedInv'
  <2> SUFFICES ASSUME NEW i \in Issues
               PROVE  /\ failures'[i] <= failed'[i].n
                      /\ Uncounted(i)' => /\ failures'[i] < failed'[i].n \/ failed'[i].n = MaxFailures
                                          /\ run'[watchdog'.last].ceiling => failed'[i].ceiling
    BY DEF CountedInv
  <2>1. failures[i] <= failed[i].n /\ failed'[i].n >= failed[i].n /\ (failed[i].ceiling => failed'[i].ceiling)
    BY Zenon DEF RoadmapInv, CountedInv
  <2>2. failures'[i] <= failed'[i].n
    BY <1>3, <2>1
  <2>3. ASSUME Uncounted(i)' PROVE /\ failures'[i] < failed'[i].n \/ failed'[i].n = MaxFailures
                                   /\ run'[watchdog'.last].ceiling => failed'[i].ceiling
    <3>1. watchdog' = watchdog /\ watchdog.last # 0 /\ watchdog.on = i /\ run'[watchdog.last].status = "blocked"
      BY Zenon, <2>3 DEF Uncounted
    <3>2. BlockCounted(run[watchdog.last], run'[watchdog.last], i)
      BY Zenon, <3>1
    <3>3. CASE run[watchdog.last].status = "blocked" /\ (run'[watchdog.last].ceiling => run[watchdog.last].ceiling)
      <4>1. Uncounted(i)
        BY Zenon, <3>1, <3>3 DEF Uncounted
      <4>2. /\ failures[i] < failed[i].n \/ failed[i].n = MaxFailures
            /\ run[watchdog.last].ceiling => failed[i].ceiling
        BY Zenon, <4>1 DEF RoadmapInv, CountedInv
      <4>3. failures'[i] < failed'[i].n \/ failed'[i].n = MaxFailures
        BY <1>3, <2>1, <4>2
      <4> QED BY Zenon, <2>1, <3>1, <3>3, <4>2, <4>3
    <3>4. CASE /\ failed'[i].n > failed[i].n \/ failed'[i].n = MaxFailures
               /\ run'[watchdog.last].ceiling => failed'[i].ceiling
      <4>1. failures'[i] < failed'[i].n \/ failed'[i].n = MaxFailures
        BY <1>3, <2>1, <3>4
      <4> QED BY Zenon, <3>1, <3>4, <4>1
    <3> QED BY Zenon, <3>1, <3>2, <3>3, <3>4 DEF BlockCounted
  <2> QED BY <2>2, <2>3
<1>5. SkipEarned'
  <2> SUFFICES ASSUME NEW i \in skipped
               PROVE  failed'[i].n >= MaxFailures \/ (failed'[i].ceiling /\ failed'[i].n >= CeilingSkipAfter)
    BY DEF SkipEarned
  <2>1. i \in Issues
    BY DEF RoadmapInv, RoadmapShapes
  <2>2. failed[i].n >= MaxFailures \/ (failed[i].ceiling /\ failed[i].n >= CeilingSkipAfter)
    BY Zenon DEF RoadmapInv, SkipEarned
  <2>3. failed'[i].n >= failed[i].n /\ (failed[i].ceiling => failed'[i].ceiling)
    BY Zenon, <2>1
  <2>4. failed[i].n >= MaxFailures => failed'[i].n >= MaxFailures
    BY <1>3, <2>1, <2>3, RoadmapNumbers
  <2>5. failed[i].n >= CeilingSkipAfter => failed'[i].n >= CeilingSkipAfter
    BY <1>3, <2>1, <2>3, RoadmapNumbers
  <2> QED BY Zenon, <2>2, <2>3, <2>4, <2>5
<1> QED
  BY <1>1, <1>2, <1>4, <1>5 DEF RoadmapInv

\* One slot changes.
LEMMA SetKeeps ==
  ASSUME RoadmapInv, UNCHANGED <<watchdog, failures, skipped, skippedFile>>,
         issue' \in [Issues -> IssueType], hint' \in Issues \cup {0}, failed' \in [Issues -> FailedType],
         \A i \in Issues : failed'[i].n >= failed[i].n /\ (failed[i].ceiling => failed'[i].ceiling),
         NEW r \in Slots, NEW x \in RunType, Set(r, x),
         x.worker = "working" => x.status \in {"running", "cancelling"},
         x.worker \in {"creating", "queueing"} => x.status = "blocked", x.worker # "over" => ~x.ceiling,
         watchdog.last = r => StaysWatched(run[r], x) /\ BlockCounted(run[r], x, watchdog.on)
  PROVE  RoadmapInv'
<1>1. run \in [Slots -> RunType] /\ WorkersInv /\ watchdog.last \in Slots \cup {0}
  BY DEF RoadmapInv, RoadmapShapes, WatchdogType
<1>2. run' = [run EXCEPT ![r] = x]
  BY DEF Set
<1>3. run' \in [Slots -> RunType]
  BY <1>1, <1>2
<1>4. run'[r] = x /\ \A s \in Slots : s # r => run'[s] = run[s]
  BY <1>1, <1>2
<1>5. WorkersInv'
  BY Zenon, <1>1, <1>4 DEF WorkersInv
<1>6. ASSUME watchdog.last # 0
      PROVE  /\ StaysWatched(run[watchdog.last], run'[watchdog.last])
             /\ BlockCounted(run[watchdog.last], run'[watchdog.last], watchdog.on)
  <2>1. CASE watchdog.last = r
    BY Zenon, <1>4, <2>1
  <2>2. CASE watchdog.last # r
    <3>1. run'[watchdog.last] = run[watchdog.last]
      BY <1>1, <1>4, <1>6, <2>2
    <3> QED BY Zenon, <3>1 DEF StaysWatched, BlockCounted
  <2> QED BY <2>1, <2>2
<1> QED
  BY <1>3, <1>5, <1>6, WorkKeeps

\* Nothing is counted: the counts are what they were.
LEMMA SameFailures ==
  ASSUME RoadmapShapes, UNCHANGED failed
  PROVE  /\ failed' \in [Issues -> FailedType]
         /\ \A i \in Issues : failed'[i].n >= failed[i].n /\ (failed[i].ceiling => failed'[i].ceiling)
<1>1. \A i \in Issues : failed[i].n \in 0 .. MaxFailures
  BY DEF RoadmapShapes, FailedType
<1>2. \A i \in Issues : failed[i].n >= failed[i].n
  BY <1>1
<1> QED BY Zenon, <1>2 DEF RoadmapShapes

\* A run that completes does not count.
LEMMA CompleteKeeps == ASSUME RoadmapInv, NEW r \in Slots, Complete(r) \/ CompleteNoop(r) PROVE RoadmapInv'
<1>1. PICK st \in {"completed", "cancelled"} : Set(r, Over(r, st, FALSE, FALSE))
  BY DEF Complete, CompleteNoop, Outcome
<1>2. st \in RunStatuses /\ st # "blocked"
  BY DEF RunStatuses
<1> DEFINE x == Over(r, st, FALSE, FALSE)
<1>3. x \in RunType /\ x.worker = "over" /\ (watchdog.last = r => x.status = st)
  BY <1>2, OverFacts
<1> HIDE DEF x
<1>4. UNCHANGED <<watchdog, failures, skipped, skippedFile, failed>>
  BY DEF Complete, CompleteNoop, watchdogVars
<1>5. issue \in [Issues -> IssueType] /\ hint \in Issues \cup {0} /\ RoadmapShapes
  BY DEF RoadmapInv, RoadmapShapes
<1>6. issue' \in [Issues -> IssueType]
  <2>1. \A e \in IssueType : [e EXCEPT !.state = "closed"] \in IssueType
    BY DEF IssueType
  <2>2. \A n \in Issues : [issue EXCEPT ![n].state = "closed"] \in [Issues -> IssueType]
    BY <1>5, <2>1
  <2>3. \A n : n \notin Issues => [issue EXCEPT ![n].state = "closed"] = issue
    BY <1>5
  <2>4. issue' = issue \/ \E n : issue' = [issue EXCEPT ![n].state = "closed"]
    BY DEF Complete, CompleteNoop
  <2> QED BY <1>5, <2>2, <2>3, <2>4
<1>7. hint' \in Issues \cup {0}
  BY <1>5 DEF Complete, CompleteNoop
<1>8. x.worker # "working" /\ x.worker \notin {"creating", "queueing"}
  BY <1>3
<1>9. watchdog.last = r => StaysWatched(run[r], x) /\ BlockCounted(run[r], x, watchdog.on)
  BY Zenon, <1>2, <1>3 DEF StaysWatched, BlockCounted
<1>10. Set(r, x)
  BY <1>1 DEF x
<1>11. /\ failed' \in [Issues -> FailedType]
       /\ \A i \in Issues : failed'[i].n >= failed[i].n /\ (failed[i].ceiling => failed'[i].ceiling)
  BY <1>4, <1>5, SameFailures
<1> QED
  BY <1>3, <1>4, <1>6, <1>7, <1>8, <1>9, <1>10, <1>11, SetKeeps

\* As long as it works, the run that the watchdog remembers is on its issue.
LEMMA WatchedIssue ==
  ASSUME RoadmapInv, NEW r \in Slots, watchdog.last = r, run[r].worker # "over"
  PROVE  watchdog.on \in Issues /\ watchdog.on = run[r].on
<1>1. watchdog.last # 0
  BY RoadmapNumbers
<1> QED BY Zenon, <1>1 DEF RoadmapInv, WatchedInv

\* A run that fails, or is blocked as too large, counts once, for its issue.
LEMMA FailKeeps == ASSUME RoadmapInv, NEW r \in Slots, Fail(r) \/ Decompose(r) PROVE RoadmapInv'
<1>1. /\ Working(r) /\ UNCHANGED <<issue, watchdog, failures, skipped, skippedFile, hint>>
      /\ run[r].worker # "over" /\ ~run[r].ceiling /\ run[r] \in RunType
  <2>1. Working(r) /\ UNCHANGED <<issue, watchdog, failures, skipped, skippedFile, hint>> /\ run[r] \in RunType
    BY DEF Fail, Decompose, RoadmapInv, RoadmapShapes
  <2>2. run[r].worker # "over"
    BY <2>1 DEF Working
  <2> QED BY Zenon, <2>1, <2>2 DEF RoadmapInv, WorkersInv
<1>2. issue' \in [Issues -> IssueType] /\ hint' \in Issues \cup {0} /\ RoadmapShapes
  BY <1>1 DEF RoadmapInv, RoadmapShapes
<1>3. ASSUME NEW c \in BOOLEAN, NEW x \in RunType, CountFailure(r, c), Set(r, x), x.ceiling => c,
             x.worker = "over" \/ (x.worker = "creating" /\ x.status = "blocked" /\ x.on = run[r].on /\ ~x.ceiling)
      PROVE  RoadmapInv'
  <2>1. /\ failed' \in [Issues -> FailedType]
        /\ \A i \in Issues : failed'[i].n >= failed[i].n /\ (failed[i].ceiling => failed'[i].ceiling)
        /\ \A i \in Issues : i = run[r].on =>
              /\ failed'[i].n > failed[i].n \/ failed'[i].n = MaxFailures
              /\ c => failed'[i].ceiling
    BY <1>2, <1>3, FailureCounted
  <2>2. ASSUME watchdog.last = r PROVE StaysWatched(run[r], x) /\ BlockCounted(run[r], x, watchdog.on)
    <3>1. watchdog.on \in Issues /\ watchdog.on = run[r].on
      BY <1>1, <2>2, WatchedIssue
    <3> QED BY Zenon, <1>1, <1>3, <2>1, <3>1 DEF StaysWatched, BlockCounted
  <2>3. /\ x.worker # "working"
        /\ x.worker \in {"creating", "queueing"} => x.status = "blocked"
    BY <1>3
  <2>4. x.worker # "over" => ~x.ceiling
    BY Zenon, <1>3
  <2> QED
    BY <1>1, <1>2, <1>3, <2>1, <2>2, <2>3, <2>4, SetKeeps
<1>4. CASE Fail(r)
  <2>1. PICK c \in BOOLEAN : Set(r, Over(r, Outcome(r, "blocked"), c, FALSE)) /\ CountFailure(r, c)
    BY <1>4 DEF Fail
  <2>2. Outcome(r, "blocked") \in RunStatuses
    BY DEF Outcome, RunStatuses
  <2>3. /\ Over(r, Outcome(r, "blocked"), c, FALSE) \in RunType
        /\ Over(r, Outcome(r, "blocked"), c, FALSE).worker = "over"
        /\ Over(r, Outcome(r, "blocked"), c, FALSE).ceiling => c
    BY <2>2, OverFacts
  <2> QED BY <1>3, <2>1, <2>3
<1>5. CASE Decompose(r)
  <2> DEFINE x == [run[r] EXCEPT !.status = "blocked", !.worker = "creating"]
             y == Over(r, "blocked", FALSE, FALSE)
  <2>1. x \in RunType /\ x.worker = "creating" /\ x.status = "blocked" /\ x.on = run[r].on
    BY <1>1 DEF RunType, RunStatuses, Workers
  <2>2. x.ceiling = run[r].ceiling
    BY <1>1 DEF RunType
  <2>3. ~x.ceiling
    BY Zenon, <1>1, <2>2
  <2>4. y \in RunType /\ y.worker = "over" /\ ~y.ceiling
    BY OverFacts DEF RunStatuses
  <2>5. CountFailure(r, FALSE) /\ (Set(r, x) \/ Set(r, y))
    BY <1>5 DEF Decompose
  <2> HIDE DEF x, y
  <2> QED BY <1>3, <2>1, <2>3, <2>4, <2>5
<1> QED BY <1>4, <1>5

\* A worker that decomposes leaves its run blocked.
LEMMA CreateKeeps == ASSUME RoadmapInv, NEW r \in Slots, CreateSubissues(r) PROVE RoadmapInv'
<1>1. /\ run[r].worker = "creating" /\ run[r] \in RunType
      /\ UNCHANGED <<watchdog, failures, skipped, skippedFile, failed, hint>>
  BY DEF CreateSubissues, watchdogVars, RoadmapInv, RoadmapShapes
<1>2. run[r].worker # "over" /\ run[r].worker \in {"creating", "queueing"}
  BY <1>1
<1>3. run[r].status = "blocked" /\ ~run[r].ceiling
  BY Zenon, <1>2 DEF RoadmapInv, WorkersInv
<1>4. issue \in [Issues -> IssueType] /\ hint' \in Issues \cup {0} /\ RoadmapShapes
  BY <1>1 DEF RoadmapInv, RoadmapShapes
<1>5. issue' \in [Issues -> IssueType]
  <2>1. [state |-> "open", leaf |-> TRUE] \in IssueType
    BY DEF IssueType
  <2>2. \A i \in Issues : [issue EXCEPT ![i] = [state |-> "open", leaf |-> TRUE]] \in [Issues -> IssueType]
    BY <1>4, <2>1
  <2> QED BY <1>4, <2>2 DEF CreateSubissues
<1>6. /\ failed' \in [Issues -> FailedType]
      /\ \A i \in Issues : failed'[i].n >= failed[i].n /\ (failed[i].ceiling => failed'[i].ceiling)
  BY <1>1, <1>4, SameFailures
<1>7. ASSUME NEW x \in RunType, Set(r, x), x.worker \in {"over", "queueing"}, x.worker # "over" => x.on = run[r].on,
             x.worker # "over" => x.status = "blocked", ~x.ceiling
      PROVE  RoadmapInv'
  <2>1. StaysWatched(run[r], x) /\ BlockCounted(run[r], x, watchdog.on)
    BY Zenon, <1>2, <1>3, <1>7 DEF StaysWatched, BlockCounted
  <2>2. x.worker # "working" /\ (x.worker \in {"creating", "queueing"} => x.status = "blocked")
    BY <1>7
  <2> QED
    BY <1>1, <1>4, <1>5, <1>6, <1>7, <2>1, <2>2, SetKeeps
<1>8. CASE Set(r, Over(r, "blocked", FALSE, FALSE))
  <2> DEFINE y == Over(r, "blocked", FALSE, FALSE)
  <2>1. y \in RunType /\ y.worker = "over" /\ ~y.ceiling
    BY OverFacts DEF RunStatuses
  <2> HIDE DEF y
  <2>2. Set(r, y)
    BY <1>8 DEF y
  <2> QED BY <1>7, <2>1, <2>2
<1>9. ASSUME NEW i \in Issues, Set(r, [run[r] EXCEPT !.sub = i, !.worker = "queueing"]) PROVE RoadmapInv'
  <2> DEFINE x == [run[r] EXCEPT !.sub = i, !.worker = "queueing"]
  <2>1. x \in RunType /\ x.worker = "queueing" /\ x.status = run[r].status /\ x.on = run[r].on
    BY <1>1 DEF RunType, Workers
  <2>2. x.ceiling = run[r].ceiling
    BY <1>1 DEF RunType
  <2> HIDE DEF x
  <2>3. Set(r, x) /\ ~x.ceiling
    BY Zenon, <1>3, <1>9, <2>2 DEF x
  <2> QED BY <1>3, <1>7, <2>1, <2>3
<1> QED BY <1>8, <1>9 DEF CreateSubissues

\* The child of a run: one level deeper, with the rights of its parent.
LEMMA ChildFacts ==
  ASSUME NEW e \in RunType, NEW m \in {0, e.named}
  PROVE  LET x == NewRun(e.sub, m, e.depth + 1, e.autosub) IN
         x \in RunType /\ x.worker = "working" /\ x.status = "running" /\ ~x.ceiling
<1>1. e.sub \in Issues \cup {0} /\ m \in Issues \cup {0} /\ e.depth \in Nat /\ e.autosub \in BOOLEAN
  BY DEF RunType
<1> DEFINE i == e.sub
           d == e.depth + 1
           a == e.autosub
<1>2. i \in Issues \cup {0} /\ d \in Nat /\ a \in BOOLEAN
  BY <1>1
<1> HIDE DEF i, d, a
<1>3. /\ NewRun(i, m, d, a) \in RunType /\ NewRun(i, m, d, a).worker = "working"
      /\ NewRun(i, m, d, a).status = "running" /\ ~NewRun(i, m, d, a).ceiling
  BY <1>1, <1>2, NewRunFacts
<1> QED BY <1>3 DEF i, d, a

\* A child takes a free slot, which is not the watchdog's.
LEMMA ChildKeeps == ASSUME RoadmapInv, NEW r \in Slots, StartChild(r) PROVE RoadmapInv'
<1>1. /\ run[r].worker = "queueing" /\ run[r] \in RunType
      /\ UNCHANGED <<issue, watchdog, failures, skipped, skippedFile, failed, hint>>
  BY DEF StartChild, watchdogVars, RoadmapInv, RoadmapShapes
<1>2. run[r].worker # "over" /\ run[r].worker \in {"creating", "queueing"}
  BY <1>1
<1>3. run[r].status = "blocked" /\ ~run[r].ceiling
  BY Zenon, <1>2 DEF RoadmapInv, WorkersInv
<1>4. /\ issue' \in [Issues -> IssueType] /\ hint' \in Issues \cup {0} /\ RoadmapShapes
      /\ run \in [Slots -> RunType] /\ watchdog.last \in Slots \cup {0} /\ WorkersInv
  BY <1>1 DEF RoadmapInv, RoadmapShapes, WatchdogType
<1>5. /\ failed' \in [Issues -> FailedType]
      /\ \A i \in Issues : failed'[i].n >= failed[i].n /\ (failed[i].ceiling => failed'[i].ceiling)
  BY <1>1, <1>4, SameFailures
<1>6. CASE Set(r, Over(r, "blocked", FALSE, FALSE))
  <2> DEFINE y == Over(r, "blocked", FALSE, FALSE)
  <2>1. y \in RunType /\ y.worker = "over" /\ ~y.ceiling
    BY OverFacts DEF RunStatuses
  <2> HIDE DEF y
  <2>2. Set(r, y)
    BY <1>6 DEF y
  <2>3. StaysWatched(run[r], y) /\ BlockCounted(run[r], y, watchdog.on)
    BY Zenon, <1>3, <2>1 DEF StaysWatched, BlockCounted
  <2>4. y.worker # "working" /\ y.worker \notin {"creating", "queueing"}
    BY <2>1
  <2> QED
    BY <1>1, <1>4, <1>5, <2>1, <2>2, <2>3, <2>4, SetKeeps
<1>7. ASSUME Free # {}, NEW m \in {0, run[r].named},
             run' = [run EXCEPT ![r] = Over(r, "blocked", FALSE, TRUE), ![Slot] = ChildOf(r, m)]
      PROVE  RoadmapInv'
  <2> DEFINE y == Over(r, "blocked", FALSE, TRUE)
             x == ChildOf(r, m)
             q == Slot
  <2>1. y \in RunType /\ y.worker = "over" /\ ~y.ceiling
    BY OverFacts DEF RunStatuses
  <2>2. x \in RunType /\ x.worker = "working" /\ x.status = "running" /\ ~x.ceiling
    BY <1>1, <1>7, ChildFacts DEF ChildOf
  <2>3. q \in Slots /\ run[q].worker = "over" /\ watchdog.last # q
    BY <1>7, SlotIsFree
  <2>4. q # r
    BY <1>2, <2>3
  <2> HIDE DEF x, y, q
  <2>5. run' = [run EXCEPT ![r] = y, ![q] = x]
    BY <1>7 DEF x, y, q
  <2>6. run' \in [Slots -> RunType]
    BY <1>4, <2>1, <2>2, <2>3, <2>5
  <2>7. run'[r] = y /\ run'[q] = x /\ \A s \in Slots : s # r /\ s # q => run'[s] = run[s]
    BY <1>4, <2>3, <2>4, <2>5
  <2>8. WorkersInv'
    <3> SUFFICES ASSUME NEW s \in Slots
                 PROVE  /\ run'[s].worker = "working" => run'[s].status \in {"running", "cancelling"}
                        /\ run'[s].worker \in {"creating", "queueing"} => run'[s].status = "blocked"
                        /\ run'[s].worker # "over" => ~run'[s].ceiling
      BY Zenon DEF WorkersInv
    <3>1. CASE s = r
      <4>1. run'[s].worker = "over" /\ "over" # "working" /\ "over" \notin {"creating", "queueing"}
        BY <2>1, <2>7, <3>1
      <4> QED BY Zenon, <4>1
    <3>2. CASE s = q
      <4>1. /\ run'[s] = x /\ x.status \in {"running", "cancelling"} /\ x.worker \notin {"creating", "queueing"}
        BY <2>2, <2>7, <3>2
      <4> QED BY Zenon, <2>2, <4>1
    <3>3. CASE s # r /\ s # q
      BY Zenon, <1>4, <2>7, <3>3 DEF WorkersInv
    <3> QED BY <3>1, <3>2, <3>3
  <2>9. ASSUME watchdog.last # 0
        PROVE  /\ StaysWatched(run[watchdog.last], run'[watchdog.last])
               /\ BlockCounted(run[watchdog.last], run'[watchdog.last], watchdog.on)
    <3>1. CASE watchdog.last = r
      BY Zenon, <1>3, <2>1, <2>7, <3>1 DEF StaysWatched, BlockCounted
    <3>2. CASE watchdog.last # r
      <4>1. run'[watchdog.last] = run[watchdog.last]
        BY <1>4, <2>3, <2>7, <2>9, <3>2
      <4> QED BY Zenon, <4>1 DEF StaysWatched, BlockCounted
    <3> QED BY <3>1, <3>2
  <2> QED
    BY <1>1, <1>4, <1>5, <2>6, <2>8, <2>9, WorkKeeps
<1> QED BY <1>6, <1>7 DEF StartChild

\* The API takes a free slot, or marks a run.
LEMMA ApiKeeps == ASSUME RoadmapInv, ApiStart \/ \E r \in Slots : ApiCancel(r) PROVE RoadmapInv'
<1>1. UNCHANGED <<issue, watchdog, failures, skipped, skippedFile, failed, hint>>
  BY DEF ApiStart, ApiCancel, watchdogVars
<1>2. issue' \in [Issues -> IssueType] /\ hint' \in Issues \cup {0} /\ RoadmapShapes /\ run \in [Slots -> RunType]
  BY <1>1 DEF RoadmapInv, RoadmapShapes
<1>3. /\ failed' \in [Issues -> FailedType]
      /\ \A i \in Issues : failed'[i].n >= failed[i].n /\ (failed[i].ceiling => failed'[i].ceiling)
  BY <1>1, <1>2, SameFailures
<1>4. CASE ApiStart
  <2>1. PICK i \in Issues, a \in BOOLEAN : Set(Slot, NewRun(i, i, 0, a))
    BY <1>4 DEF ApiStart
  <2> DEFINE x == NewRun(i, i, 0, a)
             q == Slot
  <2>2. x \in RunType /\ x.worker = "working" /\ x.status = "running" /\ ~x.ceiling
    BY NewRunFacts
  <2>3. q \in Slots /\ watchdog.last # q
    BY <1>4, SlotIsFree DEF ApiStart
  <2> HIDE DEF x, q
  <2>4. Set(q, x)
    BY <2>1 DEF x, q
  <2>5. x.status \in {"running", "cancelling"} /\ x.worker \notin {"creating", "queueing"}
    BY <2>2
  <2> QED
    BY <1>1, <1>2, <1>3, <2>2, <2>3, <2>4, <2>5, SetKeeps
<1>5. ASSUME NEW r \in Slots, ApiCancel(r) PROVE RoadmapInv'
  <2> DEFINE x == [run[r] EXCEPT !.status = "cancelling"]
  <2>1. x \in RunType /\ x.worker = run[r].worker /\ x.status = "cancelling" /\ x.on = run[r].on
    BY <1>2 DEF RunType, RunStatuses
  <2>2. x.ceiling = run[r].ceiling
    BY <1>2 DEF RunType
  <2> HIDE DEF x
  <2>3. Set(r, x) /\ run[r].status = "running"
    BY <1>5 DEF ApiCancel, x
  <2>4. run[r].status # "blocked" /\ x.status # "blocked" /\ x.status \in {"running", "cancelling"}
    BY <2>1, <2>3
  <2>5. x.worker \notin {"creating", "queueing"}
    BY Zenon, <2>1, <2>4 DEF RoadmapInv, WorkersInv
  <2>6. x.worker # "over" => ~x.ceiling
    BY Zenon, <2>1, <2>2 DEF RoadmapInv, WorkersInv
  <2>7. StaysWatched(run[r], x) /\ BlockCounted(run[r], x, watchdog.on)
    BY Zenon, <2>1, <2>4 DEF StaysWatched, BlockCounted
  <2> QED
    BY <1>1, <1>2, <1>3, <2>1, <2>3, <2>4, <2>5, <2>6, <2>7, SetKeeps
<1> QED BY <1>4, <1>5

\* Looking at a run counts nothing.
LEMMA PollKeeps == ASSUME RoadmapInv, Poll \/ Recheck PROVE RoadmapInv'
<1>1. /\ UNCHANGED <<issue, run, failures, skipped, skippedFile, hint, failed>> /\ watchdog \in WatchdogType
  BY DEF Poll, Recheck, RoadmapInv, RoadmapShapes
<1>2. PICK there \in {"launch", "recheck", "account", "poll"} :
        /\ watchdog' = [watchdog EXCEPT !.at = there]
        /\ there = "launch" => watchdog.last = 0
        /\ there \in {"recheck", "account"} => watchdog.last # 0
  <2>1. CASE Poll
    BY <2>1 DEF Poll, WatchdogTo
  <2>2. CASE Recheck
    <3>1. watchdog.last # 0
      BY <2>2 DEF Recheck, WatchdogAt, RoadmapInv, WatchedInv
    <3> QED BY <2>2, <3>1 DEF Recheck, WatchdogTo
  <2> QED BY <2>1, <2>2
<1>3. /\ watchdog' \in WatchdogType /\ watchdog'.last = watchdog.last /\ watchdog'.on = watchdog.on
      /\ watchdog'.at = there
  BY <1>1, <1>2 DEF WatchdogType
<1>4. RoadmapShapes'
  BY Zenon, <1>1, <1>3 DEF RoadmapInv, RoadmapShapes
<1>5. WorkersInv' /\ CountedInv' /\ SkipEarned'
  BY Zenon, <1>1, <1>3 DEF RoadmapInv, WorkersInv, CountedInv, Uncounted, SkipEarned
<1>6. WatchedInv'
  BY Zenon, <1>1, <1>2, <1>3 DEF RoadmapInv, WatchedInv
<1> QED
  BY <1>4, <1>5, <1>6 DEF RoadmapInv

\* The blocked run is counted once, for its issue, and forgotten; the issue is
\* given up when that many runs have failed.
LEMMA AccountKeeps == ASSUME RoadmapInv, Account PROVE RoadmapInv'
<1> DEFINE l == watchdog.last
           i == watchdog.on
           more == [failures EXCEPT ![i] = IF @ < MaxFailures THEN @ + 1 ELSE @]
           threshold == IF run[l].ceiling THEN CeilingSkipAfter ELSE MaxFailures
<1>1. /\ UNCHANGED <<issue, hint, failed>> /\ watchdog' = [at |-> "launch", last |-> 0, on |-> 0]
      /\ run' = [run EXCEPT ![l] = IF @.worker = "over" /\ watchdog'.last = 0 THEN NoRun ELSE @]
  BY DEF Account, Forgotten
<1>2. watchdog' \in WatchdogType /\ watchdog'.last = 0 /\ watchdog'.at = "launch"
  BY <1>1 DEF WatchdogType
<1>3. l \in Slots /\ i \in Issues
  <2>1. watchdog.at = "account"
    BY DEF Account, WatchdogAt
  <2>2. l # 0
    BY <2>1 DEF RoadmapInv, WatchedInv
  <2>3. l \in Slots \cup {0} /\ i \in Issues
    BY <2>2 DEF RoadmapInv, WatchedInv, RoadmapShapes, WatchdogType
  <2> QED BY <2>2, <2>3
<1>4. /\ run \in [Slots -> RunType] /\ failures \in [Issues -> 0 .. MaxFailures] /\ failed \in [Issues -> FailedType]
      /\ skipped \subseteq Issues /\ skippedFile \subseteq skipped
      /\ \A j \in Issues : failed[j].n \in 0 .. MaxFailures
  BY DEF RoadmapInv, RoadmapShapes, FailedType
<1>5. ASSUME run[l].status = "blocked"
      PROVE  /\ failures' \in [Issues -> 0 .. MaxFailures] /\ \A j \in Issues : failures'[j] <= failed'[j].n
             /\ skipped' \subseteq Issues /\ skippedFile' \subseteq skipped' /\ SkipEarned'
  <2>1. failures' = more /\ skippedFile' \subseteq skipped'
        /\ skipped' \in {skipped, skipped \cup {i}} /\ (skipped' # skipped => failures[i] + 1 >= threshold)
    BY <1>4, <1>5 DEF Account, GiveUp, SkipSaved
  <2>2. failures[i] <= failed[i].n /\ Uncounted(i)
    BY <1>3, <1>5, RoadmapNumbers DEF RoadmapInv, CountedInv, Uncounted
  <2>3. /\ failures[i] < failed[i].n \/ failed[i].n = MaxFailures
        /\ run[l].ceiling => failed[i].ceiling
    BY Zenon, <1>3, <2>2 DEF RoadmapInv, CountedInv
  <2>4. /\ more \in [Issues -> 0 .. MaxFailures] /\ \A j \in Issues : more[j] <= failed[j].n
    <3>1. \A j \in Issues : failures[j] <= failed[j].n /\ failures[j] \in 0 .. MaxFailures
      BY <1>4 DEF RoadmapInv, CountedInv
    <3>2. \A j \in Issues : more[j] = IF j = i /\ failures[j] < MaxFailures THEN failures[j] + 1 ELSE failures[j]
      BY <1>4
    <3>3. DOMAIN more = Issues /\ more = [j \in Issues |-> more[j]]
      BY <1>4
    <3> HIDE DEF more
    <3>4. \A j \in Issues : more[j] \in 0 .. MaxFailures /\ more[j] <= failed[j].n
      BY <1>4, <2>3, <3>1, <3>2, RoadmapNumbers
    <3> QED BY <3>3, <3>4
  <2>5. ASSUME failures[i] + 1 >= threshold
        PROVE  failed[i].n >= MaxFailures \/ (failed[i].ceiling /\ failed[i].n >= CeilingSkipAfter)
    <3>1. failed[i].n \in Nat /\ failures[i] \in Nat
      BY <1>3, <1>4
    <3>2. CASE run[l].ceiling
      <4>1. failures[i] + 1 >= CeilingSkipAfter
        BY <2>5, <3>2
      <4>2. failed[i].n >= CeilingSkipAfter
        BY <2>3, <3>1, <4>1, RoadmapNumbers
      <4> QED BY Zenon, <2>3, <3>2, <4>2
    <3>3. CASE ~run[l].ceiling
      <4>1. failures[i] + 1 >= MaxFailures
        BY <2>5, <3>3
      <4>2. failed[i].n >= MaxFailures
        BY <2>3, <3>1, <4>1, RoadmapNumbers
      <4> QED BY Zenon, <4>2
    <3> QED BY <3>2, <3>3
  <2> HIDE DEF more, threshold
  <2>6. /\ failures' \in [Issues -> 0 .. MaxFailures] /\ \A j \in Issues : failures'[j] <= failed'[j].n
        /\ skipped' \subseteq Issues /\ skippedFile' \subseteq skipped'
    BY <1>1, <1>3, <1>4, <2>1, <2>4
  <2>7. SkipEarned'
    BY Zenon, <1>1, <2>1, <2>5 DEF RoadmapInv, SkipEarned
  <2> QED BY <2>6, <2>7
<1>6. ASSUME run[l].status # "blocked"
      PROVE  /\ failures' \in [Issues -> 0 .. MaxFailures] /\ \A j \in Issues : failures'[j] <= failed'[j].n
             /\ skipped' \subseteq Issues /\ skippedFile' \subseteq skipped' /\ SkipEarned'
  <2>1. UNCHANGED <<failures, skipped, skippedFile>>
    BY <1>6 DEF Account
  <2>2. \A j \in Issues : failures'[j] <= failed'[j].n
    BY Zenon, <1>1, <2>1 DEF RoadmapInv, CountedInv
  <2>3. SkipEarned'
    BY Zenon, <1>1, <2>1 DEF RoadmapInv, SkipEarned
  <2> QED BY <1>4, <2>1, <2>2, <2>3
<1>7. /\ failures' \in [Issues -> 0 .. MaxFailures] /\ \A j \in Issues : failures'[j] <= failed'[j].n
      /\ skipped' \subseteq Issues /\ skippedFile' \subseteq skipped' /\ SkipEarned'
  BY <1>5, <1>6
<1> HIDE DEF l, i, more, threshold
<1>8. run' \in [Slots -> RunType] /\ \A r \in Slots : run'[r] \in {run[r], NoRun}
  BY <1>1, <1>4, NoRunFacts
<1>9. RoadmapShapes'
  BY Zenon, <1>1, <1>2, <1>7, <1>8 DEF RoadmapInv, RoadmapShapes
<1>10. WorkersInv'
  <2>1. "over" # "working" /\ "over" \notin {"creating", "queueing"}
    OBVIOUS
  <2>2. \A r \in Slots : run'[r] = run[r] \/ run'[r].worker = "over"
    BY <1>8, NoRunFacts
  <2> QED BY Zenon, <2>1, <2>2 DEF RoadmapInv, WorkersInv
<1>11. WatchedInv'
  BY <1>2 DEF WatchedInv
<1>12. CountedInv'
  BY Zenon, <1>2, <1>7 DEF CountedInv, Uncounted
<1> QED
  BY <1>7, <1>9, <1>10, <1>11, <1>12 DEF RoadmapInv

\* The watchdog takes a free slot for an issue that it may work on, and
\* remembers both.
LEMMA LaunchKeeps == ASSUME RoadmapInv, Launch PROVE RoadmapInv'
<1>1. /\ UNCHANGED <<issue, failures, skipped, skippedFile, failed>> /\ hint' = 0 /\ watchdog.at = "launch" /\ Free # {}
  BY DEF Launch, WatchdogAt
<1>2. watchdog.last = 0 /\ watchdog \in WatchdogType /\ run \in [Slots -> RunType]
  BY <1>1 DEF RoadmapInv, WatchedInv, RoadmapShapes
<1>3. SkipEarned' /\ \A j \in Issues : failures'[j] <= failed'[j].n
  BY Zenon, <1>1 DEF RoadmapInv, SkipEarned, CountedInv
<1>4. CASE UNCHANGED run /\ WatchdogTo("poll")
  <2>1. watchdog' \in WatchdogType /\ watchdog'.last = 0 /\ watchdog'.at = "poll"
    BY <1>2, <1>4 DEF WatchdogTo, WatchdogType
  <2>2. RoadmapShapes'
    BY <1>1, <1>4, <2>1 DEF RoadmapInv, RoadmapShapes
  <2>3. WorkersInv'
    BY Zenon, <1>4 DEF RoadmapInv, WorkersInv
  <2>4. WatchedInv'
    BY <2>1 DEF WatchedInv
  <2>5. CountedInv'
    BY Zenon, <1>3, <2>1 DEF CountedInv, Uncounted
  <2> QED BY <1>3, <2>2, <2>3, <2>4, <2>5 DEF RoadmapInv
<1>5. ASSUME Hinted \/ Pickable # {}, NEW a \in BOOLEAN, Set(Slot, NewRun(NextIssue, NextIssue, 1, a)),
             watchdog' = [at |-> "poll", last |-> Slot, on |-> NextIssue]
      PROVE  RoadmapInv'
  <2> DEFINE i == NextIssue
             q == Slot
             x == NewRun(i, i, 1, a)
  <2>1. i \in Issues
    <3>1. CASE Hinted
      BY <3>1 DEF Hinted, NextIssue, RoadmapInv, RoadmapShapes
    <3>2. CASE ~Hinted
      <4>1. Pickable # {} /\ Pickable \subseteq Nat /\ Pickable \subseteq Issues
        BY <1>5, <3>2, RoadmapNumbers DEF Pickable
      <4> QED BY <3>2, <4>1, Smallest DEF NextIssue
    <3> QED BY <3>1, <3>2
  <2>2. q \in Slots
    BY <1>1, SlotIsFree
  <2>3. x \in RunType /\ x.worker = "working" /\ x.status = "running" /\ x.on = i /\ ~x.ceiling
    BY <2>1, NewRunFacts
  <2> HIDE DEF i, q, x
  <2>4. run' = [run EXCEPT ![q] = x] /\ watchdog' = [at |-> "poll", last |-> q, on |-> i]
    BY <1>5 DEF Set, i, q, x
  <2>5. run' \in [Slots -> RunType] /\ run'[q] = x /\ \A s \in Slots : s # q => run'[s] = run[s]
    BY <1>2, <2>2, <2>3, <2>4
  <2>6. watchdog' \in WatchdogType /\ watchdog'.at = "poll" /\ watchdog'.last = q /\ watchdog'.on = i
    BY <2>1, <2>2, <2>4 DEF WatchdogType
  <2>7. RoadmapShapes'
    BY <1>1, <2>5, <2>6 DEF RoadmapInv, RoadmapShapes
  <2>8. WorkersInv'
    <3>1. x.status \in {"running", "cancelling"} /\ x.worker \notin {"creating", "queueing"}
      BY <2>3
    <3> QED BY Zenon, <2>3, <2>5, <3>1 DEF RoadmapInv, WorkersInv
  <2>9. WatchedInv'
    BY <2>1, <2>3, <2>5, <2>6 DEF WatchedInv
  <2>10. CountedInv'
    <3>1. run'[watchdog'.last].status # "blocked"
      BY <2>3, <2>5, <2>6
    <3> QED BY Zenon, <1>3, <3>1 DEF CountedInv, Uncounted
  <2> QED BY <1>3, <2>7, <2>8, <2>9, <2>10 DEF RoadmapInv
<1>6. (Hinted \/ ~issue[NextIssue].leaf) \in BOOLEAN
  BY Zenon
<1>7. CASE Hinted \/ Pickable # {}
  <2> DEFINE a == Hinted \/ ~issue[NextIssue].leaf
  <2>1. /\ Set(Slot, NewRun(NextIssue, NextIssue, 1, a))
        /\ watchdog' = [at |-> "poll", last |-> Slot, on |-> NextIssue]
    BY Zenon, <1>7 DEF Launch
  <2>2. a \in BOOLEAN
    BY <1>6
  <2> HIDE DEF a
  <2> QED BY Zenon, <1>5, <1>7, <2>1, <2>2
<1>8. CASE ~(Hinted \/ Pickable # {})
  BY Zenon, <1>4, <1>8 DEF Launch
<1> QED
  BY <1>7, <1>8

\* The counters start again, and the list of skipped issues is read from its file.
LEMMA RestartKeeps == ASSUME RoadmapInv, Restart PROVE RoadmapInv'
<1>1. /\ UNCHANGED <<issue, skippedFile, hint, failed>> /\ skipped' = skippedFile
      /\ run' = [r \in Slots |-> NoRun] /\ failures' = [i \in Issues |-> 0]
      /\ watchdog' = [at |-> "poll", last |-> 0, on |-> 0]
  BY DEF Restart
<1>2. watchdog' \in WatchdogType /\ watchdog'.at = "poll" /\ watchdog'.last = 0
  BY <1>1 DEF WatchdogType
<1>3. run' \in [Slots -> RunType] /\ \A r \in Slots : run'[r].worker = "over"
  BY <1>1, NoRunFacts
<1>4. failures' \in [Issues -> 0 .. MaxFailures] /\ \A i \in Issues : failures'[i] <= failed'[i].n
  <2>1. \A i \in Issues : failed[i].n \in 0 .. MaxFailures
    BY DEF RoadmapInv, RoadmapShapes, FailedType
  <2> QED BY <1>1, <2>1, RoadmapNumbers
<1>5. RoadmapShapes'
  BY <1>1, <1>2, <1>3, <1>4 DEF RoadmapInv, RoadmapShapes
<1>6. WorkersInv'
  BY <1>3 DEF WorkersInv
<1>7. WatchedInv'
  BY <1>2 DEF WatchedInv
<1>8. CountedInv'
  BY Zenon, <1>2, <1>4 DEF CountedInv, Uncounted
<1>9. SkipEarned'
  BY Zenon, <1>1 DEF RoadmapInv, RoadmapShapes, SkipEarned
<1> QED
  BY <1>5, <1>6, <1>7, <1>8, <1>9 DEF RoadmapInv

\* Every step keeps the invariant.
LEMMA RoadmapInvStep == RoadmapInv /\ [RoadmapNext]_roadmapVars => RoadmapInv'
<1> SUFFICES ASSUME RoadmapInv, [RoadmapNext]_roadmapVars PROVE RoadmapInv'
  OBVIOUS
<1>1. CASE WatchdogStep
  BY <1>1, PollKeeps, AccountKeeps, LaunchKeeps DEF WatchdogStep
<1>2. CASE \E r \in Slots : WorkerStep(r)
  BY <1>2, CompleteKeeps, FailKeeps, CreateKeeps, ChildKeeps DEF WorkerStep
<1>3. CASE ApiStart \/ \E r \in Slots : ApiCancel(r)
  BY <1>3, ApiKeeps
<1>4. CASE Restart
  BY <1>4, RestartKeeps
<1>5. CASE UNCHANGED roadmapVars
  BY Zenon, <1>5 DEF roadmapVars, RoadmapInv, RoadmapShapes, WorkersInv, WatchedInv, CountedInv, Uncounted, SkipEarned
<1> QED
  BY <1>1, <1>2, <1>3, <1>4, <1>5 DEF RoadmapNext

\* The watchdog gives an issue up only when that many different runs of it have
\* failed, or one has met the ceiling: no run is counted twice, whatever the
\* children of a run, the API and restarts do in between.
THEOREM GivenUpIsEarned == RoadmapSpec => []SkipEarned
<1>1. RoadmapInv => SkipEarned
  BY DEF RoadmapInv
<1> QED
  BY <1>1, RoadmapInvInit, RoadmapInvStep, PTL DEF RoadmapSpec

\* The state of the watchdog, the runs and the issues stays in its sets.
LEMMA RoadmapTypes == RoadmapInv => RoadmapTypeOK
<1> SUFFICES ASSUME RoadmapInv PROVE RoadmapTypeOK
  OBVIOUS
<1>1. \A i \in Issues : issue[i].state \in {"unused", "open", "closed"}
  BY DEF RoadmapInv, RoadmapShapes, IssueType
<1>2. \A r \in Slots : /\ run[r].status \in RunStatuses /\ run[r].worker \in Workers
                       /\ run[r].on \in Issues \cup {0} /\ run[r].sub \in Issues \cup {0}
  BY DEF RoadmapInv, RoadmapShapes, RunType
<1>3. watchdog.at \in {"poll", "recheck", "account", "launch"} /\ watchdog.last \in Slots \cup {0}
  BY DEF RoadmapInv, RoadmapShapes, WatchdogType
<1>4. hint \in Issues \cup {0} /\ skipped \cup skippedFile \subseteq Issues
  BY DEF RoadmapInv, RoadmapShapes
<1> QED
  BY <1>1, <1>2, <1>3, <1>4 DEF RoadmapTypeOK, RunStatuses, Workers
=============================================================================
