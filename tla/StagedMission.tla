---------------------------- MODULE StagedMission ----------------------------
(***************************************************************************)
(* A mission in stages (supervisor_staged_reasoning.py, with the plan and  *)
(* the scope checks of supervisor_mission_planning.py): in every attempt   *)
(* the stages of the plan are worked through in order, each by a reasoning *)
(* loop that may touch any file; a stage that succeeded is not run again   *)
(* in later attempts.  Between two attempts the repair cycle keeps the     *)
(* working tree or, when it must reject its own diff, restores it.         *)
(*                                                                         *)
(* Of an attempt only what decides about stages and files is kept; the     *)
(* rest is RankLoop's.  docs_config_update, never required, is not in Plan.*)
(***************************************************************************)
EXTENDS Naturals, Sequences

CONSTANTS Missions,          \* [required, base]: required stages; stages satisfied from the start
          ui_retry_budget,
          max_repair_cycles

ASSUME StagedConstants ==
  /\ \A m \in Missions : m.required \cup m.base \subseteq {"backend_api_change", "backend_tests", "ui_dashboard_change", "ui_dashboard_tests"}
  /\ {ui_retry_budget, max_repair_cycles} \subseteq Nat

Plan == <<"backend_api_change", "backend_tests", "ui_dashboard_change", "ui_dashboard_tests">>
Stages == {Plan[i] : i \in 1 .. Len(Plan)}
UiStage == "ui_dashboard_change"
ProjectFiles == {"server.py", "tests", "templates"}

\* allowed_file_families
Family(s) == CASE s = "backend_api_change" -> {"server.py"}
               [] s = UiStage -> {"templates"}
               [] OTHER -> {"tests"}

VARIABLES
  mission,      \* the mission that was planned
  stageStatus,  \* stage -> pending | success | skipped | failure
  edits,        \* the diff of the working tree: [by, path]
  missionAt,    \* attempt | stages | repair | completed | blocked
  stagePos,     \* position in Plan
  uiRetries,    \* ui_retry_attempt
  cycle,        \* repair cycles used
  evidence,     \* stages that were found satisfied, or wrote or tried to write
  worked        \* stages that succeeded by changing files

stagedVars == <<mission, stageStatus, edits, missionAt, stagePos, uiRetries, cycle, evidence, worked>>

StagedInit ==
  /\ mission \in Missions
  /\ stageStatus = [s \in Stages |-> "pending"] /\ edits = {}
  /\ missionAt = "attempt" /\ stagePos = 1 /\ uiRetries = 0 /\ cycle = 0
  /\ evidence = {} /\ worked = {}

Current == Plan[stagePos]
InStages == missionAt = "stages" /\ stagePos <= Len(Plan)
StageTo(there, status) ==
  /\ missionAt' = there /\ stageStatus' = [stageStatus EXCEPT ![Current] = status]
NextStage == /\ stagePos' = stagePos + 1 /\ uiRetries' = 0
StageDone(status) == StageTo("stages", status) /\ NextStage
StageFails == StageTo("repair", "failure") /\ UNCHANGED <<stagePos, uiRetries>>

BeginAttempt ==
  /\ missionAt = "attempt"
  /\ missionAt' = "stages" /\ stagePos' = 1 /\ uiRetries' = 0
  /\ UNCHANGED <<mission, stageStatus, edits, cycle, evidence, worked>>

SkipOptional ==
  /\ InStages /\ Current \notin mission.required
  /\ StageDone("skipped")
  /\ UNCHANGED <<mission, edits, cycle, evidence, worked>>

\* "Stage already validated; preserving progress across attempts."
PreserveProgress ==
  /\ InStages /\ Current \in mission.required /\ stageStatus[Current] \in {"success", "skipped"}
  /\ StageDone("success")
  /\ UNCHANGED <<mission, edits, cycle, evidence, worked>>

\* stage_is_already_satisfied looks into the files: once the family has been
\* edited, by whoever, it may say either.
Pending == InStages /\ Current \in mission.required /\ stageStatus[Current] \in {"pending", "failure"}
Touched(files) == \E e \in edits : e.path \in files
Satisfied(s, yes) ==
  IF s \in mission.base THEN yes ELSE Touched(Family(s)) \/ ~yes

AlreadySatisfied ==
  /\ Pending /\ Satisfied(Current, TRUE)
  /\ StageDone("success")
  /\ evidence' = evidence \cup {Current}
  /\ UNCHANGED <<mission, edits, cycle, worked>>

\* What the reasoning loop left behind: the files it changed, those it tried
\* to change, and how it ended.
Results == [changed : SUBSET ProjectFiles, tried : SUBSET ProjectFiles, end : {"finished", "timeout", "stopped"}]
After(changed) == edits \cup {[by |-> Current, path |-> p] : p \in changed}
HardForbidden ==
  (IF stageStatus["backend_api_change"] = "success" THEN {"server.py"} ELSE {})
    \cup (IF stageStatus["backend_tests"] = "success" THEN {"tests"} ELSE {})
Observed(r) == r.changed \cup r.tried
OutOfScope(r) == Observed(r) \ Family(Current)

\* restore_ui_stage_scope: of what the UI stage has touched, the files of its
\* own family are put back to HEAD, or git fails.
\* Mutant: everything it has touched is put back.
Restored_All(r) == {e \in After(r.changed) : e.path \notin Observed(r)}
Restored(r) == {e \in After(r.changed) : e.path \notin Observed(r) \cap Family(Current)}

\* Mutant: one retry more.
RetryLeft_OneMore == uiRetries <= ui_retry_budget
RetryLeft == uiRetries < ui_retry_budget
UiRecovery(r) ==
  /\ Current = UiStage /\ OutOfScope(r) \cap HardForbidden # {}
  /\ \/ edits' = After(r.changed) /\ StageFails
     \/ /\ edits' = Restored(r)
        /\ IF RetryLeft
             THEN uiRetries' = uiRetries + 1 /\ UNCHANGED <<missionAt, stageStatus, stagePos>>
             ELSE StageFails
  /\ UNCHANGED worked

WrongFileEdit(r) ==
  /\ OutOfScope(r) # {} /\ ~(Current = UiStage /\ OutOfScope(r) \cap HardForbidden # {})
  /\ edits' = After(r.changed) /\ StageFails /\ UNCHANGED worked

\* A required stage that has changed nothing, tried nothing and is not
\* satisfied.  Mutant: only a failed loop fails a stage.
NothingDone_Accepted(r) == FALSE
NothingDone(r) ==
  /\ r.end = "finished" /\ Observed(r) = {}
  /\ Satisfied(Current, FALSE)
\* A UI stage that timed out is accepted when there is a UI diff.
UiEvidence(r) ==
  /\ Current = UiStage /\ r.end = "timeout"
  /\ (r.changed \cup {e.path : e \in edits}) \cap Family(UiStage) # {} \/ Satisfied(Current, TRUE)

InScope(r) ==
  /\ OutOfScope(r) = {} /\ edits' = After(r.changed)
  /\ \/ NothingDone(r) /\ StageFails /\ UNCHANGED worked
     \/ ~UiEvidence(r) /\ r.end # "finished" /\ StageFails /\ UNCHANGED worked
     \/ /\ \/ r.end = "finished" /\ (Observed(r) # {} \/ ~NothingDone(r))
           \/ UiEvidence(r)
        /\ StageDone("success")
        /\ worked' = IF r.changed = {} THEN worked ELSE worked \cup {Current}

RunReasoning ==
  /\ Pending /\ Satisfied(Current, FALSE)
  /\ \E r \in Results :
       /\ r.changed = {} \/ r.tried = r.changed
       /\ UiRecovery(r) \/ WrongFileEdit(r) \/ InScope(r)
       /\ evidence' = IF Observed(r) # {} \/ Touched(Family(Current))
                        THEN evidence \cup {Current} ELSE evidence
  /\ UNCHANGED <<mission, cycle>>

-----------------------------------------------------------------------------
\* All stages done: dangerous diffs, tests and the gate on required stages.
Green == \A s \in mission.required : stageStatus[s] \in {"success", "skipped"}
Validate ==
  /\ missionAt = "stages" /\ stagePos > Len(Plan)
  /\ \/ missionAt' = "repair" /\ UNCHANGED edits                    \* tests or smoke fail
     \/ edits # {} /\ edits' = {} /\ missionAt' = "blocked"         \* destructive_diff is not repairable
     \/ /\ missionAt' = IF Green THEN "completed" ELSE "repair"     \* delivered, or a no-op if there is no diff
        /\ UNCHANGED edits
  /\ UNCHANGED <<mission, stageStatus, stagePos, uiRetries, cycle, evidence, worked>>

\* _repair_cycle with preserve_validated_progress: the diff of the repair is
\* kept, validated or not; or it is rejected and the whole tree is restored.
\* It goes on to another attempt or gives up.
AfterRepair == {edits, edits \cup {[by |-> "repair", path |-> p] : p \in ProjectFiles}, {}}
\* Mutant: the cycle is not counted.
NextCycle_Lost == cycle
NextCycle == cycle + 1
Repair ==
  /\ missionAt = "repair"
  /\ IF cycle >= max_repair_cycles
       THEN missionAt' = "blocked" /\ UNCHANGED <<edits, cycle>>
       ELSE cycle' = NextCycle /\ edits' \in AfterRepair /\ missionAt' \in {"attempt", "blocked"}
  /\ UNCHANGED <<mission, stageStatus, stagePos, uiRetries, evidence, worked>>

StagedStep ==
  BeginAttempt \/ SkipOptional \/ PreserveProgress \/ AlreadySatisfied \/ RunReasoning \/ Validate \/ Repair
StagedNext == StagedStep
\* The supervisor thread goes on; a reasoning worker is killed at its timeout.
StagedSpec == StagedInit /\ [][StagedNext]_stagedVars /\ WF_stagedVars(StagedStep)

-----------------------------------------------------------------------------
StagedTypeOK ==
  /\ mission \in Missions
  /\ stageStatus \in [Stages -> {"pending", "success", "skipped", "failure"}]
  /\ edits \subseteq [by : Stages \cup {"repair"}, path : ProjectFiles]
  /\ missionAt \in {"attempt", "stages", "repair", "completed", "blocked"}
  /\ stagePos \in 1 .. Len(Plan) + 1 /\ uiRetries \in 0 .. ui_retry_budget /\ cycle \in 0 .. max_repair_cycles

\* A required stage is never marked successful without evidence, in this or an
\* earlier attempt: its files satisfied it, or it changed or tried to change
\* some, or the UI stage timed out beside a UI diff.
SuccessHasEvidence ==
  \A s \in mission.required : stageStatus[s] = "success" => s \in evidence

\* "Do not discard validated backend/test stages on UI failure": while the
\* stages run, nothing removes an edit that a stage made and succeeded with.
ValidatedEditsKept ==
  [][missionAt = "stages" /\ missionAt' = "stages" =>
       \A e \in edits : e.by \in worked /\ e.path \in Family(e.by) /\ e.by # Current => e \in edits']_stagedVars

\* Every mission ends, however often the UI stage goes out of scope.
StagedMissionEnds == <>(missionAt \in {"completed", "blocked"})

\* "Preserve validated backend edits through later stage repairs": a completed
\* mission has in its diff what its successful stages did.
ValidatedWorkDelivered ==
  missionAt = "completed" => \A s \in worked : Touched(Family(s))
=============================================================================
