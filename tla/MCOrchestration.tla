--------------------------- MODULE MCOrchestration ---------------------------
(***************************************************************************)
(* The three ways in which work is organised around the rank loop, each    *)
(* with its own state: the roadmap of issues, a mission in stages, and the *)
(* reasoning loop inside an attempt.  A behaviour shows one of them, the   *)
(* scene; the others rest in an initial state.                             *)
(***************************************************************************)
EXTENDS Roadmap, StagedMission, AgentLoop

CONSTANT Scenes
VARIABLE scene

vars == <<scene, roadmapVars, stagedVars, loopVars>>

InRoadmap(A) == scene = "roadmap" /\ A /\ UNCHANGED <<scene, stagedVars, loopVars>>
InStaged(A)  == scene = "staged" /\ A /\ UNCHANGED <<scene, roadmapVars, loopVars>>
InLoop(A)    == scene = "loop" /\ A /\ UNCHANGED <<scene, roadmapVars, stagedVars>>

Init ==
  /\ scene \in Scenes
  /\ RoadmapInit /\ StagedInit /\ LoopInit
  /\ scene = "staged" \/ mission = CHOOSE m \in Missions : TRUE
  /\ scene = "loop" \/ (~suppressed /\ tree = [p \in Paths |-> 0])

Next == InRoadmap(RoadmapNext) \/ InStaged(StagedNext) \/ InLoop(LoopNext)

\* The fairness of RoadmapSpec, StagedSpec and LoopSpec in their scenes.
Spec ==
  /\ Init /\ [][Next]_vars
  /\ WF_vars(InRoadmap(WatchdogStep)) /\ \A r \in Slots : WF_vars(InRoadmap(WorkerStep(r)))
  /\ WF_vars(InStaged(StagedStep))
  /\ WF_vars(InLoop(LoopStep))

-----------------------------------------------------------------------------
\* Every stage required and none, some or the backend satisfied from the
\* start; and a mission without a UI.
Backend == {"backend_api_change", "backend_tests"}
FourMissions ==
  {[required |-> Stages, base |-> b] : b \in {{}, {"backend_tests", "ui_dashboard_tests"}, {"backend_api_change"}}}
    \cup {[required |-> Backend, base |-> {}]}

-----------------------------------------------------------------------------
\* Types of the three components: the watchdog's and the runs' states, the stages
\* with their retry and cycle counters, and the loop's counters and tree.
WorkTypeOK == RoadmapTypeOK /\ StagedTypeOK /\ LoopTypeOK

\* The watchdog of web/server.py closes every roadmap issue or gives it up.
RoadmapDrainsHere == scene = "roadmap" => RoadmapDrains

\* Every staged mission of the supervisor ends.
StagedMissionEndsHere == scene = "staged" => StagedMissionEnds

\* AgentReasoningLoop.run returns.
LoopReturnsHere == scene = "loop" => LoopReturns

\* The watchdog's promise of "moving on ... instead of retrying forever".
NeverRetriesForeverHere == scene = "roadmap" => NeverRetriesForever
=============================================================================
