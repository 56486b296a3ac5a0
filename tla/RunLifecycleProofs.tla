------------------------- MODULE RunLifecycleProofs -------------------------
(***************************************************************************)
(* Theorems about RunLifecycle, for every set of runs and any number of    *)
(* restarts.                                                               *)
(***************************************************************************)
EXTENDS RunLifecycle, TLAPS

\* An actor is the worker or the canceller of its run, and these are different.
LEMMA ActorFacts ==
  /\ \A a \in Actors : RunOf(a) \in Runs
  /\ \A a \in Actors : a = WorkerOf(RunOf(a)) \/ a = CancellerOf(RunOf(a))
  /\ \A r \in Runs : WorkerOf(r) \in Actors /\ CancellerOf(r) \in Actors
  /\ \A r \in Runs : RunOf(WorkerOf(r)) = r /\ RunOf(CancellerOf(r)) = r
  /\ \A r, q \in Runs : WorkerOf(r) # CancellerOf(q)
BY DEF Actors, RunOf, WorkerOf, CancellerOf

-----------------------------------------------------------------------------
(* Types.                                                                  *)

\* The stages follow each other, and what they ask for is a status.
LEMMA StageTypes ==
  /\ \A stage \in Stages : After(stage) \in Stages
  /\ \A a \in Actors : at[a] \in Requests => Goals(a) \subseteq Records
  /\ Absent \in Records /\ "running" \in Records /\ "interrupted" \in Records
  /\ "failed" \in Records /\ "blocked" \in Records
  /\ \A a \in Actors : Goals(a) \subseteq {"completed", "blocked", "cancelled", at[a]}
<1>1. \A stage \in Stages : After(stage) \in Stages
  BY DEF After, Stages
<1>2. \A a \in Actors : Goals(a) \subseteq {"completed", "blocked", "cancelled", at[a]}
  BY DEF Goals
<1>3. {"completed", "blocked", "cancelled", "cancelling", "finish"} \ {"finish"} \subseteq Records
  BY DEF Records, Statuses, TERMINAL_STATUSES, ActiveStatuses
<1>4. ASSUME NEW a \in Actors, at[a] \in Requests PROVE Goals(a) \subseteq Records
  BY <1>2, <1>3, <1>4 DEF Requests, Goals
<1> QED BY <1>1, <1>2, <1>4 DEF Records, Statuses, TERMINAL_STATUSES, ActiveStatuses, Absent

\* The initial state is typed.
LEMMA TypeInit == Init => TypeOK
<1> SUFFICES ASSUME Init PROVE TypeOK
  OBVIOUS
<1>1. torn \in BOOLEAN
  BY Zenon DEF Init
<1>2. NoRecords \in [Runs -> Records]
  BY StageTypes DEF NoRecords
<1>3. /\ status \in [Runs -> Records] /\ file \in [Runs -> Records]
      /\ index \in [Actors -> [Runs -> Records]]
  BY <1>2, Zenon DEF Init
<1>4. /\ at \in [Actors -> Stages] /\ op \in [Actors -> Ops]
      /\ read \in [Actors -> Records] /\ goal \in [Actors -> Records]
      /\ record \in [Actors -> Records] /\ via \in [Actors -> Actors]
      /\ hook \in [Runs -> Actors]
  BY StageTypes, ActorFacts DEF Init, Stages, Ops
<1>5. /\ audit \in [registered : SUBSET Runs, terminated : SUBSET Runs]
      /\ run_store \subseteq Runs /\ past \subseteq Runs /\ restarts \in Nat
  BY DEF Init
<1> QED BY <1>1, <1>3, <1>4, <1>5 DEF TypeOK

\* Every step of an actor keeps the types.
LEMMA TypeStep ==
  ASSUME TypeOK, NEW a \in Actors, Step(a) PROVE TypeOK'
<1> USE DEF TypeOK, requestVars, snapshotVars, fileVars, serverVars, MoveTo, At, Done
<1>0. RunOf(a) \in Runs
  BY ActorFacts
<1>1. CASE LoadIndex(a)
  BY <1>1, StageTypes DEF LoadIndex, NoRecords, Stages
<1>2. CASE CleanZombies(a)
  <2>1. index' \in [Actors -> [Runs -> Records]]
    <3>1. index' = [index EXCEPT ![a] =
                      [r \in Runs |-> IF Zombie(a, r) THEN "interrupted" ELSE index[a][r]]]
      BY <1>2 DEF CleanZombies
    <3>2. [r \in Runs |-> IF Zombie(a, r) THEN "interrupted" ELSE index[a][r]]
            \in [Runs -> Records]
      BY StageTypes
    <3> HIDE DEF MoveTo, At, Done
    <3> QED BY <3>1, <3>2
  <2>2. CASE \E r \in Runs : Zombie(a, r)
    <3>1. torn' \in BOOLEAN
      BY <1>2, <2>2, Zenon DEF CleanZombies, Truncate
    <3>2. op' \in [Actors -> Ops] /\ via' \in [Actors -> Actors]
      BY <1>2, <2>2 DEF CleanZombies, Ops
    <3> QED BY <1>2, <2>1, <2>2, <3>1, <3>2 DEF CleanZombies, Truncate
  <2>3. CASE ~ \E r \in Runs : Zombie(a, r)
    <3>1. at' \in [Actors -> Stages]
      BY <1>2, <2>3 DEF CleanZombies, Stages
    <3> QED BY <1>2, <2>1, <2>3, <3>1 DEF CleanZombies
  <2> QED BY <2>2, <2>3
<1>3. CASE Register(a)
  <2>1. audit' \in [registered : SUBSET Runs, terminated : SUBSET Runs]
    BY <1>0, <1>3 DEF Register
  <2>2. at' \in [Actors -> Stages]
    <3>1. at' \in {[at EXCEPT ![a] = "queued"], [at EXCEPT ![a] = "cancelling"]}
      BY <1>3 DEF Register
    <3> QED BY <3>1 DEF Stages
  <2>3. status' \in [Runs -> Records]
    <3>1. status' = [status EXCEPT ![RunOf(a)] = "running"] \/ status' = status
      BY <1>3 DEF Register
    <3> QED BY <3>1, StageTypes
  <2>4. hook' \in [Runs -> Actors]
    BY <1>3 DEF Register
  <2>5. UNCHANGED <<op, requestVars, snapshotVars, run_store, index, fileVars, serverVars>>
    BY <1>3 DEF Register
  <2> QED BY <2>1, <2>2, <2>3, <2>4, <2>5
<1>4. CASE Publish(a)
  <2>1. at' \in [Actors -> Stages]
    BY <1>4 DEF Publish, Stages
  <2>2. run_store' \subseteq Runs
    BY <1>0, <1>4 DEF Publish
  <2> QED BY <1>4, <2>1, <2>2 DEF Publish
<1>5. CASE Capture(a)
  BY <1>0, <1>5 DEF Capture, Ops
<1>6. CASE BeginWrite(a)
  <2>1. index' \in [Actors -> [Runs -> Records]]
    BY <1>0, <1>6 DEF BeginWrite
  <2>2. torn' \in BOOLEAN
    BY <1>6, Zenon DEF BeginWrite, Truncate
  <2>3. op' \in [Actors -> Ops]
    BY <1>6 DEF BeginWrite, Ops
  <2> QED BY <1>6, <2>1, <2>2, <2>3 DEF BeginWrite, Truncate
<1>7. CASE EndWrite(a)
  <2>1. torn' \in BOOLEAN
    BY <1>7, Zenon DEF EndWrite
  <2>2. at' \in [Actors -> Stages] /\ op' \in [Actors -> Ops]
    BY <1>7, StageTypes DEF EndWrite, Ops
  <2> QED BY <1>7, <2>1, <2>2 DEF EndWrite
<1>8. CASE ReadStatus(a)
  BY <1>0, <1>8, StageTypes DEF ReadStatus, Ops
<1>9. CASE ValidateRequest(a)
  BY <1>9 DEF ValidateRequest, Ops
<1>10. CASE Commit(a)
  BY <1>0, <1>10, StageTypes DEF Commit, Ops
<1>11. CASE Fallback(a)
  BY <1>0, <1>11, StageTypes DEF Fallback, FallbackStatus, Ops
<1>12. CASE Track(a)
  <2>1. at' \in [Actors -> Stages]
    BY <1>12 DEF Track, Stages
  <2> QED BY <1>0, <1>12, <2>1 DEF Track
<1> QED BY <1>1, <1>2, <1>3, <1>4, <1>5, <1>6, <1>7, <1>8, <1>9, <1>10, <1>11, <1>12 DEF Step

\* So do the starts, the writes that bypass the store, cancel calls and restarts.
LEMMA TypeOther ==
  ASSUME TypeOK,
         \/ \E r \in Runs : StartRun(r) \/ BudgetStop(r) \/ QualityGate(r) \/ CancelRequest(r)
         \/ Restart
  PROVE  TypeOK'
<1> USE DEF TypeOK, requestVars, snapshotVars, fileVars, serverVars, MoveTo
<1>1. ASSUME NEW r \in Runs, StartRun(r) PROVE TypeOK'
  BY <1>1, ActorFacts DEF StartRun, Stages
<1>2. ASSUME NEW r \in Runs, BudgetStop(r) PROVE TypeOK'
  BY <1>2, StageTypes DEF BudgetStop
<1>3. ASSUME NEW r \in Runs, QualityGate(r) PROVE TypeOK'
  <2>1. /\ status' \in [Runs -> Records]
        /\ at' = [at EXCEPT ![WorkerOf(r)] = "report"]
        /\ UNCHANGED <<run_store, op, read, goal, record, via, hook, index, file, torn, audit,
                       past, restarts>>
    BY <1>3, StageTypes DEF QualityGate
  <2>2. at' \in [Actors -> Stages]
    BY <2>1 DEF Stages
  <2> QED BY <2>1, <2>2
<1>4. ASSUME NEW r \in Runs, CancelRequest(r) PROVE TypeOK'
  BY <1>4, ActorFacts DEF CancelRequest, Stages
<1>5. CASE Restart
  <2>1. NoRecords \in [Runs -> Records]
    BY StageTypes DEF NoRecords
  <2>2. /\ status' \in [Runs -> Records] /\ index' \in [Actors -> [Runs -> Records]]
        /\ UNCHANGED <<file, torn, audit>>
    BY <1>5, <2>1, Zenon DEF Restart
  <2>3. at' \in [Actors -> Stages] /\ op' \in [Actors -> Ops]
    BY <1>5 DEF Restart, Stages, Ops
  <2>4. /\ read' \in [Actors -> Records] /\ goal' \in [Actors -> Records]
        /\ record' \in [Actors -> Records] /\ via' \in [Actors -> Actors]
        /\ hook' \in [Runs -> Actors]
    BY <1>5, StageTypes, ActorFacts DEF Restart
  <2>5. run_store' \subseteq Runs /\ restarts' \in Nat
    <3>1. run_store' = {} /\ restarts' = restarts + 1
      BY <1>5 DEF Restart
    <3> QED BY <3>1
  <2>6. past' \subseteq Runs
    <3>1. past' = past \cup {r \in Runs : at[WorkerOf(r)] # "idle"}
      BY <1>5 DEF Restart
    <3> QED BY <3>1
  <2> QED BY <2>2, <2>3, <2>4, <2>5, <2>6
<1> QED BY <1>1, <1>2, <1>3, <1>4, <1>5

\* Spec => []TypeOK: run statuses, the copies of the index, the file and the
\* audit log stay in their domains, for every set of runs.
THEOREM TypeCorrect == Spec => []TypeOK
<1>1. TypeOK /\ [Next]_vars => TypeOK'
  <2> SUFFICES ASSUME TypeOK, [Next]_vars PROVE TypeOK'
    OBVIOUS
  <2>1. CASE UNCHANGED vars
    BY <2>1 DEF TypeOK, vars, requestVars, snapshotVars, fileVars, serverVars
  <2>2. CASE Next
    BY <2>1, <2>2, TypeStep, TypeOther DEF Next, Terminating
  <2> QED BY <2>1, <2>2
<1> QED BY <1>1, TypeInit, PTL DEF Spec

-----------------------------------------------------------------------------
(* Where the actors are.                                                   *)

WorkerStages == {"idle", "load", "clean", "register", "queued", "publish", "track", "event",
                 "finish", "report", "done", "dead"}
CancelStages == {"idle", "load", "clean", "register", "cancelling", "noted", "cancelled",
                 "reported", "done", "dead"}
Published == {"track", "event", "finish", "report", "done"}
Requesting == {"read", "allowed", "refused"}

\* A worker and a cancel call go through stages of their own; a request is made
\* in a stage that makes one, for a goal of that stage, and a snapshot likewise;
\* a run in RUN_STORE is past its start, and a run being cancelled is in RUN_STORE.
StageInv ==
  /\ TypeOK
  /\ \A r \in Runs : at[WorkerOf(r)] \in WorkerStages /\ at[CancellerOf(r)] \in CancelStages
  /\ \A a \in Actors : op[a] \in Requesting =>
       /\ at[a] \in Requests
       /\ IF at[a] = "finish" THEN goal[a] \in TERMINAL_STATUSES ELSE goal[a] = at[a]
  /\ \A a \in Actors : op[a] \in {"captured", "writing"} => at[a] \in Snapshots \cup {"clean"}
  /\ \A r \in run_store : at[WorkerOf(r)] \in Published
  /\ \A r \in Runs : at[CancellerOf(r)] \notin {"idle", "dead"} => r \in run_store

\* What a step of actor a leaves alone: the other actors and the other runs.
Frame(a) ==
  /\ \A b \in Actors \ {a} : at'[b] = at[b] /\ op'[b] = op[b] /\ goal'[b] = goal[b]
  /\ \A r \in Runs \ {RunOf(a)} : status'[r] = status[r]
  /\ run_store' \in {run_store, run_store \cup {RunOf(a)}}

\* Every step of an actor respects the frame.
LEMMA StepFrame == ASSUME TypeOK, NEW a \in Actors, Step(a) PROVE Frame(a)
<1> USE DEF TypeOK, Frame, requestVars, MoveTo, Done
<1>0. RunOf(a) \in Runs
  BY ActorFacts
<1>1. CASE LoadIndex(a)
  BY <1>1 DEF LoadIndex
<1>2. CASE CleanZombies(a)
  BY <1>2 DEF CleanZombies
<1>3. CASE Register(a)
  <2>1. at' \in {[at EXCEPT ![a] = "queued"], [at EXCEPT ![a] = "cancelling"]}
    BY <1>3 DEF Register
  <2>2. status' \in {status, [status EXCEPT ![RunOf(a)] = "running"]}
    BY <1>3 DEF Register
  <2>3. UNCHANGED <<op, goal, run_store>>
    BY <1>3 DEF Register
  <2> QED BY <1>0, <2>1, <2>2, <2>3
<1>4. CASE Publish(a)
  BY <1>4 DEF Publish
<1>5. CASE Capture(a)
  BY <1>5 DEF Capture
<1>6. CASE BeginWrite(a)
  BY <1>6 DEF BeginWrite
<1>7. CASE EndWrite(a)
  BY <1>7 DEF EndWrite
<1>8. CASE ReadStatus(a)
  <2>1. PICK g \in Goals(a) : goal' = [goal EXCEPT ![a] = g]
    BY <1>8 DEF ReadStatus
  <2>2. op' = [op EXCEPT ![a] = "read"] /\ UNCHANGED <<at, status, run_store>>
    BY <1>8 DEF ReadStatus
  <2> QED BY <2>1, <2>2
<1>9. CASE ValidateRequest(a)
  BY <1>9 DEF ValidateRequest
<1>10. CASE Commit(a)
  <2>1. /\ status' = [status EXCEPT ![RunOf(a)] = goal[a]]
        /\ at' = [at EXCEPT ![a] = After(at[a])] /\ op' = [op EXCEPT ![a] = ""]
        /\ UNCHANGED <<goal, run_store>>
    BY <1>10 DEF Commit
  <2> QED BY <1>0, <2>1
<1>11. CASE Fallback(a)
  <2>1. /\ status' = [status EXCEPT ![RunOf(a)] = FallbackStatus(a)]
        /\ at' = [at EXCEPT ![a] = After(at[a])] /\ op' = [op EXCEPT ![a] = ""]
        /\ UNCHANGED <<goal, run_store>>
    BY <1>11 DEF Fallback
  <2> QED BY <1>0, <2>1
<1>12. CASE Track(a)
  BY <1>12 DEF Track
<1> QED BY <1>1, <1>2, <1>3, <1>4, <1>5, <1>6, <1>7, <1>8, <1>9, <1>10, <1>11, <1>12 DEF Step

\* How a step moves its own actor: the stage stays, or a later one begins.
Moves(a) ==
  \/ /\ at'[a] = at[a] /\ at[a] \in Snapshots \cup {"clean"}
     /\ op'[a] \in {"captured", "writing"} /\ run_store' = run_store
  \/ /\ at'[a] = at[a] /\ at[a] \in Requests
     /\ op'[a] \in Requesting /\ run_store' = run_store
     /\ goal'[a] \in Goals(a) \/ (op[a] \in Requesting /\ goal'[a] = goal[a])
  \/ /\ op'[a] = ""
     /\ \/ at[a] = "load" /\ at'[a] = "clean" /\ run_store' = run_store
        \/ at[a] = "clean" /\ at'[a] = "register" /\ run_store' = run_store
        \/ /\ at[a] = "register" /\ run_store' = run_store
           /\ at'[a] = IF a = WorkerOf(RunOf(a)) THEN "queued" ELSE "cancelling"
        \/ at[a] = "publish" /\ at'[a] = "track" /\ run_store' = run_store \cup {RunOf(a)}
        \/ at[a] = "track" /\ at'[a] = "event" /\ run_store' = run_store
        \/ at[a] \in Snapshots \cup Requests /\ at'[a] = After(at[a]) /\ run_store' = run_store

\* Every step of an actor is such a move.
LEMMA StepMoves == ASSUME StageInv, NEW a \in Actors, Step(a) PROVE Moves(a)
<1> USE DEF TypeOK, Moves, requestVars, MoveTo, Done, At
<1>0. TypeOK
  BY DEF StageInv
<1>1. CASE LoadIndex(a)
  BY <1>0, <1>1 DEF LoadIndex
<1>2. CASE CleanZombies(a)
  BY <1>0, <1>2 DEF CleanZombies
<1>3. CASE Register(a)
  BY <1>0, <1>3 DEF Register
<1>4. CASE Publish(a)
  BY <1>0, <1>4 DEF Publish
<1>5. CASE Capture(a)
  BY <1>0, <1>5 DEF Capture
<1>6. CASE BeginWrite(a)
  BY <1>0, <1>6 DEF BeginWrite, StageInv
<1>7. CASE EndWrite(a)
  <2>1. at[a] \in Snapshots \cup {"clean"}
    BY <1>7 DEF EndWrite, StageInv
  <2> QED BY <1>0, <1>7, <2>1 DEF EndWrite, After
<1>8. CASE ReadStatus(a)
  <2>1. PICK g \in Goals(a) : goal' = [goal EXCEPT ![a] = g]
    BY <1>8 DEF ReadStatus
  <2>2. goal'[a] \in Goals(a)
    BY <1>0, <2>1
  <2>3. at'[a] = at[a] /\ at[a] \in Requests /\ op'[a] = "read" /\ run_store' = run_store
    BY <1>0, <1>8 DEF ReadStatus
  <2> QED BY <2>2, <2>3 DEF Requesting
<1>9. CASE ValidateRequest(a)
  BY <1>0, <1>9 DEF ValidateRequest, StageInv, Requesting
<1>10. CASE Commit(a)
  <2>1. at[a] \in Requests
    BY <1>10 DEF Commit, StageInv, Requesting
  <2> QED BY <1>0, <1>10, <2>1 DEF Commit
<1>11. CASE Fallback(a)
  <2>1. at[a] \in Requests
    BY <1>11 DEF Fallback, StageInv, Requesting
  <2> QED BY <1>0, <1>11, <2>1 DEF Fallback
<1>12. CASE Track(a)
  BY <1>0, <1>12 DEF Track
<1> QED BY <1>1, <1>2, <1>3, <1>4, <1>5, <1>6, <1>7, <1>8, <1>9, <1>10, <1>11, <1>12 DEF Step

\* Steps of the actors keep the stages in order ...
LEMMA StageStep == ASSUME StageInv, NEW a \in Actors, Step(a) PROVE StageInv'
<1>0. TypeOK' /\ Frame(a) /\ Moves(a)
  BY TypeStep, StepFrame, StepMoves DEF StageInv
<1>1. RunOf(a) \in Runs
  BY ActorFacts
<1>2. a = WorkerOf(RunOf(a)) => at'[a] \in WorkerStages
  <2> HAVE a = WorkerOf(RunOf(a))
  <2>1. at[a] \in WorkerStages
    BY <1>1 DEF StageInv
  <2> QED BY <1>0, <2>1 DEF Moves, WorkerStages, Snapshots, Requests, After
<1>3. a = CancellerOf(RunOf(a)) => at'[a] \in CancelStages
  <2> HAVE a = CancellerOf(RunOf(a))
  <2>1. at[a] \in CancelStages /\ a # WorkerOf(RunOf(a))
    BY <1>1, ActorFacts DEF StageInv
  <2> QED BY <1>0, <2>1 DEF Moves, CancelStages, Snapshots, Requests, After
<1>4. ASSUME NEW r \in Runs
      PROVE  at'[WorkerOf(r)] \in WorkerStages /\ at'[CancellerOf(r)] \in CancelStages
  BY <1>0, <1>2, <1>3, ActorFacts DEF Frame, StageInv
<1>5. ASSUME NEW b \in Actors, op'[b] \in Requesting
      PROVE  /\ at'[b] \in Requests
             /\ IF at'[b] = "finish" THEN goal'[b] \in TERMINAL_STATUSES
                                     ELSE goal'[b] = at'[b]
  <2>1. CASE b # a
    BY <1>0, <1>5, <2>1 DEF Frame, StageInv
  <2>2. CASE b = a
    <3>1. /\ at'[a] = at[a] /\ at[a] \in Requests
          /\ goal'[a] \in Goals(a) \/ (op[a] \in Requesting /\ goal'[a] = goal[a])
      BY <1>0, <1>5, <2>2 DEF Moves, Requesting
    <3>2. CASE goal'[a] \in Goals(a)
      BY <2>2, <3>1, <3>2 DEF Goals, TERMINAL_STATUSES
    <3>3. CASE op[a] \in Requesting /\ goal'[a] = goal[a]
      BY <2>2, <3>1, <3>3 DEF StageInv
    <3> QED BY <3>1, <3>2, <3>3
  <2> QED BY <2>1, <2>2
<1>6. ASSUME NEW b \in Actors, op'[b] \in {"captured", "writing"}
      PROVE  at'[b] \in Snapshots \cup {"clean"}
  BY <1>0, <1>6 DEF Frame, Moves, StageInv, Requesting
<1>7. ASSUME NEW r \in run_store' PROVE at'[WorkerOf(r)] \in Published
  <2>1. r \in Runs
    BY <1>0, <1>7 DEF TypeOK
  <2>2. CASE r \in run_store
    <3>1. at[WorkerOf(r)] \in Published
      BY <2>2 DEF StageInv
    <3>2. CASE WorkerOf(r) = a
      BY <1>0, <3>1, <3>2 DEF Moves, Published, Snapshots, Requests, After
    <3>3. CASE WorkerOf(r) # a
      BY <1>0, <2>1, <3>1, <3>3, ActorFacts DEF Frame
    <3> QED BY <3>2, <3>3
  <2>3. CASE r \notin run_store
    <3>1. at[a] = "publish" /\ at'[a] = "track" /\ r = RunOf(a)
      BY <1>0, <1>7, <2>3 DEF Moves
    <3>2. a # CancellerOf(r)
      BY <2>1, <3>1 DEF StageInv, CancelStages
    <3>3. a = WorkerOf(r)
      BY <3>1, <3>2, ActorFacts
    <3> QED BY <3>1, <3>3 DEF Published
  <2> QED BY <2>2, <2>3
<1>8. ASSUME NEW r \in Runs, at'[CancellerOf(r)] \notin {"idle", "dead"}
      PROVE  r \in run_store'
  <2>1. CASE CancellerOf(r) # a
    BY <1>0, <1>8, <2>1, ActorFacts DEF Frame, StageInv
  <2>2. CASE CancellerOf(r) = a
    <3>1. at[a] \notin {"idle", "dead"}
      BY <1>0 DEF Moves, Snapshots, Requests
    <3> QED BY <1>0, <2>2, <3>1 DEF Frame, StageInv
  <2> QED BY <2>1, <2>2
<1> QED BY <1>0, <1>4, <1>5, <1>6, <1>7, <1>8 DEF StageInv

\* ... and so do starts, cancel calls, direct writes and restarts.
LEMMA StageOther ==
  ASSUME StageInv,
         \/ \E r \in Runs : StartRun(r) \/ BudgetStop(r) \/ QualityGate(r) \/ CancelRequest(r)
         \/ Restart
  PROVE  StageInv'
<1>0. TypeOK /\ TypeOK'
  BY TypeOther DEF StageInv
<1> USE DEF TypeOK, requestVars, MoveTo, At
<1>1. ASSUME NEW r \in Runs, StartRun(r) PROVE StageInv'
  <2>1. /\ at' = [at EXCEPT ![WorkerOf(r)] = "load"] /\ at[WorkerOf(r)] = "idle"
        /\ op[WorkerOf(r)] = "" /\ UNCHANGED <<op, goal, run_store>>
    BY <1>1 DEF StartRun
  <2>2. r \notin run_store
    BY <2>1 DEF StageInv, Published
  <2>3. ASSUME NEW q \in Runs
        PROVE  /\ at'[WorkerOf(q)] \in WorkerStages
               /\ at'[CancellerOf(q)] = at[CancellerOf(q)]
               /\ q # r => at'[WorkerOf(q)] = at[WorkerOf(q)]
    <3>1. WorkerOf(q) \in Actors /\ CancellerOf(q) \in Actors /\ CancellerOf(q) # WorkerOf(r)
      BY ActorFacts
    <3>2. q # r => WorkerOf(q) # WorkerOf(r)
      BY ActorFacts
    <3> QED BY <1>0, <2>1, <3>1, <3>2 DEF StageInv, WorkerStages
  <2>4. \A a \in Actors : op'[a] = op[a] /\ (op[a] # "" => at'[a] = at[a])
    BY <1>0, <2>1, ActorFacts
  <2> QED BY <1>0, <2>1, <2>2, <2>3, <2>4 DEF StageInv, Requesting
<1>2. ASSUME NEW r \in Runs, BudgetStop(r) PROVE StageInv'
  <2>1. UNCHANGED <<at, op, goal, run_store>>
    BY <1>2 DEF BudgetStop
  <2> QED BY <1>0, <2>1 DEF StageInv
<1>3. ASSUME NEW r \in Runs, CancelRequest(r) PROVE StageInv'
  <2>1. /\ at' = [at EXCEPT ![CancellerOf(r)] = "load"] /\ r \in run_store
        /\ op[CancellerOf(r)] = "" /\ UNCHANGED <<op, goal, run_store>>
    BY <1>3 DEF CancelRequest
  <2>3. ASSUME NEW q \in Runs
        PROVE  /\ at'[WorkerOf(q)] = at[WorkerOf(q)]
               /\ at'[CancellerOf(q)] \in CancelStages
               /\ q # r => at'[CancellerOf(q)] = at[CancellerOf(q)]
    <3>1. WorkerOf(q) \in Actors /\ CancellerOf(q) \in Actors /\ WorkerOf(q) # CancellerOf(r)
      BY ActorFacts
    <3>2. q # r => CancellerOf(q) # CancellerOf(r)
      BY ActorFacts
    <3> QED BY <1>0, <2>1, <3>1, <3>2 DEF StageInv, CancelStages
  <2>4. \A a \in Actors : op'[a] = op[a] /\ (op[a] # "" => at'[a] = at[a])
    BY <1>0, <2>1, ActorFacts
  <2> QED BY <1>0, <2>1, <2>3, <2>4 DEF StageInv, Requesting
<1>4. CASE Restart
  <2>1. /\ at' = [a \in Actors |-> IF at[a] = "idle" THEN "idle" ELSE "dead"]
        /\ op' = [a \in Actors |-> ""] /\ run_store' = {}
    BY <1>4 DEF Restart
  <2> QED BY <1>0, <2>1, ActorFacts DEF StageInv, WorkerStages, CancelStages, Requesting
<1>5. ASSUME NEW r \in Runs, QualityGate(r) PROVE StageInv'
  <2>1. /\ at' = [at EXCEPT ![WorkerOf(r)] = "report"] /\ op[WorkerOf(r)] = ""
        /\ UNCHANGED <<op, goal, run_store>>
    BY <1>5 DEF QualityGate
  <2>3. ASSUME NEW q \in Runs
        PROVE  /\ at'[WorkerOf(q)] \in WorkerStages
               /\ at'[CancellerOf(q)] = at[CancellerOf(q)]
               /\ at'[WorkerOf(q)] \in {at[WorkerOf(q)], "report"}
    <3>1. WorkerOf(q) \in Actors /\ CancellerOf(q) \in Actors /\ CancellerOf(q) # WorkerOf(r)
      BY ActorFacts
    <3> QED BY <1>0, <2>1, <3>1 DEF StageInv, WorkerStages
  <2>4. \A a \in Actors : op'[a] = op[a] /\ (op[a] # "" => at'[a] = at[a])
    BY <1>0, <2>1, ActorFacts
  <2> QED BY <1>0, <2>1, <2>3, <2>4 DEF StageInv, Requesting, Published
<1> QED BY <1>1, <1>2, <1>3, <1>4, <1>5

-----------------------------------------------------------------------------
(* A cancel call returns with the run in a terminal status.                *)

\* The status is past "running" once the cancel call has asked for "cancelling",
\* and terminal once "cancelled" was refused or set.
PastRunning(r) ==
  at[CancellerOf(r)] \in {"noted", "cancelled"}
    \/ (at[CancellerOf(r)] = "cancelling" /\ op[CancellerOf(r)] = "refused")
    => status[r] \in {"cancelling"} \cup TERMINAL_STATUSES

Settled(r) ==
  at[CancellerOf(r)] \in {"reported", "done"}
    \/ (at[CancellerOf(r)] = "cancelled" /\ op[CancellerOf(r)] = "refused")
    => status[r] \in TERMINAL_STATUSES

\* A run whose worker is past its registration has a status.
Started == {"queued", "publish"} \cup Published
HasStatus(r) == at[WorkerOf(r)] \in Started => status[r] # Absent

CancelInv == StageInv /\ \A r \in Runs : HasStatus(r) /\ PastRunning(r) /\ Settled(r)

\* A step writes a goal or "running", never the absence of a status.
LEMMA StepWrites ==
  ASSUME StageInv, NEW a \in Actors, Step(a), NEW r \in Runs, r = RunOf(a)
  PROVE  /\ status'[r] = status[r] \/ status'[r] # Absent
         /\ at[a] = "register" /\ a = WorkerOf(r) => status'[r] # Absent
<1>0. TypeOK
  BY DEF StageInv
<1> USE DEF TypeOK
<1>1. CASE Commit(a) \/ Fallback(a)
  <2>1. op[a] \in Requesting
    BY <1>1 DEF Commit, Fallback, Requesting
  <2>2. goal[a] # Absent /\ at[a] # "register"
    BY <2>1 DEF StageInv, TERMINAL_STATUSES, Requests, Absent
  <2> QED BY <1>0, <1>1, <2>2 DEF Commit, Fallback, FallbackStatus
<1>2. CASE Register(a)
  <2>1. status' = IF a = WorkerOf(r) THEN [status EXCEPT ![r] = "running"] ELSE status
    BY <1>2 DEF Register
  <2> QED BY <1>0, <2>1 DEF Absent
<1>3. CASE LoadIndex(a) \/ CleanZombies(a) \/ Publish(a) \/ Track(a)
  BY <1>3 DEF LoadIndex, CleanZombies, Publish, Track, At
<1>4. CASE Capture(a) \/ BeginWrite(a) \/ EndWrite(a) \/ ReadStatus(a) \/ ValidateRequest(a)
  <2>1. at[a] # "register"
    <3>1. op[a] \in {"captured", "writing", "read"} => at[a] # "register"
      BY DEF StageInv, Snapshots, Requests, Requesting
    <3>2. op[a] \in {"captured", "writing", "read"} \/ at[a] \in Snapshots \cup Requests
      BY <1>4 DEF Capture, BeginWrite, EndWrite, ReadStatus, ValidateRequest
    <3> QED BY <3>1, <3>2 DEF Snapshots, Requests
  <2>2. status' = status
    BY <1>4 DEF Capture, BeginWrite, EndWrite, ReadStatus, ValidateRequest
  <2> QED BY <2>1, <2>2
<1> QED BY <1>1, <1>2, <1>3, <1>4 DEF Step

\* The status of a started run stays.
LEMMA HasStatusStep ==
  ASSUME StageInv, NEW a \in Actors, Step(a), NEW r \in Runs, HasStatus(r)
  PROVE  HasStatus(r)'
<1>0. Frame(a) /\ Moves(a) /\ WorkerOf(r) \in Actors
  BY StepFrame, StepMoves, ActorFacts DEF StageInv
<1>1. CASE RunOf(a) # r
  BY <1>0, <1>1, ActorFacts DEF Frame, HasStatus
<1>2. CASE RunOf(a) = r /\ a # WorkerOf(r)
  BY <1>0, <1>2, StepWrites DEF Frame, HasStatus
<1>3. CASE RunOf(a) = r /\ a = WorkerOf(r)
  <2>0. at[a] \in WorkerStages
    BY <1>3 DEF StageInv
  <2>1. at'[a] \in Started => at[a] \in Started \cup {"register"}
    BY <1>0, <2>0 DEF Moves, Started, Published, Snapshots, Requests, After, WorkerStages
  <2> QED BY <1>3, <2>1, StepWrites DEF HasStatus
<1> QED BY <1>1, <1>2, <1>3

\* A worker with a cancel call under way only writes terminal statuses.
LEMMA WorkerWrites ==
  ASSUME StageInv, NEW r \in Runs, Step(WorkerOf(r)),
         at[CancellerOf(r)] \notin {"idle", "dead"}
  PROVE  status'[r] = status[r] \/ status'[r] \in TERMINAL_STATUSES
<1> DEFINE a == WorkerOf(r)
<1>0. TypeOK /\ a \in Actors /\ RunOf(a) = r
  BY ActorFacts DEF StageInv
<1>1. at[a] \in Published
  BY DEF StageInv
<1> HIDE DEF a
<1> USE DEF TypeOK
<1>2. CASE Commit(a) \/ Fallback(a)
  <2>1. op[a] \in Requesting
    BY <1>2 DEF Commit, Fallback, Requesting
  <2>2. at[a] = "finish"
    BY <1>0, <1>1, <2>1 DEF StageInv, Published, Requests
  <2>3. goal[a] \in TERMINAL_STATUSES
    BY <1>0, <2>1, <2>2 DEF StageInv, TERMINAL_STATUSES
  <2> QED BY <1>0, <1>2, <2>3 DEF Commit, Fallback, FallbackStatus
<1>3. CASE Register(a)
  BY <1>1, <1>3 DEF Register, At, Published
<1>4. CASE ~(Commit(a) \/ Fallback(a) \/ Register(a))
  <2>1. Step(a)
    BY DEF a
  <2> QED BY <1>4, <2>1 DEF Step, LoadIndex, CleanZombies, Publish, Track, Capture, BeginWrite,
                            EndWrite, ReadStatus, ValidateRequest
<1> QED BY <1>2, <1>3, <1>4

\* The cancel call itself: a refused "cancelling" has met a terminal status, and
\* so has a refused "cancelled", because the status was past "running" before.
LEMMA CancellerStep ==
  ASSUME StageInv, NEW r \in Runs, Step(CancellerOf(r)), HasStatus(r), PastRunning(r),
         Settled(r)
  PROVE  (PastRunning(r) /\ Settled(r))'
<1> DEFINE a == CancellerOf(r)
<1>0. TypeOK /\ a \in Actors /\ RunOf(a) = r /\ a # WorkerOf(r) /\ Step(a)
  BY ActorFacts DEF StageInv
<1>1. at[a] \in CancelStages /\ at[a] \notin {"idle", "dead"} /\ r \in run_store
  <2>1. Moves(a)
    BY <1>0, StepMoves
  <2>2. at[a] \in CancelStages /\ at[a] \notin {"idle", "dead"}
    BY <2>1 DEF StageInv, Moves, Snapshots, Requests
  <2> QED BY <2>2 DEF StageInv
<1>2. status[r] \in Records
  BY <1>0 DEF TypeOK
<1>3. /\ at[a] \in {"noted", "cancelled"} \/ (at[a] = "cancelling" /\ op[a] = "refused")
           => status[r] \in {"cancelling"} \cup TERMINAL_STATUSES
      /\ at[a] \in {"reported", "done"} \/ (at[a] = "cancelled" /\ op[a] = "refused")
           => status[r] \in TERMINAL_STATUSES
  BY DEF PastRunning, Settled
<1>4. SUFFICES
        /\ at'[a] \in {"noted", "cancelled"} \/ (at'[a] = "cancelling" /\ op'[a] = "refused")
             => status'[r] \in {"cancelling"} \cup TERMINAL_STATUSES
        /\ at'[a] \in {"reported", "done"} \/ (at'[a] = "cancelled" /\ op'[a] = "refused")
             => status'[r] \in TERMINAL_STATUSES
  BY DEF PastRunning, Settled
<1>5. op[a] \in Requesting => at[a] \in {"cancelling", "cancelled"} /\ goal[a] = at[a]
  BY <1>0, <1>1 DEF StageInv, Requests, CancelStages
<1>6. op[a] \in {"captured", "writing"} => at[a] \in {"noted", "reported", "clean"}
  BY <1>0, <1>1 DEF StageInv, Snapshots, CancelStages
<1> HIDE DEF a
<1> USE DEF TypeOK
<1>7. CASE LoadIndex(a) \/ CleanZombies(a) \/ Register(a) \/ Publish(a) \/ Track(a)
  <2>1. at'[a] \in {"clean", "register", "cancelling"} /\ op'[a] # "refused"
    <3>1. CASE LoadIndex(a)
      BY <1>0, <3>1 DEF LoadIndex, At, MoveTo
    <3>2. CASE CleanZombies(a)
      BY <1>0, <3>2 DEF CleanZombies, At, MoveTo
    <3>3. CASE Register(a)
      BY <1>0, <3>3 DEF Register, At, MoveTo
    <3>4. CASE Publish(a)
      BY <1>1, <3>4 DEF Publish, At, CancelStages
    <3>5. CASE Track(a)
      BY <1>1, <3>5 DEF Track, At, CancelStages
    <3> QED BY <1>7, <3>1, <3>2, <3>3, <3>4, <3>5
  <2> QED BY <2>1
<1>8. CASE Capture(a) \/ BeginWrite(a) \/ ReadStatus(a)
  <2>1. at'[a] = at[a] /\ status' = status /\ op'[a] # "refused"
    BY <1>0, <1>8 DEF Capture, BeginWrite, ReadStatus
  <2> QED BY <1>3, <2>1
<1>9. CASE EndWrite(a)
  <2>1. at[a] \in {"noted", "reported", "clean"} /\ at'[a] = After(at[a]) /\ op'[a] = ""
        /\ status' = status
    BY <1>0, <1>6, <1>9 DEF EndWrite, Done
  <2> QED BY <1>3, <2>1 DEF After
<1>10. CASE ValidateRequest(a)
  <2>1. /\ at'[a] = at[a] /\ status' = status
        /\ op'[a] = IF Validate(status[r], goal[a]) THEN "allowed" ELSE "refused"
        /\ at[a] \in {"cancelling", "cancelled"} /\ goal[a] = at[a]
    BY <1>0, <1>5, <1>10 DEF ValidateRequest, Requesting
  <2>2. CASE at[a] = "cancelling" /\ op'[a] = "refused"
    <3>1. ~Validate(status[r], "cancelling")
      BY <2>1, <2>2
    <3>2. status[r] # "running"
      BY <3>1 DEF Validate, AllowedTransitions, TERMINAL_STATUSES
    <3>3. status[r] # Absent
      BY <1>1 DEF StageInv, HasStatus, Started
    <3> QED BY <1>2, <2>1, <2>2, <3>2, <3>3 DEF Records, Statuses, ActiveStatuses
  <2>3. CASE at[a] = "cancelled" /\ op'[a] = "refused"
    <3>1. ~Validate(status[r], "cancelled")
      BY <2>1, <2>3
    <3>2. status[r] # "cancelling"
      BY <3>1 DEF Validate, AllowedTransitions, TERMINAL_STATUSES
    <3> QED BY <1>3, <2>1, <2>3, <3>2
  <2> QED BY <1>3, <2>1, <2>2, <2>3
<1>11. CASE Commit(a)
  <2>1. /\ at[a] \in {"cancelling", "cancelled"} /\ goal[a] = at[a] /\ status'[r] = goal[a]
        /\ at'[a] = After(at[a])
    BY <1>0, <1>5, <1>11 DEF Commit, Requesting, Done
  <2> QED BY <2>1 DEF After, TERMINAL_STATUSES
<1>12. CASE Fallback(a)
  <2>1. /\ at[a] \in {"cancelling", "cancelled"} /\ goal[a] = at[a] /\ op[a] = "refused"
        /\ status'[r] \in {goal[a], status[r]} /\ at'[a] = After(at[a])
    BY <1>0, <1>5, <1>12 DEF Fallback, FallbackStatus, Requesting, Done
  <2> QED BY <1>3, <2>1 DEF After, TERMINAL_STATUSES
<1> QED BY <1>0, <1>7, <1>8, <1>9, <1>10, <1>11, <1>12 DEF Step

\* Initially nothing is under way.
LEMMA CancelInvInit == Init => CancelInv
<1> SUFFICES ASSUME Init PROVE CancelInv
  OBVIOUS
<1>1. TypeOK
  BY TypeInit
<1>2. /\ \A a \in Actors : at[a] = "idle" /\ op[a] = ""
      /\ run_store = {}
  BY DEF Init
<1> QED BY <1>1, <1>2, ActorFacts DEF CancelInv, StageInv, WorkerStages, CancelStages, Requesting,
           HasStatus, Started, Published, PastRunning, Settled

\* Every step keeps the invariant.
LEMMA CancelInvStep == CancelInv /\ [Next]_vars => CancelInv'
<1> SUFFICES ASSUME CancelInv, [Next]_vars PROVE CancelInv'
  OBVIOUS
<1>0. StageInv /\ TypeOK
  BY DEF CancelInv, StageInv
<1>1. CASE UNCHANGED vars
  BY <1>1 DEF CancelInv, StageInv, TypeOK, HasStatus, PastRunning, Settled, vars, requestVars,
              snapshotVars, fileVars, serverVars
<1>2. ASSUME NEW a \in Actors, Step(a) PROVE CancelInv'
  <2>1. StageInv'
    BY <1>0, <1>2, StageStep
  <2>2. ASSUME NEW r \in Runs PROVE (HasStatus(r) /\ PastRunning(r) /\ Settled(r))'
    <3>1. HasStatus(r)'
      BY <1>0, <1>2, HasStatusStep DEF CancelInv
    <3>2. CASE a = CancellerOf(r)
      BY <1>0, <1>2, <3>1, <3>2, CancellerStep DEF CancelInv
    <3>3. CASE a # CancellerOf(r)
      <4>1. at'[CancellerOf(r)] = at[CancellerOf(r)] /\ op'[CancellerOf(r)] = op[CancellerOf(r)]
        BY <1>0, <1>2, <3>3, StepFrame, ActorFacts DEF Frame
      <4>2. CASE a = WorkerOf(r)
        BY <1>0, <1>2, <3>1, <4>1, <4>2, WorkerWrites DEF CancelInv, PastRunning, Settled
      <4>3. CASE a # WorkerOf(r)
        <5>1. status'[r] = status[r]
          BY <1>0, <1>2, <3>3, <4>3, StepFrame, ActorFacts DEF Frame
        <5> QED BY <3>1, <4>1, <5>1 DEF CancelInv, PastRunning, Settled
      <4> QED BY <4>2, <4>3
    <3> QED BY <3>2, <3>3
  <2> QED BY <2>1, <2>2 DEF CancelInv
<1>3. ASSUME NEW q \in Runs, StartRun(q) \/ CancelRequest(q) PROVE CancelInv'
  <2>1. StageInv'
    BY <1>0, <1>3, StageOther
  <2>2. status' = status /\ op' = op
        /\ at' \in {[at EXCEPT ![WorkerOf(q)] = "load"], [at EXCEPT ![CancellerOf(q)] = "load"]}
    BY <1>3 DEF StartRun, CancelRequest, MoveTo
  <2> QED BY <1>0, <2>1, <2>2, ActorFacts
          DEF CancelInv, TypeOK, HasStatus, PastRunning, Settled, Started, Published
<1>4. ASSUME NEW q \in Runs, BudgetStop(q) \/ QualityGate(q) PROVE CancelInv'
  <2>1. StageInv'
    BY <1>0, <1>4, StageOther
  <2>2. /\ op' = op
        /\ at' \in {at, [at EXCEPT ![WorkerOf(q)] = "report"]}
        /\ at' # at => status'[q] = "blocked"
        /\ \A r \in Runs : status'[r] \in {status[r], "failed", "blocked"}
    BY <1>0, <1>4 DEF BudgetStop, QualityGate, MoveTo, TypeOK
  <2>3. ASSUME NEW r \in Runs
        PROVE  /\ at'[CancellerOf(r)] = at[CancellerOf(r)]
               /\ at'[WorkerOf(r)] = at[WorkerOf(r)] \/ status'[r] = "blocked"
    <3>1. WorkerOf(r) \in Actors /\ CancellerOf(r) \in Actors /\ CancellerOf(r) # WorkerOf(q)
      BY ActorFacts
    <3>2. r # q => WorkerOf(r) # WorkerOf(q)
      BY ActorFacts
    <3> QED BY <1>0, <2>2, <3>1, <3>2 DEF TypeOK
  <2> QED BY <2>1, <2>2, <2>3
          DEF CancelInv, HasStatus, PastRunning, Settled, TERMINAL_STATUSES, Absent
<1>5. CASE Restart
  <2>1. StageInv'
    BY <1>0, <1>5, StageOther
  <2>2. \A a \in Actors : at'[a] \in {"idle", "dead"}
    BY <1>5 DEF Restart
  <2> QED BY <2>1, <2>2, ActorFacts DEF CancelInv, HasStatus, PastRunning, Settled, Started,
             Published
<1> QED BY <1>1, <1>2, <1>3, <1>4, <1>5 DEF Next, Terminating

\* Spec => []CancelReturnsTerminal: however the steps of the worker and of the
\* cancel call interleave, a cancel call that returns leaves a terminal status.
THEOREM CancelTerminates == Spec => []CancelReturnsTerminal
<1>1. CancelInv => CancelReturnsTerminal
  BY DEF CancelInv, Settled, CancelReturnsTerminal, IsTerminal
<1> QED BY <1>1, CancelInvInit, CancelInvStep, PTL DEF Spec

-----------------------------------------------------------------------------
(* What the archive says is in the audit log.                              *)

\* The statuses that say a run has ended, other than by a crash.
Final == TERMINAL_STATUSES \ {"interrupted"}

\* No copy of the run, in memory, on its way to the file or in it, has ended.
Unfinished(r) ==
  /\ status[r] \notin Final /\ file[r] \notin Final
  /\ \A a \in Actors : index[a][r] \notin Final
  /\ \A a \in Actors : RunOf(a) = r => record[a] \notin Final

\* The status does not change between the first read of the worker and its last,
\* so that the fallback refuses what the store has refused.
Alone(r) ==
  /\ op[WorkerOf(r)] \in Requesting => read[WorkerOf(r)] = status[r]
  /\ op[WorkerOf(r)] = "refused" => ~Validate(status[r], goal[WorkerOf(r)])

Recorded(r) == Alone(r) /\ (r \in audit.terminated \/ Unfinished(r))
AuditInv == ~DirectWrites => \A r \in Runs : ~cancel_requested(r) => Recorded(r)

\* What a step leaves of the reads and of the records of the others.
LEMMA StepCopies ==
  ASSUME TypeOK, NEW a \in Actors, Step(a)
  PROVE  /\ \A b \in Actors \ {a} : read'[b] = read[b] /\ record'[b] = record[b]
         /\ audit.terminated \subseteq audit'.terminated
<1> USE DEF TypeOK, requestVars, snapshotVars, MoveTo
<1>1. CASE LoadIndex(a) \/ CleanZombies(a) \/ Publish(a) \/ Track(a)
  BY <1>1 DEF LoadIndex, CleanZombies, Publish, Track
<1>2. CASE Register(a)
  <2>1. audit' = [audit EXCEPT !.registered = @ \cup {RunOf(a)}] /\ UNCHANGED <<read, record>>
    BY <1>2 DEF Register
  <2> QED BY <2>1
<1>3. CASE Capture(a)
  <2>1. record' = [record EXCEPT ![a] = status[RunOf(a)]] /\ UNCHANGED <<read, audit>>
    BY <1>3 DEF Capture
  <2> QED BY <2>1
<1>4. CASE ReadStatus(a)
  <2>1. read' = [read EXCEPT ![a] = status[RunOf(a)]] /\ UNCHANGED <<record, audit>>
    BY <1>4 DEF ReadStatus
  <2> QED BY <2>1
<1>6. CASE BeginWrite(a) \/ EndWrite(a) \/ ValidateRequest(a) \/ Fallback(a)
  <2>1. UNCHANGED <<read, record, audit>>
    BY <1>6 DEF BeginWrite, EndWrite, ValidateRequest, Fallback
  <2> QED BY <2>1
<1>5. CASE Commit(a)
  <2>1. UNCHANGED <<read, record>> /\ audit' \in {audit, [audit EXCEPT !.terminated = @ \cup {RunOf(a)}]}
    BY <1>5 DEF Commit
  <2> QED BY <2>1
<1> QED BY <1>1, <1>2, <1>3, <1>4, <1>5, <1>6 DEF Step

\* An actor that steps has begun.
LEMMA IdleRests == ASSUME StageInv, NEW a \in Actors, Step(a) PROVE at[a] # "idle"
<1>1. CASE op[a] = ""
  BY <1>1 DEF Step, LoadIndex, CleanZombies, Register, Publish, Track, Capture, BeginWrite, EndWrite, ReadStatus,
              ValidateRequest, Commit, Fallback, At, Snapshots, Requests
<1>2. CASE op[a] # ""
  <2>1. op[a] \in Requesting \cup {"captured", "writing"}
    BY <1>2 DEF StageInv, TypeOK, Ops, Requesting
  <2> QED BY <2>1 DEF StageInv, Requests, Snapshots
<1> QED BY <1>1, <1>2

\* A step that ends no run keeps the copies unfinished: what it copies, from the
\* file to an index, from the run to a record, from there to an index and the
\* file, has not ended either.
LEMMA UnfinishedKept ==
  ASSUME StageInv, NEW a \in Actors, Step(a), NEW r \in Runs, Unfinished(r), status'[r] \notin Final
  PROVE  Unfinished(r)'
<1>0. TypeOK /\ RunOf(a) \in Runs
  BY ActorFacts DEF StageInv
<1> USE DEF TypeOK, requestVars, snapshotVars, fileVars, MoveTo, Unfinished
<1>1. CASE LoadIndex(a)
  <2>1. index' \in {[index EXCEPT ![a] = NoRecords], [index EXCEPT ![a] = file]} /\ UNCHANGED <<file, record>>
    BY <1>1 DEF LoadIndex
  <2>2. NoRecords[r] \notin Final
    BY DEF NoRecords, Absent, Final, TERMINAL_STATUSES
  <2>3. \A b \in Actors : index'[b][r] \notin Final
    BY <1>0, <2>1, <2>2
  <2> QED BY <2>1, <2>3
<1>2. CASE CleanZombies(a)
  <2>1. UNCHANGED <<file, record>>
    BY <1>2 DEF CleanZombies, Truncate
  <2>2. \A b \in Actors : index'[b][r] \in {index[b][r], "interrupted"}
    BY <1>0, <1>2 DEF CleanZombies
  <2> QED BY <2>1, <2>2 DEF Final
<1>3. CASE Register(a) \/ Publish(a) \/ Track(a)
  <2>1. UNCHANGED <<file, record, index>>
    BY <1>3 DEF Register, Publish, Track
  <2> QED BY <2>1
<1>4. CASE Capture(a)
  <2>1. record' = [record EXCEPT ![a] = status[RunOf(a)]] /\ UNCHANGED <<file, index>>
    BY <1>4 DEF Capture
  <2> QED BY <1>0, <2>1
<1>5. CASE BeginWrite(a)
  <2>1. index' = [index EXCEPT ![via[a]][RunOf(a)] = record[a]] /\ UNCHANGED <<file, record>>
    BY <1>5 DEF BeginWrite, Truncate
  <2>2. \A b \in Actors : index'[b][r] = index[b][r] \/ (r = RunOf(a) /\ index'[b][r] = record[a])
    BY <1>0, <2>1
  <2> QED BY <2>1, <2>2
<1>6. CASE EndWrite(a)
  <2>1. file' = index[via[a]] /\ UNCHANGED <<index, record>>
    BY <1>6 DEF EndWrite
  <2> QED BY <1>0, <2>1
<1>7. CASE ReadStatus(a) \/ ValidateRequest(a) \/ Commit(a) \/ Fallback(a)
  <2>1. UNCHANGED <<file, record, index>>
    BY <1>7 DEF ReadStatus, ValidateRequest, Commit, Fallback
  <2> QED BY <2>1
<1> QED BY <1>1, <1>2, <1>3, <1>4, <1>5, <1>6, <1>7 DEF Step

\* The worker alone: it ends the run by a commit, which the audit log has, and the
\* fallback after a refused commit changes nothing.
LEMMA WorkerRecords ==
  ASSUME StageInv, NEW r \in Runs, Step(WorkerOf(r)), Recorded(r) PROVE Recorded(r)'
<1> DEFINE w == WorkerOf(r)
<1>0. TypeOK /\ w \in Actors /\ RunOf(w) = r
  BY ActorFacts DEF StageInv
<1>1. audit.terminated \subseteq audit'.terminated /\ (Unfinished(r) /\ status'[r] \notin Final => Unfinished(r)')
  BY <1>0, StepCopies, UnfinishedKept
<1>2. Step(w) /\ Alone(r)
  BY DEF Recorded
<1> HIDE DEF w
<1> USE DEF TypeOK, requestVars, MoveTo, Done
<1>3. CASE LoadIndex(w) \/ CleanZombies(w) \/ Publish(w) \/ Track(w) \/ Capture(w) \/ BeginWrite(w) \/ EndWrite(w)
  <2>1. op'[w] \notin Requesting /\ status' = status
    BY <1>0, <1>3 DEF LoadIndex, CleanZombies, Publish, Track, Capture, BeginWrite, EndWrite, At, Requesting
  <2>2. Alone(r)'
    BY <2>1 DEF Alone, Requesting, w
  <2> QED BY <1>1, <2>1, <2>2 DEF Recorded, Unfinished
<1>4. CASE Register(w)
  <2>1. op' = op /\ op[w] = "" /\ status'[r] \in {status[r], "running"}
    BY <1>0, <1>4 DEF Register, At
  <2>2. Alone(r)'
    BY <2>1 DEF Alone, Requesting, w
  <2> QED BY <1>1, <2>1, <2>2 DEF Recorded, Unfinished, Final, TERMINAL_STATUSES
<1>5. CASE ReadStatus(w)
  <2>1. op'[w] = "read" /\ read'[w] = status[r] /\ status' = status
    BY <1>0, <1>5 DEF ReadStatus
  <2>2. Alone(r)'
    BY <2>1 DEF Alone, w
  <2> QED BY <1>1, <2>1, <2>2 DEF Recorded, Unfinished
<1>6. CASE ValidateRequest(w)
  <2>1. /\ op[w] = "read" /\ op'[w] = (IF Validate(status[r], goal[w]) THEN "allowed" ELSE "refused")
        /\ read' = read /\ status' = status /\ goal' = goal
    BY <1>0, <1>6 DEF ValidateRequest
  <2>2. Alone(r)'
    BY <1>2, <2>1 DEF Alone, Requesting, w
  <2> QED BY <1>1, <2>1, <2>2 DEF Recorded, Unfinished
<1>7. CASE Commit(w)
  <2>1. op'[w] = "" /\ status'[r] = goal[w]
    BY <1>0, <1>7 DEF Commit
  <2>2. goal[w] \in Final => r \in audit'.terminated
    BY <1>0, <1>7 DEF Commit, IsTerminal, Final
  <2>3. Alone(r)'
    BY <2>1 DEF Alone, Requesting, w
  <2> QED BY <1>1, <2>1, <2>2, <2>3 DEF Recorded
<1>8. CASE Fallback(w)
  <2>1. op[w] = "refused" /\ op'[w] = "" /\ status'[r] = FallbackStatus(w)
    BY <1>0, <1>8 DEF Fallback
  <2>2. read[w] = status[r] /\ ~Validate(status[r], goal[w])
    BY <1>2, <2>1 DEF Alone, Requesting, w
  <2>3. status'[r] = status[r]
    BY <1>0, <2>1, <2>2 DEF FallbackStatus
  <2>4. Alone(r)'
    BY <2>1 DEF Alone, Requesting, w
  <2> QED BY <1>1, <2>3, <2>4 DEF Recorded, Unfinished
<1> QED BY <1>2, <1>3, <1>4, <1>5, <1>6, <1>7, <1>8 DEF Step

\* The steps of the others.
LEMMA OthersRecord ==
  ASSUME StageInv, NEW a \in Actors, Step(a), NEW r \in Runs, RunOf(a) # r, Recorded(r) PROVE Recorded(r)'
<1> DEFINE w == WorkerOf(r)
<1>0. TypeOK /\ w \in Actors /\ RunOf(w) = r /\ w # a
  BY ActorFacts DEF StageInv
<1>1. audit.terminated \subseteq audit'.terminated /\ read'[w] = read[w]
  BY <1>0, StepCopies
<1>2. op'[w] = op[w] /\ goal'[w] = goal[w] /\ status'[r] = status[r]
  BY <1>0, StepFrame DEF Frame
<1>3. Unfinished(r) => Unfinished(r)'
  <2>1. Unfinished(r) => status'[r] \notin Final
    BY <1>2 DEF Unfinished
  <2> QED BY <2>1, UnfinishedKept
<1>4. Alone(r)'
  BY <1>1, <1>2 DEF Recorded, Alone
<1> QED BY <1>1, <1>3, <1>4 DEF Recorded

\* Nothing is archived at the start.
LEMMA AuditInvInit == Init => AuditInv
<1> SUFFICES ASSUME Init, NEW r \in Runs PROVE Recorded(r)
  BY DEF AuditInv
<1>1. Absent \notin Final
  BY DEF Absent, Final, TERMINAL_STATUSES
<1>2. /\ status = NoRecords /\ file = NoRecords /\ index = [a \in Actors |-> NoRecords]
      /\ record = [a \in Actors |-> Absent] /\ op = [a \in Actors |-> ""]
  BY Zenon DEF Init
<1>3. Alone(r)
  BY <1>2, ActorFacts DEF Alone, Requesting
<1>4. Unfinished(r)
  BY <1>1, <1>2 DEF Unfinished, NoRecords
<1> QED BY <1>3, <1>4 DEF Recorded

\* Every step keeps the invariant.
LEMMA AuditInvStep == StageInv /\ AuditInv /\ [Next]_vars => AuditInv'
<1> SUFFICES ASSUME StageInv, AuditInv, [Next]_vars, ~DirectWrites, NEW r \in Runs, ~cancel_requested(r)'
             PROVE  Recorded(r)'
  BY DEF AuditInv
<1>0. TypeOK /\ CancellerOf(r) \in Actors /\ WorkerOf(r) \in Actors
  BY ActorFacts DEF StageInv
<1>1. CASE UNCHANGED vars
  <2>1. Recorded(r)
    BY <1>1 DEF AuditInv, cancel_requested, vars
  <2> QED BY <1>1, <2>1 DEF Recorded, Alone, Unfinished, vars, requestVars, snapshotVars, fileVars
<1>2. ASSUME NEW a \in Actors, Step(a) PROVE Recorded(r)'
  <2>1. a # CancellerOf(r) /\ at[CancellerOf(r)] = "idle"
    <3>1. ASSUME a = CancellerOf(r) PROVE FALSE
      <4>1. at[a] # "idle" /\ Moves(a)
        BY <1>2, IdleRests, StepMoves
      <4>2. at'[a] # "idle"
        BY <4>1 DEF Moves, After
      <4> QED BY <3>1, <4>2 DEF cancel_requested
    <3> QED BY <1>0, <1>2, <3>1, StepFrame DEF Frame, cancel_requested
  <2>2. Recorded(r)
    BY <2>1 DEF AuditInv, cancel_requested
  <2>3. CASE RunOf(a) = r
    <3>1. a = WorkerOf(r)
      BY <2>1, <2>3, ActorFacts
    <3> QED BY <1>2, <2>2, <3>1, WorkerRecords
  <2>4. CASE RunOf(a) # r
    BY <1>2, <2>2, <2>4, OthersRecord
  <2> QED BY <2>3, <2>4
<1>3. ASSUME NEW q \in Runs, StartRun(q) \/ CancelRequest(q) PROVE Recorded(r)'
  <2>1. at[CancellerOf(r)] = "idle"
    <3>1. at' \in {[at EXCEPT ![WorkerOf(q)] = "load"], [at EXCEPT ![CancellerOf(q)] = "load"]}
      BY <1>3 DEF StartRun, CancelRequest, MoveTo
    <3> QED BY <1>0, <3>1 DEF cancel_requested, TypeOK
  <2>2. Recorded(r)
    BY <2>1 DEF AuditInv, cancel_requested
  <2>3. UNCHANGED <<op, read, goal, record, status, index, file, audit>>
    BY <1>3 DEF StartRun, CancelRequest, MoveTo, requestVars, snapshotVars, fileVars
  <2> QED BY <2>2, <2>3 DEF Recorded, Alone, Unfinished
<1>4. ASSUME NEW q \in Runs, BudgetStop(q) \/ QualityGate(q) PROVE FALSE
  BY <1>4 DEF BudgetStop, QualityGate
<1>5. CASE Restart
  <2>1. at[CancellerOf(r)] = "idle"
    BY <1>0, <1>5 DEF Restart, cancel_requested
  <2>2. r \in audit.terminated \/ Unfinished(r)
    BY <2>1 DEF AuditInv, cancel_requested, Recorded
  <2>3. /\ status' = NoRecords /\ index' = [a \in Actors |-> NoRecords] /\ op' = [a \in Actors |-> ""]
        /\ record' = [a \in Actors |-> Absent] /\ file' = file /\ audit' = audit
    BY Zenon, <1>5 DEF Restart, fileVars
  <2>4. Alone(r)'
    BY <1>0, <2>3 DEF Alone, Requesting
  <2>5. Absent \notin Final
    BY DEF Absent, Final, TERMINAL_STATUSES
  <2>6. Unfinished(r) => Unfinished(r)'
    BY <2>3, <2>5 DEF Unfinished, NoRecords
  <2> QED BY <2>2, <2>3, <2>4, <2>6 DEF Recorded
<1> QED BY <1>1, <1>2, <1>3, <1>4, <1>5 DEF Next, Terminating

\* Spec => []ArchivedMeansAudited: a run that nobody cancels has its entry in the
\* audit log before its terminal status can be read from the file, although every
\* supervisor writes its own copy of the whole index and the server may stop
\* between the commit, the snapshot and the write.
THEOREM ArchiveIsAudited == Spec => []ArchivedMeansAudited
<1>1. AuditInv => ArchivedMeansAudited
  BY DEF AuditInv, Recorded, Unfinished, Final, ArchivedMeansAudited
<1>2. CancelInv => StageInv
  BY DEF CancelInv
<1> QED BY <1>1, <1>2, CancelInvInit, CancelInvStep, AuditInvInit, AuditInvStep, PTL DEF Spec

-----------------------------------------------------------------------------
(* Ghosts of earlier processes.                                            *)

\* Before these stages are over a supervisor has not registered the run.
Early == {"idle", "load", "clean", "register"}

\* An index in which the runs of earlier processes are laid.
Laid(b) == \A r \in past : index[b][r] \notin ActiveStatuses

\* The workers of past runs are dead; the hook of a started run and the
\* supervisor that writes a snapshot have registered; and an index has ghosts
\* only between its loading and its cleaning.
GhostInv ==
  /\ \A r \in past : at[WorkerOf(r)] = "dead"
  /\ \A r \in Runs : at[WorkerOf(r)] \in Started => at[hook[r]] \notin Early
  /\ \A a \in Actors : op[a] \in {"captured", "writing"} =>
       IF at[a] = "clean" THEN op[a] = "writing" /\ via[a] = a ELSE at[via[a]] \notin Early
  /\ \A b \in Actors : Laid(b) \/ (at[b] = "clean" /\ op[b] = "")

\* A run of the past has left RUN_STORE, and nothing acts for it.
LEMMA PastFacts ==
  ASSUME StageInv, GhostInv, NEW a \in Actors, Step(a)
  PROVE  RunOf(a) \notin past /\ \A r \in past : r \notin run_store
<1>1. \A r \in past : r \in Runs /\ r \notin run_store
  BY DEF StageInv, GhostInv, TypeOK, Published
<1>2. ASSUME RunOf(a) \in past PROVE FALSE
  <2>1. at[WorkerOf(RunOf(a))] = "dead" /\ RunOf(a) \in Runs /\ RunOf(a) \notin run_store
    BY <1>1, <1>2 DEF GhostInv
  <2>2. at[CancellerOf(RunOf(a))] \in {"idle", "dead"}
    BY <2>1 DEF StageInv
  <2>3. at[a] \in {"idle", "dead"}
    BY <2>1, <2>2, ActorFacts
  <2>4. at[a] # "idle" /\ Moves(a)
    BY IdleRests, StepMoves
  <2> QED BY <2>3, <2>4 DEF Moves, Snapshots, Requests
<1> QED BY <1>1, <1>2

\* A step does not take an actor back behind its registration.
LEMMA NotEarlyAgain ==
  ASSUME StageInv, NEW a \in Actors, Step(a), NEW b \in Actors, at[b] \notin Early PROVE at'[b] \notin Early
<1>1. Frame(a) /\ Moves(a)
  BY StepFrame, StepMoves DEF StageInv
<1>2. CASE b = a
  BY <1>1, <1>2 DEF Moves, Early, After, Snapshots, Requests
<1>3. CASE b # a
  BY <1>1, <1>3 DEF Frame
<1> QED BY <1>2, <1>3

\* A step keeps the hooks registered.
LEMMA HooksStep ==
  ASSUME StageInv, GhostInv, NEW a \in Actors, Step(a), NEW r \in Runs, at'[WorkerOf(r)] \in Started
  PROVE  at'[hook'[r]] \notin Early
<1>0. TypeOK /\ RunOf(a) \in Runs /\ WorkerOf(r) \in Actors /\ hook[r] \in Actors
  BY ActorFacts DEF StageInv, TypeOK
<1>1. Frame(a) /\ Moves(a)
  BY StepFrame, StepMoves DEF StageInv
<1>2. CASE Register(a) \/ Track(a)
  <2>1. hook' = [hook EXCEPT ![RunOf(a)] = a] /\ at[a] \in {"register", "track"}
    BY <1>2 DEF Register, Track, At
  <2>2. at'[a] \notin Early
    BY <1>1, <2>1 DEF Moves, Early, Snapshots, Requests, After
  <2>3. CASE RunOf(a) = r
    BY <1>0, <2>1, <2>2, <2>3 DEF TypeOK
  <2>4. CASE RunOf(a) # r
    <3>1. hook'[r] = hook[r] /\ at'[WorkerOf(r)] = at[WorkerOf(r)]
      BY <1>0, <1>1, <2>1, <2>4, ActorFacts DEF TypeOK, Frame
    <3> QED BY <1>0, <3>1, NotEarlyAgain DEF GhostInv
  <2> QED BY <2>3, <2>4
<1>3. CASE ~(Register(a) \/ Track(a))
  <2>1. hook' = hook
    BY <1>3 DEF Step, LoadIndex, CleanZombies, Publish, Capture, BeginWrite, EndWrite, ReadStatus,
                ValidateRequest, Commit, Fallback
  <2>2. at[a] \notin {"register", "track"} \/ at'[a] = at[a] \/ a # WorkerOf(r)
    BY <1>3, <1>0 DEF Step, LoadIndex, CleanZombies, Publish, Capture, BeginWrite, EndWrite, ReadStatus,
                ValidateRequest, Commit, Fallback, At, StageInv, Snapshots, Requests, Requesting
  <2>3. at[WorkerOf(r)] \in Started
    <3>0. at[WorkerOf(r)] \in WorkerStages
      BY DEF StageInv
    <3>1. CASE a = WorkerOf(r)
      BY <1>1, <2>2, <3>0, <3>1 DEF Moves, Started, Published, Snapshots, Requests, WorkerStages
    <3>2. CASE a # WorkerOf(r)
      BY <1>0, <1>1, <3>2 DEF Frame
    <3> QED BY <3>1, <3>2
  <2> QED BY <1>0, <2>1, <2>3, NotEarlyAgain DEF GhostInv
<1> QED BY <1>2, <1>3

\* A step keeps the writers of snapshots registered: a hook is captured only of a
\* run that is started.
LEMMA WritersStep ==
  ASSUME StageInv, GhostInv, NEW a \in Actors, Step(a), NEW b \in Actors, op'[b] \in {"captured", "writing"}
  PROVE  IF at'[b] = "clean" THEN op'[b] = "writing" /\ via'[b] = b ELSE at'[via'[b]] \notin Early
<1> DEFINE Writer == IF at[b] = "clean" THEN op[b] = "writing" /\ via[b] = b ELSE at[via[b]] \notin Early
<1>0. TypeOK /\ RunOf(a) \in Runs /\ hook[RunOf(a)] \in Actors /\ via[b] \in Actors /\ Frame(a) /\ Moves(a)
  BY ActorFacts, StepFrame, StepMoves DEF StageInv, TypeOK
<1>1. op[b] \in {"captured", "writing"} => Writer
  BY DEF GhostInv
<1>2. CASE Capture(a) /\ b = a
  <2>1. via'[a] = hook[RunOf(a)] /\ at' = at /\ at[a] \in Snapshots
    BY <1>0, <1>2 DEF Capture, TypeOK
  <2>2. at[WorkerOf(RunOf(a))] \in Started
    <3>1. CASE a = WorkerOf(RunOf(a))
      <4>1. at[a] \in WorkerStages
        BY <1>0, <3>1 DEF StageInv
      <4> QED BY <2>1, <3>1, <4>1 DEF WorkerStages, Snapshots, Started, Published
    <3>2. CASE a = CancellerOf(RunOf(a))
      <4>1. RunOf(a) \in run_store
        BY <1>0, <2>1, <3>2 DEF StageInv, Snapshots
      <4> QED BY <4>1 DEF StageInv, Started
    <3> QED BY <3>1, <3>2, ActorFacts
  <2>3. at[hook[RunOf(a)]] \notin Early
    BY <1>0, <2>2 DEF GhostInv
  <2> QED BY <1>2, <2>1, <2>3 DEF Snapshots
<1>3. CASE CleanZombies(a) /\ b = a
  <2>1. at[a] = "clean"
    BY <1>3 DEF CleanZombies, At
  <2>2. CASE \E r \in Runs : Zombie(a, r)
    BY <1>0, <1>3, <2>1, <2>2 DEF CleanZombies, TypeOK
  <2>3. CASE ~ \E r \in Runs : Zombie(a, r)
    <3>1. op' = op /\ op[a] = ""
      BY <1>3, <2>3 DEF CleanZombies, MoveTo, At
    <3> QED BY <1>3, <3>1
  <2> QED BY <2>2, <2>3
<1>4. CASE BeginWrite(a) /\ b = a
  <2>1. at' = at /\ via' = via /\ op[a] = "captured"
    BY <1>4 DEF BeginWrite, snapshotVars
  <2> QED BY <1>1, <1>4, <2>1
<1>5. CASE b = a /\ ~(Capture(a) \/ CleanZombies(a) \/ BeginWrite(a))
  <2>1. op'[a] \notin {"captured", "writing"}
    BY <1>0, <1>5 DEF Step, LoadIndex, Register, Publish, Track, EndWrite, ReadStatus, ValidateRequest, Commit,
              Fallback, MoveTo, Done, At, TypeOK
  <2> QED BY <1>5, <2>1
<1>6. CASE b # a
  <2>1. at'[b] = at[b] /\ op'[b] = op[b]
    BY <1>0, <1>6 DEF Frame
  <2>2. via'[b] = via[b]
    <3>1. via' = via \/ \E x : via' = [via EXCEPT ![a] = x]
      BY DEF Step, LoadIndex, CleanZombies, Register, Publish, Track, Capture, BeginWrite, EndWrite, ReadStatus,
             ValidateRequest, Commit, Fallback, MoveTo, snapshotVars
    <3> QED BY <1>0, <1>6, <3>1 DEF TypeOK
  <2>3. at[via[b]] \notin Early => at'[via[b]] \notin Early
    BY <1>0, NotEarlyAgain
  <2> QED BY <1>1, <2>1, <2>2, <2>3
<1> QED BY <1>2, <1>3, <1>4, <1>5, <1>6

\* A step keeps the ghosts laid: what enters an index after its cleaning is the
\* record of a run of this process.
LEMMA LaidStep ==
  ASSUME StageInv, GhostInv, NEW a \in Actors, Step(a), past' = past, NEW b \in Actors
  PROVE  Laid(b)' \/ (at'[b] = "clean" /\ op'[b] = "")
<1>0. TypeOK /\ RunOf(a) \in Runs /\ Frame(a) /\ past \subseteq Runs
  BY ActorFacts, StepFrame DEF StageInv, TypeOK
<1>1. Laid(b) \/ (at[b] = "clean" /\ op[b] = "")
  BY DEF GhostInv
<1>2. RunOf(a) \notin past /\ \A r \in past : r \notin run_store
  BY PastFacts
<1>3. CASE LoadIndex(a) /\ b = a
  BY <1>0, <1>3 DEF LoadIndex, MoveTo, At, TypeOK
<1>4. CASE CleanZombies(a) /\ b = a
  <2>1. \A r \in Runs : index'[a][r] = IF Zombie(a, r) THEN "interrupted" ELSE index[a][r]
    BY <1>0, <1>4 DEF CleanZombies, TypeOK
  <2>2. \A r \in past : index'[a][r] \notin ActiveStatuses
    BY <1>0, <1>2, <2>1 DEF Zombie, ActiveStatuses
  <2> QED BY <1>4, <2>2 DEF Laid
<1>5. CASE BeginWrite(a)
  <2>1. index' = [index EXCEPT ![via[a]][RunOf(a)] = record[a]] /\ op[a] = "captured" /\ at' = at
    BY <1>5 DEF BeginWrite
  <2>2. \A r \in past : index'[b][r] = index[b][r]
    BY <1>0, <1>2, <2>1 DEF TypeOK
  <2>3. CASE Laid(b)
    BY <2>2, <2>3 DEF Laid
  <2>4. CASE b # a
    BY <1>0, <1>1, <2>1, <2>3, <2>4 DEF Frame
  <2>5. CASE b = a
    BY <1>1, <2>1, <2>3, <2>5
  <2> QED BY <2>4, <2>5
<1>6. CASE ~BeginWrite(a) /\ (b # a \/ ~(LoadIndex(a) \/ CleanZombies(a)))
  <2>1. index'[b] = index[b]
    <3>1. CASE LoadIndex(a) \/ CleanZombies(a)
      BY <1>0, <1>6, <3>1 DEF LoadIndex, CleanZombies, TypeOK
    <3>2. CASE ~(LoadIndex(a) \/ CleanZombies(a))
      <4>1. index' = index
        BY <1>6, <3>2 DEF Step, Register, Publish, Track, Capture, EndWrite, ReadStatus, ValidateRequest, Commit, Fallback
      <4> QED BY <4>1
    <3> QED BY <3>1, <3>2
  <2>2. CASE Laid(b)
    BY <2>1, <2>2 DEF Laid
  <2>3. CASE b # a
    BY <1>0, <1>1, <2>2, <2>3 DEF Frame
  <2>4. CASE b = a /\ at[a] = "clean" /\ op[a] = ""
    <3>1. FALSE
      BY <1>6, <2>4 DEF Step, Register, Publish, Track, Capture, EndWrite, ReadStatus, ValidateRequest, Commit,
                Fallback, At, Snapshots, Requests
    <3> QED BY <3>1
  <2> QED BY <1>1, <2>2, <2>3, <2>4
<1> QED BY <1>3, <1>4, <1>5, <1>6

\* No ghosts at the start.
LEMMA GhostInvInit == Init => GhostInv
<1> SUFFICES ASSUME Init PROVE GhostInv
  OBVIOUS
<1>1. past = {} /\ at = [a \in Actors |-> "idle"] /\ op = [a \in Actors |-> ""]
  BY Zenon DEF Init
<1> QED BY <1>1, ActorFacts DEF GhostInv, Started, Published, Laid

\* Every step keeps the invariant.
LEMMA GhostInvStep == StageInv /\ GhostInv /\ [Next]_vars => GhostInv'
<1> SUFFICES ASSUME StageInv, GhostInv, [Next]_vars PROVE GhostInv'
  OBVIOUS
<1>0. TypeOK
  BY DEF StageInv
<1>1. CASE UNCHANGED vars
  BY <1>1 DEF GhostInv, Laid, vars, snapshotVars, serverVars
<1>2. ASSUME NEW a \in Actors, Step(a) PROVE GhostInv'
  <2>1. past' = past
    BY <1>2 DEF Step, LoadIndex, CleanZombies, Register, Publish, Track, Capture, BeginWrite, EndWrite, ReadStatus,
                ValidateRequest, Commit, Fallback, serverVars
  <2>2. ASSUME NEW r \in past PROVE at'[WorkerOf(r)] = "dead"
    <3>1. RunOf(a) \notin past /\ r \in Runs
      BY <1>0, <1>2, PastFacts DEF TypeOK
    <3>2. WorkerOf(r) \in Actors /\ WorkerOf(r) # a
      BY <3>1, ActorFacts
    <3> QED BY <1>0, <1>2, <3>2, StepFrame DEF Frame, GhostInv
  <2> QED BY <1>2, <2>1, <2>2, HooksStep, WritersStep, LaidStep DEF GhostInv
<1>3. ASSUME NEW q \in Runs, StartRun(q) \/ CancelRequest(q) \/ QualityGate(q) PROVE GhostInv'
  <2>1. UNCHANGED <<op, via, hook, index, past>>
    BY <1>3 DEF StartRun, CancelRequest, QualityGate, MoveTo, snapshotVars, serverVars
  <2>2. PICK c \in Actors : /\ c \in {WorkerOf(q), CancellerOf(q)} /\ op[c] = ""
                            /\ \/ at[c] = "idle" /\ at' = [at EXCEPT ![c] = "load"]
                               \/ at[c] = "done" /\ at' = [at EXCEPT ![c] = "report"]
    BY <1>3, ActorFacts DEF StartRun, CancelRequest, QualityGate, MoveTo, At
  <2>3. \A b \in Actors : at[b] \notin Early => at'[b] \notin Early
    BY <1>0, <2>2 DEF TypeOK, Early
  <2>4. \A b \in Actors : at'[b] = at[b] \/ (op[b] = "" /\ at[b] \in {"idle", "done"})
    BY <1>0, <2>2 DEF TypeOK
  <2>5. \A r \in Runs : at'[WorkerOf(r)] \in Started => at[WorkerOf(r)] \in Started
    BY <1>0, <2>2, ActorFacts DEF TypeOK, Started, Published
  <2>6. \A r \in past : at'[WorkerOf(r)] = "dead"
    <3>1. \A r \in past : WorkerOf(r) \in Actors /\ at[WorkerOf(r)] = "dead"
      BY <1>0, ActorFacts DEF GhostInv, TypeOK
    <3> QED BY <2>4, <3>1
  <2>7. \A r \in Runs : hook[r] \in Actors
    BY <1>0 DEF TypeOK
  <2>8. \A r \in Runs : at'[WorkerOf(r)] \in Started => at'[hook'[r]] \notin Early
    BY <2>1, <2>3, <2>5, <2>7 DEF GhostInv
  <2>9. ASSUME NEW b \in Actors, op'[b] \in {"captured", "writing"}
        PROVE  IF at'[b] = "clean" THEN op'[b] = "writing" /\ via'[b] = b ELSE at'[via'[b]] \notin Early
    <3>1. at'[b] = at[b] /\ op[b] \in {"captured", "writing"} /\ via[b] \in Actors
      BY <1>0, <2>1, <2>4, <2>9 DEF TypeOK
    <3> QED BY <2>1, <2>3, <3>1 DEF GhostInv
  <2>10. ASSUME NEW b \in Actors PROVE Laid(b)' \/ (at'[b] = "clean" /\ op'[b] = "")
    <3>1. Laid(b) => Laid(b)'
      BY <2>1 DEF Laid
    <3>2. at[b] = "clean" => at'[b] = "clean"
      BY <2>4
    <3> QED BY <2>1, <3>1, <3>2 DEF GhostInv
  <2> QED BY <2>1, <2>6, <2>8, <2>9, <2>10 DEF GhostInv
<1>4. ASSUME NEW q \in Runs, BudgetStop(q) PROVE GhostInv'
  <2>1. UNCHANGED <<at, op, via, hook, index, past>>
    BY <1>4 DEF BudgetStop, snapshotVars, serverVars
  <2> QED BY <2>1 DEF GhostInv, Laid
<1>5. CASE Restart
  <2>1. /\ past' = past \cup {r \in Runs : at[WorkerOf(r)] # "idle"}
        /\ at' = [a \in Actors |-> IF at[a] = "idle" THEN "idle" ELSE "dead"]
        /\ op' = [a \in Actors |-> ""] /\ index' = [a \in Actors |-> NoRecords]
    BY Zenon, <1>5 DEF Restart
  <2>2. \A r \in past' : at'[WorkerOf(r)] = "dead"
    <3>1. \A r \in past' : r \in Runs /\ at[WorkerOf(r)] # "idle"
      BY <1>0, <2>1 DEF GhostInv, TypeOK
    <3> QED BY <2>1, <3>1, ActorFacts
  <2>3. \A r \in Runs : at'[WorkerOf(r)] \notin Started
    BY <2>1, ActorFacts DEF Started, Published
  <2>4. \A a \in Actors : op'[a] = ""
    BY <2>1
  <2>5. \A b \in Actors : Laid(b)'
    <3>1. \A r \in past' : r \in Runs
      BY <1>0, <2>1 DEF TypeOK
    <3>2. Absent \notin ActiveStatuses
      BY DEF Absent, ActiveStatuses
    <3> QED BY <2>1, <3>1, <3>2 DEF Laid, NoRecords
  <2> QED BY <2>2, <2>3, <2>4, <2>5 DEF GhostInv
<1> QED BY <1>1, <1>2, <1>3, <1>4, <1>5 DEF Next, Terminating

\* What is written to the file has no ghosts.
LEMMA WritesLaid ==
  ASSUME StageInv, GhostInv, [Next]_vars, NEW r \in past, file'[r] \in ActiveStatuses PROVE file' = file
<1>0. TypeOK
  BY DEF StageInv
<1>1. ASSUME NEW a \in Actors, EndWrite(a) PROVE file' = file
  <2>1. op[a] = "writing" /\ file' = index[via[a]] /\ via[a] \in Actors
    BY <1>0, <1>1 DEF EndWrite, TypeOK
  <2>2. IF at[a] = "clean" THEN via[a] = a ELSE at[via[a]] \notin Early
    BY <2>1 DEF GhostInv
  <2>3. Laid(via[a])
    <3>1. ~(at[via[a]] = "clean" /\ op[via[a]] = "")
      BY <2>1, <2>2 DEF Early
    <3> QED BY <2>1, <3>1 DEF GhostInv
  <2> QED BY <2>1, <2>3 DEF Laid
<1>2. ASSUME NEW a \in Actors, Step(a), ~EndWrite(a) PROVE file' = file
  BY <1>2 DEF Step, LoadIndex, CleanZombies, Register, Publish, Track, Capture, BeginWrite, ReadStatus,
              ValidateRequest, Commit, Fallback, Truncate, fileVars
<1>3. ASSUME NEW q \in Runs, StartRun(q) \/ BudgetStop(q) \/ QualityGate(q) \/ CancelRequest(q) PROVE file' = file
  BY <1>3 DEF StartRun, BudgetStop, QualityGate, CancelRequest, fileVars
<1>4. CASE Restart \/ UNCHANGED vars
  BY <1>4 DEF Restart, vars, fileVars
<1> QED BY <1>1, <1>2, <1>3, <1>4 DEF Next, Terminating

\* Spec => GhostsStayDead: a run of an earlier process that the file has as ended
\* is never written there as active again, by any supervisor with any stale copy
\* of the index and after any number of restarts.
THEOREM GhostsAreLaid == Spec => GhostsStayDead
<1>1. CancelInv /\ GhostInv /\ [Next]_vars
        => [\A r \in past : file[r] \notin ActiveStatuses => file'[r] \notin ActiveStatuses]_vars
  BY WritesLaid DEF CancelInv
<1>2. CancelInv => StageInv
  BY DEF CancelInv
<1> QED BY <1>1, <1>2, CancelInvInit, CancelInvStep, GhostInvInit, GhostInvStep, PTL DEF Spec, GhostsStayDead
=============================================================================
