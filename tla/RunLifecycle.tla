---------------------------- MODULE RunLifecycle ----------------------------
(***************************************************************************)
(* How the supervised runs of one server process share their bookkeeping:  *)
(* the status of every run object, the in-memory RUN_STORE, the file       *)
(* supervisor_runs.json and the audit log supervisor_audit.jsonl.          *)
(*                                                                         *)
(* RankLoop follows one run and takes a status request as one step.  Here  *)
(* the request is taken apart (two reads, a validation outside the lock, a *)
(* commit or a fallback), and so is the writing of a snapshot; what the    *)
(* run does in between is one step.                                        *)
(*                                                                         *)
(* An actor is a thread with a SelfRepairSupervisor of its own, and so     *)
(* with its own run store, its own locks and its own copy of the index of  *)
(* runs: the worker of a run, and the API call that cancels it.  (A second *)
(* call finds the status terminal and returns: CancelReturnsTerminal.)     *)
(*                                                                         *)
(* A definition named X_Y that stands before X is a deliberately wrong     *)
(* variant of X, which the properties must notice in the place of X.       *)
(***************************************************************************)
EXTENDS Naturals, RunStatus

CONSTANTS
  Runs,          \* the identifiers of the runs
  Cancellable,   \* the runs that the API may be asked to cancel
  DirectWrites,  \* budget guard and quality gate, which bypass the run store
  MaxRestarts    \* bound on the restarts of the server

ASSUME RunsAssumption ==
  Cancellable \subseteq Runs /\ DirectWrites \in BOOLEAN /\ MaxRestarts \in Nat

VARIABLES
  status,     \* run.status of the run objects of this process, or "none"
  run_store,  \* the keys of RUN_STORE
  at,         \* the stage of each actor
  op,         \* how far the snapshot or the request of that stage is
  read,       \* the status that transition_run_status read first
  goal,       \* the status that it is to set
  record,     \* the snapshot being written ...
  via,        \* ... and the supervisor that writes it
  hook,       \* whose supervisor the update_hook of a run belongs to
  index,      \* _runs_index of each actor's supervisor
  file,       \* the statuses in supervisor_runs.json
  torn,       \* the file is truncated or garbled: it does not parse
  audit,      \* which runs the audit log has as registered and as terminated
  past,       \* the runs of earlier processes
  restarts

requestVars  == <<read, goal>>
snapshotVars == <<record, via>>
fileVars     == <<file, torn>>
serverVars   == <<past, restarts>>
vars == <<status, run_store, at, op, requestVars, snapshotVars, hook, index, fileVars, audit,
          serverVars>>

Actors == {"run", "cancel"} \X Runs
RunOf(a) == a[2]
WorkerOf(r) == <<"run", r>>
CancellerOf(r) == <<"cancel", r>>

\* A worker: the constructor (load, clean), start_supervised_rank_async (register,
\* queued, publish), the start of run (track), an event of the run, its final
\* status request and report.
\* A cancel call: the constructor, register, then two requests, each reported.
Stages == {"idle", "load", "clean", "register", "queued", "publish", "track", "event",
           "finish", "report", "cancelling", "noted", "cancelled", "reported", "done", "dead"}

\* The stages that write a snapshot, and those that request a status.
Snapshots == {"queued", "event", "report", "noted", "reported"}
Requests == {"finish", "cancelling", "cancelled"}

After_Unfinished(stage) ==
  IF stage = "clean" THEN "register"
  ELSE IF stage = "queued" THEN "publish"
  ELSE IF stage = "event" THEN "report"
  ELSE IF stage = "cancelling" THEN "noted"
  ELSE IF stage = "noted" THEN "cancelled"
  ELSE IF stage = "cancelled" THEN "reported"
  ELSE "done"
After(stage) ==
  IF stage = "clean" THEN "register"
  ELSE IF stage = "queued" THEN "publish"
  ELSE IF stage = "event" THEN "finish"
  ELSE IF stage = "finish" THEN "report"
  ELSE IF stage = "cancelling" THEN "noted"
  ELSE IF stage = "noted" THEN "cancelled"
  ELSE IF stage = "cancelled" THEN "reported"
  ELSE "done"

\* What a run object or a record of a run has: a status, or there is none.
Absent == "none"
Records == Statuses \cup {Absent}
NoRecords == [r \in Runs |-> Absent]

Ops == {"", "captured", "writing", "read", "allowed", "refused"}

cancel_requested(r) == at[CancellerOf(r)] # "idle"

Init ==
  /\ status = NoRecords
  /\ run_store = {}
  /\ at = [a \in Actors |-> "idle"] /\ op = [a \in Actors |-> ""]
  /\ read = [a \in Actors |-> Absent] /\ goal = [a \in Actors |-> Absent]
  /\ record = [a \in Actors |-> Absent] /\ via = [a \in Actors |-> a]
  /\ hook = [r \in Runs |-> WorkerOf(r)]
  /\ index = [a \in Actors |-> NoRecords]
  /\ file = NoRecords
  /\ torn = FALSE
  /\ audit = [registered |-> {}, terminated |-> {}]
  /\ past = {}
  /\ restarts = 0

\* Actor a is at a stage with nothing begun, and moves on.
At(a, stage) == at[a] = stage /\ op[a] = ""
MoveTo(a, stage) ==
  at' = [at EXCEPT ![a] = stage] /\ UNCHANGED <<op, requestVars, snapshotVars>>

\* Actor a has finished the snapshot or the request of its stage.
Done(a) ==
  /\ at' = [at EXCEPT ![a] = After(at[a])]
  /\ op' = [op EXCEPT ![a] = ""]

-----------------------------------------------------------------------------
(* The constructor of SelfRepairSupervisor, and start_supervised_rank_async. *)

\* A run is started by the API, by the watchdog or by the worker of its parent.
StartRun(r) ==
  /\ At(WorkerOf(r), "idle") /\ r \notin past
  /\ MoveTo(WorkerOf(r), "load")
  /\ UNCHANGED <<status, run_store, hook, index, fileVars, audit, serverVars>>

\* load_runs_index: a file that does not parse counts as empty.
LoadIndex(a) ==
  /\ At(a, "load")
  /\ index' = [index EXCEPT ![a] = IF torn THEN NoRecords ELSE file]
  /\ MoveTo(a, "clean")
  /\ UNCHANGED <<status, run_store, hook, fileVars, audit, serverVars>>

\* persist_runs_index truncates the file and then writes it.
Truncate == torn' = TRUE /\ UNCHANGED file

\* _startup_cleanup_zombie_runs: records say nothing of a process, so a run is
\* taken for dead when RUN_STORE does not have it.
Zombie(a, r) == index[a][r] \in ActiveStatuses /\ r \notin run_store

CleanZombies_Copy(a) ==
  /\ At(a, "clean")
  /\ file' = [r \in Runs |-> IF Zombie(a, r) THEN "interrupted" ELSE index[a][r]]
  /\ torn' = FALSE
  /\ MoveTo(a, "register")
  /\ UNCHANGED <<status, run_store, hook, index, audit, serverVars>>
CleanZombies(a) ==
  /\ At(a, "clean")
  /\ index' = [index EXCEPT ![a] =
                 [r \in Runs |-> IF Zombie(a, r) THEN "interrupted" ELSE index[a][r]]]
  /\ IF \E r \in Runs : Zombie(a, r)
     THEN /\ op' = [op EXCEPT ![a] = "writing"]
          /\ via' = [via EXCEPT ![a] = a]
          /\ Truncate
          /\ UNCHANGED <<at, requestVars, record>>
     ELSE MoveTo(a, "register") /\ UNCHANGED fileVars
  /\ UNCHANGED <<status, run_store, hook, audit, serverVars>>

\* configure_run_tracking: the store registers the run and the hook of the run
\* is pointed to this supervisor, also by a cancel call.
Register_Queued(a) ==
  /\ At(a, "register")
  /\ audit' = [audit EXCEPT !.registered = @ \cup {RunOf(a)}]
  /\ hook' = [hook EXCEPT ![RunOf(a)] = a]
  /\ status' = [status EXCEPT ![RunOf(a)] = "queued"]
  /\ MoveTo(a, IF a = WorkerOf(RunOf(a)) THEN "queued" ELSE "cancelling")
  /\ UNCHANGED <<run_store, index, fileVars, serverVars>>
Register(a) ==
  /\ At(a, "register")
  /\ audit' = [audit EXCEPT !.registered = @ \cup {RunOf(a)}]
  /\ hook' = [hook EXCEPT ![RunOf(a)] = a]
  /\ IF a = WorkerOf(RunOf(a))
     THEN status' = [status EXCEPT ![RunOf(a)] = "running"] /\ MoveTo(a, "queued")
     ELSE UNCHANGED status /\ MoveTo(a, "cancelling")
  /\ UNCHANGED <<run_store, index, fileVars, serverVars>>

\* The run enters RUN_STORE only after its first snapshot was written.
Publish(a) ==
  /\ At(a, "publish")
  /\ run_store' = run_store \cup {RunOf(a)}
  /\ MoveTo(a, "track")
  /\ UNCHANGED <<status, hook, index, fileVars, audit, serverVars>>

\* The worker thread starts run, which takes the hook back from a cancel call
\* that came first; the run is registered in this store already.
Track(a) ==
  /\ At(a, "track")
  /\ hook' = [hook EXCEPT ![RunOf(a)] = a]
  /\ MoveTo(a, "event")
  /\ UNCHANGED <<status, run_store, index, fileVars, audit, serverVars>>

-----------------------------------------------------------------------------
(* persist_run_snapshot, called through the update_hook of the run.        *)

\* The record is made from the run before the lock is taken.
Capture(a) ==
  /\ at[a] \in Snapshots /\ op[a] = ""
  /\ op' = [op EXCEPT ![a] = "captured"]
  /\ record' = [record EXCEPT ![a] = status[RunOf(a)]]
  /\ via' = [via EXCEPT ![a] = hook[RunOf(a)]]
  /\ UNCHANGED <<at, requestVars, status, run_store, hook, index, fileVars, audit, serverVars>>

\* Under _runs_lock of that supervisor the record enters its index ...
BeginWrite(a) ==
  /\ op[a] = "captured"
  /\ \A b \in Actors : op[b] = "writing" => via[b] # via[a]
  /\ index' = [index EXCEPT ![via[a]][RunOf(a)] = record[a]]
  /\ Truncate
  /\ op' = [op EXCEPT ![a] = "writing"]
  /\ UNCHANGED <<at, requestVars, snapshotVars, status, run_store, hook, audit, serverVars>>

\* ... and the whole index is written.  Another supervisor that is writing at
\* the same time may leave a mixture that does not parse.
EndWrite(a) ==
  /\ op[a] = "writing"
  /\ file' = index[via[a]]
  /\ torn' \in {FALSE, \E b \in Actors \ {a} : op[b] = "writing"}
  /\ Done(a)
  /\ UNCHANGED <<requestVars, snapshotVars, status, run_store, hook, index, audit, serverVars>>

-----------------------------------------------------------------------------
(* transition_run_status and SupervisorRunStore.transition.                *)

\* What a stage asks for.  The worker asks for "cancelled" when it has seen the
\* flag, and it may have looked for the last time before the flag was set.
Goals_Cancelling(a) ==
  IF at[a] = "finish" THEN {"completed", "blocked"} ELSE {"cancelling"}
Goals(a) ==
  IF at[a] = "finish"
  THEN {"completed", "blocked"} \cup (IF cancel_requested(RunOf(a)) THEN {"cancelled"} ELSE {})
  ELSE {at[a]}

\* transition_run_status reads the status ...
ReadStatus(a) ==
  /\ at[a] \in Requests /\ op[a] = ""
  /\ \E g \in Goals(a) :
       goal' = [goal EXCEPT ![a] = g]
  /\ read' = [read EXCEPT ![a] = status[RunOf(a)]]
  /\ op' = [op EXCEPT ![a] = "read"]
  /\ UNCHANGED <<at, snapshotVars, status, run_store, hook, index, fileVars,
                 audit, serverVars>>

\* ... the store reads it again and validates the request, without its lock ...
ValidateRequest(a) ==
  /\ op[a] = "read"
  /\ op' = [op EXCEPT ![a] = IF Validate(status[RunOf(a)], goal[a]) THEN "allowed"
                                                                 ELSE "refused"]
  /\ UNCHANGED <<at, requestVars, snapshotVars, status, run_store, hook, index, fileVars,
                 audit, serverVars>>

\* ... and commits it, with an entry in the audit log ...
Commit_NoAudit(a) ==
  /\ op[a] = "allowed"
  /\ status' = [status EXCEPT ![RunOf(a)] = goal[a]]
  /\ Done(a)
  /\ UNCHANGED <<requestVars, snapshotVars, run_store, hook, index, fileVars, audit, serverVars>>
Commit(a) ==
  /\ op[a] = "allowed"
  /\ status' = [status EXCEPT ![RunOf(a)] = goal[a]]
  /\ audit' = IF IsTerminal(goal[a])
              THEN [audit EXCEPT !.terminated = @ \cup {RunOf(a)}] ELSE audit
  /\ Done(a)
  /\ UNCHANGED <<requestVars, snapshotVars, run_store, hook, index, fileVars, serverVars>>

\* ... or raises, and the fallback decides with the first read, without an entry.
FallbackStatus(a) ==
  IF Validate(read[a], goal[a]) THEN goal[a] ELSE status[RunOf(a)]
Fallback(a) ==
  /\ op[a] = "refused"
  /\ status' = [status EXCEPT ![RunOf(a)] = FallbackStatus(a)]
  /\ Done(a)
  /\ UNCHANGED <<requestVars, snapshotVars, run_store, hook, index, fileVars, audit, serverVars>>

-----------------------------------------------------------------------------
(* Writes that bypass the store, the cancel call and the server.           *)

\* The budget guard of repair_cycle, before the worker asks for "blocked".
BudgetStop(r) ==
  /\ DirectWrites
  /\ At(WorkerOf(r), "finish")
  /\ status[r] # "failed"
  /\ status' = [status EXCEPT ![r] = "failed"]
  /\ UNCHANGED <<run_store, at, op, requestVars, snapshotVars, hook, index, fileVars, audit,
                 serverVars>>

\* mbop_post_run with an enforced quality gate, after the run; it reports too.
QualityGate(r) ==
  /\ DirectWrites
  /\ At(WorkerOf(r), "done")
  /\ status[r] = "completed"
  /\ status' = [status EXCEPT ![r] = "blocked"]
  /\ MoveTo(WorkerOf(r), "report")
  /\ UNCHANGED <<run_store, hook, index, fileVars, audit, serverVars>>

\* cancel_supervised_run looks the run up, reads its status and sets the flag.
\* The calls are handled by the event loop, one at a time.
CancelRequest(r) ==
  /\ r \in Cancellable \cap run_store
  /\ At(CancellerOf(r), "idle")
  /\ status[r] \notin TERMINAL_RUN_STATUSES
  /\ \A q \in Runs : at[CancellerOf(q)] \in {"idle", "done", "dead"}
  /\ MoveTo(CancellerOf(r), "load")
  /\ UNCHANGED <<status, run_store, hook, index, fileVars, audit, serverVars>>

\* The server stops, at any point, and comes up again: the files remain.
Restart ==
  /\ restarts < MaxRestarts
  /\ restarts' = restarts + 1
  /\ past' = past \cup {r \in Runs : at[WorkerOf(r)] # "idle"}
  /\ at' = [a \in Actors |-> IF at[a] = "idle" THEN "idle" ELSE "dead"]
  /\ op' = [a \in Actors |-> ""]
  /\ read' = [a \in Actors |-> Absent] /\ goal' = [a \in Actors |-> Absent]
  /\ record' = [a \in Actors |-> Absent] /\ via' = [a \in Actors |-> a]
  /\ status' = NoRecords
  /\ run_store' = {}
  /\ hook' = [r \in Runs |-> WorkerOf(r)]
  /\ index' = [a \in Actors |-> NoRecords]
  /\ UNCHANGED <<fileVars, audit>>

-----------------------------------------------------------------------------

Step(a) ==
  \/ LoadIndex(a) \/ CleanZombies(a) \/ Register(a) \/ Publish(a) \/ Track(a)
  \/ Capture(a) \/ BeginWrite(a) \/ EndWrite(a)
  \/ ReadStatus(a) \/ ValidateRequest(a) \/ Commit(a) \/ Fallback(a)

\* Nothing is left to do: every run is over and the server may stay up.
Terminating ==
  /\ \A a \in Actors : at[a] \in {"idle", "done", "dead"}
  /\ UNCHANGED vars

Next ==
  \/ \E a \in Actors : Step(a)
  \/ \E r \in Runs : StartRun(r) \/ BudgetStop(r) \/ QualityGate(r) \/ CancelRequest(r)
  \/ Restart
  \/ Terminating

\* The operating system schedules every thread that can go on.  Starting and
\* cancelling are up to the users.
Fairness == \A a \in Actors : WF_vars(Step(a))

Spec == Init /\ [][Next]_vars /\ Fairness

-----------------------------------------------------------------------------
(* Properties.                                                             *)

\* Every variable stays in its domain.
TypeOK ==
  /\ status \in [Runs -> Records]
  /\ run_store \subseteq Runs
  /\ at \in [Actors -> Stages] /\ op \in [Actors -> Ops]
  /\ read \in [Actors -> Records] /\ goal \in [Actors -> Records]
  /\ record \in [Actors -> Records] /\ via \in [Actors -> Actors]
  /\ hook \in [Runs -> Actors]
  /\ index \in [Actors -> [Runs -> Records]]
  /\ file \in [Runs -> Records]
  /\ torn \in BOOLEAN
  /\ audit \in [registered : SUBSET Runs, terminated : SUBSET Runs]
  /\ past \subseteq Runs
  /\ restarts \in Nat

\* When cancel_supervised_run returns, the run is in a terminal status and stays
\* in one, whatever the worker wrote in between: neither a refused request nor
\* a fallback leaves it "running" or "cancelling".
CancelReturnsTerminal ==
  \A r \in Runs : at[CancellerOf(r)] \in {"reported", "done"} => IsTerminal(status[r])

\* A run of an earlier process that the file does not have as active never
\* becomes active there again: every supervisor lays the ghosts of its own copy
\* of the index before it writes it, so that no stale copy revives one.
GhostsStayDead ==
  [][\A r \in past :
       file[r] \notin ActiveStatuses => file'[r] \notin ActiveStatuses]_vars

\* A run that nobody cancels is terminated in the audit log before its terminal
\* status can be read from the file, also when the server stops in between:
\* get_resumable_run_ids does not offer a finished run.
ArchivedMeansAudited ==
  \A r \in Runs :
    ~cancel_requested(r) /\ ~DirectWrites /\ file[r] \in TERMINAL_STATUSES \ {"interrupted"}
      => r \in audit.terminated

\* A run that was started does not stay active for ever, although worker and
\* cancel call overwrite each other's status and drop refused requests.
RunsSettle == \A r \in Runs : <>[](status[r] \notin ActiveStatuses)

-----------------------------------------------------------------------------
(* What comments and docstrings say, and the code does not do.             *)

\* "once in a terminal state, no further transitions allowed".
TerminalIsFinal ==
  [][\A r \in Runs : IsTerminal(status[r]) => status'[r] \in {status[r], Absent}]_vars
=============================================================================
