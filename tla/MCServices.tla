----------------------------- MODULE MCServices -----------------------------
(***************************************************************************)
(* Services that share no state with each other: accounts and sessions,    *)
(* the breaker of the memory, the parallel task runner and rented GPUs.  A *)
(* behaviour shows one of them, the scene; the others rest in an initial   *)
(* state.                                                                  *)
(***************************************************************************)
EXTENDS Access, MemoryBreaker, ParallelTasks, GpuRental

CONSTANT Scenes
VARIABLE scene

vars == <<scene, accessVars, breakerVars, parallelVars, rentalVars>>

InAccess(A)   == scene = "access" /\ A /\ UNCHANGED <<scene, breakerVars, parallelVars, rentalVars>>
InBreaker(A)  == scene = "breaker" /\ A /\ UNCHANGED <<scene, accessVars, parallelVars, rentalVars>>
InParallel(A) == scene = "parallel" /\ A /\ UNCHANGED <<scene, accessVars, breakerVars, rentalVars>>
InRental(A)   == scene = "rental" /\ A /\ UNCHANGED <<scene, accessVars, breakerVars, parallelVars>>

Init ==
  /\ scene \in Scenes
  /\ AccessInit /\ BreakerInit /\ ParallelInit /\ RentalInit
  /\ scene = "parallel" \/ taskPlan = CHOOSE p \in TaskPlans : TRUE

Next == InAccess(AccessNext) \/ InBreaker(BreakerNext) \/ InParallel(ParallelNext) \/ InRental(RentalNext)

\* The fairness of BreakerSpec and ParallelSpec in their scenes.
Spec ==
  /\ Init /\ [][Next]_vars
  /\ WF_vars(InBreaker(Tick))
  /\ \A w \in Writers : /\ WF_vars(InBreaker(Allow(w) \/ CheckState(w)))
                        /\ WF_vars(InBreaker(RecordSuccess(w) \/ RecordFailure(w)))
  /\ WF_vars(InParallel(NextWave)) /\ \A t \in Tasks : WF_vars(InParallel(TaskStep(t)))

-----------------------------------------------------------------------------
\* Three tasks: independent, a chain, a diamond's half, a cycle and a
\* dependency nobody provides; scopes that overlap in both orders.
ThreeTasks == 1 .. 3
Deps == {<<{}, {}, {}>>, <<{}, {1}, {2}>>, <<{}, {1}, {}>>, <<{2}, {1}, {}>>, <<{9}, {}, {1}>>}
FileScopes == {<<{1, 2}, {1, 2}, {2}>>, <<{1}, {1}, {1}>>, <<{}, {1}, {1, 2}>>}
ThreeTaskPlans == {[depends_on |-> d, file_scopes |-> s] : d \in Deps, s \in FileScopes}

-----------------------------------------------------------------------------
\* Types of the four components: the account files, the breaker, the runner and
\* the rentals; failed logins stop at MAX_FAILED_LOGIN_ATTEMPTS.
ServicesTypeOK == AccessTypeOK /\ BreakerTypeOK /\ ParallelTypeOK /\ RentalTypeOK

\* The memory breaker closes when writes stop failing.
BreakerHealsHere == scene = "breaker" => BreakerHeals

\* ParallelTaskRunner.run returns.
RunReturnsHere == scene = "parallel" => RunReturns
=============================================================================
