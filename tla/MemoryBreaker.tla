--------------------------- MODULE MemoryBreaker ---------------------------
(***************************************************************************)
(* memory_circuit_breaker.py: the breaker of one subsystem, shared by the  *)
(* threads that write memory (memory_graph._tree_write).  Every method     *)
(* takes the lock once, allow() twice: _maybe_recover, then the check.     *)
(* The write itself runs without the lock, so results arrive late.         *)
(*                                                                         *)
(* Time is the age of the last recorded failure, up to the window: the     *)
(* code compares it with nothing else.  The failure count stops at the     *)
(* threshold: above it, only a reset to zero tells values apart.           *)
(***************************************************************************)
EXTENDS Naturals

CONSTANTS
  Writers,          \* threads that write memory
  open_threshold,   \* DEFAULT_OPEN_THRESHOLD
  recovery_window   \* DEFAULT_RECOVERY_WINDOW, in ticks

ASSUME BreakerConstants == open_threshold \in Nat \ {0} /\ recovery_window \in Nat \ {0}

VARIABLES
  breaker,     \* _state
  failureCount,    \* _failure_count
  age,         \* ticks since _last_failure_ts
  writer       \* thread -> idle | asking | writing

breakerVars == <<breaker, failureCount, age, writer>>

BreakerInit ==
  /\ breaker = "closed" /\ failureCount = 0 /\ age = recovery_window
  /\ writer = [w \in Writers |-> "idle"]

Recovered == IF breaker = "open" /\ age >= recovery_window THEN "half_open" ELSE breaker

\* allow(), first part: _maybe_recover.
Allow(w) ==
  /\ writer[w] = "idle"
  /\ breaker' = Recovered
  /\ writer' = [writer EXCEPT ![w] = "asking"]
  /\ UNCHANGED <<failureCount, age>>

\* allow(), second part: a write starts unless the breaker is open by now.
CheckState_Ignored(w) ==
  /\ writer[w] = "asking"
  /\ writer' = [writer EXCEPT ![w] = "writing"]
  /\ UNCHANGED <<breaker, failureCount, age>>
CheckState(w) ==
  /\ writer[w] = "asking"
  /\ writer' = [writer EXCEPT ![w] = IF breaker = "open" THEN "idle" ELSE "writing"]
  /\ UNCHANGED <<breaker, failureCount, age>>

\* The state property, read by the health report.
ReadState ==
  /\ breaker' = Recovered
  /\ UNCHANGED <<failureCount, age, writer>>

\* record_success: closes a half-open breaker, lets one failure be forgotten
\* when closed, and is ignored when open.
RecordSuccess_StaysHalf(w) ==
  /\ writer[w] = "writing"
  /\ writer' = [writer EXCEPT ![w] = "idle"]
  /\ UNCHANGED <<breaker, failureCount, age>>
RecordSuccess(w) ==
  /\ writer[w] = "writing"
  /\ writer' = [writer EXCEPT ![w] = "idle"]
  /\ \/ /\ breaker = "half_open"
        /\ breaker' = "closed" /\ failureCount' = 0
     \/ /\ breaker = "closed"
        /\ failureCount' = IF failureCount = 0 THEN 0 ELSE failureCount - 1
        /\ UNCHANGED breaker
     \/ breaker = "open" /\ UNCHANGED <<breaker, failureCount>>
  /\ UNCHANGED age

\* record_failure: counts and dates the failure in every state.
Counted == IF failureCount < open_threshold THEN failureCount + 1 ELSE failureCount
RecordFailure(w) ==
  /\ writer[w] = "writing"
  /\ writer' = [writer EXCEPT ![w] = "idle"]
  /\ failureCount' = Counted
  /\ age' = 0
  /\ breaker' = IF breaker = "closed" /\ Counted < open_threshold THEN "closed" ELSE "open"

Tick ==
  /\ age < recovery_window
  /\ age' = age + 1
  /\ UNCHANGED <<breaker, failureCount, writer>>

BreakerNext ==
  \/ ReadState \/ Tick
  \/ \E w \in Writers : Allow(w) \/ CheckState(w) \/ RecordSuccess(w) \/ RecordFailure(w)

\* Time passes, memory keeps being written, and every write ends.
BreakerFairness ==
  /\ WF_breakerVars(Tick)
  /\ \A w \in Writers : /\ WF_breakerVars(Allow(w) \/ CheckState(w))
                        /\ WF_breakerVars(RecordSuccess(w) \/ RecordFailure(w))

BreakerSpec == BreakerInit /\ [][BreakerNext]_breakerVars /\ BreakerFairness

-----------------------------------------------------------------------------
\* Types of the breaker and its threads.
BreakerTypeOK ==
  /\ breaker \in {"closed", "open", "half_open"}
  /\ failureCount \in 0..open_threshold
  /\ age \in 0..recovery_window
  /\ writer \in [Writers -> {"idle", "asking", "writing"}]

\* A closed breaker has room for a failure, and a half-open one has waited out
\* the window since the last failure of any thread, late ones included.
BreakerConsistent ==
  /\ breaker = "closed" => failureCount < open_threshold
  /\ breaker = "half_open" => age = recovery_window

\* While the breaker is not closed, no write starts within the window after a
\* failure, although the state is read and checked under two separate locks
\* ("Memory writes DISABLED for %.0fs").
WindowKept ==
  [][\A w \in Writers :
       writer[w] # "writing" /\ writer'[w] = "writing" /\ breaker # "closed"
         => age = recovery_window]_breakerVars

\* When writes stop failing, the breaker closes and stays closed.
BreakerHeals ==
  <>[][\A w \in Writers : ~RecordFailure(w)]_breakerVars => <>[](breaker = "closed")
=============================================================================
