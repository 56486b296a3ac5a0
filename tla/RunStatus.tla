------------------------------ MODULE RunStatus ------------------------------
(***************************************************************************)
(* The status of a supervised run: the values it takes, the statuses that  *)
(* end it, and the transition rule of RunTransitionValidator.              *)
(* Everything here is a constant operator; the modules that keep a run     *)
(* extend this one.                                                        *)
(***************************************************************************)

\* The terminal statuses of the run store.
TERMINAL_STATUSES ==
  {"completed", "blocked", "failed", "crashed", "cancelled", "interrupted", "success"}

\* The lifecycle helpers (and the cancel API) have their own list: no "success".
TERMINAL_RUN_STATUSES == TERMINAL_STATUSES \ {"success"}

ActiveStatuses == {"running", "cancelling"}

Statuses == ActiveStatuses \cup TERMINAL_STATUSES

\* _ALLOWED_TRANSITIONS.  A running run is not cancelled directly, and a run
\* being cancelled does not complete.
AllowedTransitions(s) ==
  CASE s = "running"    -> {"running", "cancelling", "blocked", "failed", "completed",
                            "success", "crashed", "interrupted"}
    [] s = "cancelling" -> {"cancelled", "interrupted", "blocked", "failed"}
    [] OTHER            -> {}

\* RunTransitionValidator.validate with advisory_only=False: a no-op is always
\* allowed, a terminal status is never left.
Validate(current, new) ==
  \/ current = new
  \/ current \notin TERMINAL_STATUSES /\ new \in AllowedTransitions(current)

IsTerminal(s) == s \in TERMINAL_STATUSES

\* The status that a transition request leaves behind when nothing else writes
\* the status meanwhile: a refused request is logged and dropped, and the
\* fallback that follows it applies the same rule to the same status.
StatusAfter(current, new) == IF Validate(current, new) THEN new ELSE current
=============================================================================
