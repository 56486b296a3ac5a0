---------------------------- MODULE RunStatusSpec ----------------------------
(***************************************************************************)
(* What the run store promises about the status of one run: it starts as   *)
(* "running", it only moves along the allowed transitions, and a terminal  *)
(* status is final.  RankLoop is shown to implement this specification.    *)
(***************************************************************************)
EXTENDS RunStatus

VARIABLE status

Init == status = "running"

Next == \E s \in Statuses : Validate(status, s) /\ status' = s

Spec == Init /\ [][Next]_status
=============================================================================
