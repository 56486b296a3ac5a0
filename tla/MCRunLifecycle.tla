--------------------------- MODULE MCRunLifecycle ---------------------------
(***************************************************************************)
(* Constants of the runs of RunLifecycle.                                  *)
(***************************************************************************)
EXTENDS RunLifecycle

CONSTANTS r1, r2

OneRun == {r1}
TwoRuns == {r1, r2}
=============================================================================
