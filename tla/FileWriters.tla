---------------------------- MODULE FileWriters ----------------------------
(***************************************************************************)
(* What a lock on files promises: a set of writers per file, never two at  *)
(* a time.  A writer starts with all the files it names and gives them     *)
(* back together.                                                          *)
(***************************************************************************)
CONSTANTS Writers, Files
VARIABLE writing        \* file -> the writers inside it

Init == writing = [f \in Files |-> {}]

\* w enters every file of F; each of them is free.
Enter(w, F) ==
  /\ \A f \in F : writing[f] = {}
  /\ writing' = [f \in Files |-> IF f \in F THEN {w} ELSE writing[f]]

\* w leaves every file it is in.
Leave(w) == writing' = [f \in Files |-> writing[f] \ {w}]

Next == \E w \in Writers : Leave(w) \/ \E F \in SUBSET Files : Enter(w, F)

Spec == Init /\ [][Next]_writing
=============================================================================
