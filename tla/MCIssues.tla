----------------------------- MODULE MCIssues -----------------------------
(* Issues on small sets: see README.md for the bounds.                      *)
EXTENDS Issues, TLC

CONSTANTS todo, done    \* two statuses of the new project

MCDefaultCategory ==
    [t \in Status |-> IF t = todo THEN "todo" ELSE IF t = done THEN "done" ELSE "absent"]

Symmetry == Permutations(Issue) \cup Permutations(Sprint) \cup Permutations(Time)
=============================================================================
