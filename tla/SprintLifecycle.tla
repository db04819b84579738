------------------------- MODULE SprintLifecycle -------------------------
(***************************************************************************)
(* What a project promises about the state of its sprints, with nothing    *)
(* said about issues: a sprint is planned, then active, then completed, a  *)
(* planned one may be deleted, and only one sprint is active at a time.    *)
(* This is the abstract specification; Issues implements it.               *)
(***************************************************************************)
CONSTANT Sprint    \* the identities of the project's sprints

VARIABLE sprintState

SprintStates == {"planned", "active", "completed"}

LifecycleTypeOK == sprintState \in [Sprint -> SprintStates \cup {"absent"}]

LifecycleInit == sprintState = [s \in Sprint |-> "absent"]

(* A change of one sprint, or, when the sprint that is completed sends its  *)
(* open issues to a new sprint, of two.                                     *)
Plan(s) ==
    /\ sprintState[s] = "absent"
    /\ sprintState' = [sprintState EXCEPT ![s] = "planned"]

Start(s) ==
    /\ sprintState[s] = "planned"
    /\ \A u \in Sprint : sprintState[u] # "active"
    /\ sprintState' = [sprintState EXCEPT ![s] = "active"]

Complete(s) ==
    /\ sprintState[s] = "active"
    /\ sprintState' = [sprintState EXCEPT ![s] = "completed"]

CompleteIntoNew(s, n) ==
    /\ sprintState[s] = "active"
    /\ sprintState[n] = "absent"
    /\ sprintState' = [sprintState EXCEPT ![s] = "completed", ![n] = "planned"]

Discard(s) ==
    /\ sprintState[s] = "planned"
    /\ sprintState' = [sprintState EXCEPT ![s] = "absent"]

LifecycleNext ==
    \E s \in Sprint :
        \/ Plan(s)
        \/ Start(s)
        \/ Complete(s)
        \/ \E n \in Sprint : CompleteIntoNew(s, n)
        \/ Discard(s)

LifecycleSpec == LifecycleInit /\ [][LifecycleNext]_sprintState

(* sprints_one_active_idx and GetActiveSprint: at most one sprint of the    *)
(* project is active.                                                       *)
OneActiveSprint ==
    \A s, u \in Sprint :
        sprintState[s] = "active" /\ sprintState[u] = "active" => s = u
=============================================================================
