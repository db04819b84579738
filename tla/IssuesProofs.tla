--------------------------- MODULE IssuesProofs ---------------------------
(***************************************************************************)
(* What the runs of MCIssues check on small sets, proved for all.          *)
(***************************************************************************)
EXTENDS Issues, TLAPS

(* The inductive invariant. HistoryReplays and SubtasksShareSprint need     *)
(* each other's neighbours: a deleted sprint clears every reference to it,  *)
(* and only because subtasks share their parent's sprint is each of them    *)
(* also logged.                                                             *)
IInv ==
    /\ TypeOK
    /\ ReferencesExist
    /\ HierarchyOK
    /\ SubtasksShareSprint
    /\ ResolvedIffDone
    /\ HistoryReplays

---------------------------------------------------------------------------
(* Lemmas on the operators.                                                 *)

(* A bulk update of the sprints changes exactly the rows S, and logging     *)
(* only the rows that change leaves the same function as logging them all.  *)
LEMMA AssignSprint ==
    ASSUME TypeOK, NEW S, NEW s \in Sprint \cup {NULL}
    PROVE  /\ Assign(sprint, S, s) \in [Issue -> Sprint \cup {NULL}]
           /\ \A x \in Issue : Assign(sprint, S, s)[x] = IF x \in S THEN s ELSE sprint[x]
BY DEF Assign, TypeOK

LEMMA LogSprint ==
    ASSUME TypeOK, HistoryReplays, NEW S, NEW s \in Sprint \cup {NULL}
    PROVE  LogSprintChanges(S, s) = Assign(sprint, S, s)
<1>1. logged.sprint = sprint /\ DOMAIN sprint = Issue
  BY DEF HistoryReplays, TypeOK
<1>2. \A x \in Issue : (IF x \in {i \in S : sprint[i] # s} THEN s ELSE sprint[x])
                      = (IF x \in S THEN s ELSE sprint[x])
  OBVIOUS
<1>3. QED
  BY <1>1, <1>2 DEF LogSprintChanges, Assign

LEMMA InitIInv == Init => IInv
<1> SUFFICES ASSUME Init PROVE IInv
  OBVIOUS
<1>1. TypeOK
  BY CategoriesAssumption DEF Init, TypeOK, Types, Categories
<1>2. Live = {}
  BY DEF Init, Live
<1>3. HistoryReplays
  BY DEF Init, HistoryReplays
<1>4. QED
  BY <1>1, <1>2, <1>3 DEF IInv, ReferencesExist, HierarchyOK, SubtasksShareSprint,
     ResolvedIffDone

LEMMA CreateIssueIInv ==
    ASSUME IInv, NEW i \in Issue, NEW k \in Types, NEW p \in Issue \cup {NULL},
           CreateIssue(i, k, p)
    PROVE  IInv'
<1>1. PICK t \in Statuses, s \in SprintAtCreation(k, p) :
        /\ type' = [type EXCEPT ![i] = k]
        /\ parent' = [parent EXCEPT ![i] = p]
        /\ sprint' = [sprint EXCEPT ![i] = s]
        /\ status' = [status EXCEPT ![i] = t]
        /\ \E r \in ResolvedAtFor(NULL, "absent", category[t]) :
                resolvedAt' = [resolvedAt EXCEPT ![i] = r]
        /\ logged' = [logged EXCEPT !.parent[i] = p, !.sprint[i] = s, !.status[i] = t]
  BY DEF CreateIssue
<1>2. PICK r \in ResolvedAtFor(NULL, "absent", category[t]) :
        resolvedAt' = [resolvedAt EXCEPT ![i] = r]
  BY <1>1
<1>3. /\ i \notin Live
      /\ ResolveParent(k, p)
      /\ UNCHANGED <<sprintState, category, projectType>>
  BY DEF CreateIssue
<1>4. s \in Sprint \cup {NULL} /\ (s # NULL => sprintState[s] # "absent")
      /\ (k = "epic" => s = NULL) /\ (k = "subtask" => s = sprint[p])
  BY <1>1, <1>3, TypesAssumption DEF IInv, TypeOK, SprintAtCreation, OpenSprints, ResolveSprint,
     ResolveParent, IsStandard, Types, Live, ReferencesExist
<1>5. t \in Status /\ category[t] # "absent" /\ r \in Time \cup {NULL}
      /\ (r = NULL <=> category[t] # "done")
  BY <1>1, <1>2, NullAssumption DEF ResolvedAtFor, Statuses
<1>6. TypeOK'
  BY <1>1, <1>2, <1>3, <1>4, <1>5, TypesAssumption, NullAssumption
  DEF IInv, TypeOK, Types, Live, ResolveParent
<1>7. HistoryReplays'
  BY <1>1 DEF IInv, HistoryReplays, TypeOK
<1>8. ReferencesExist'
  BY <1>1, <1>3, <1>4, <1>5 DEF IInv, TypeOK, ReferencesExist, Live, Statuses
<1>9. HierarchyOK'
  <2> SUFFICES ASSUME NEW j \in Issue, type'[j] # "absent"
               PROVE  /\ type'[j] = "subtask" =>
                           parent'[j] \in Live' /\ IsStandard(type'[parent'[j]])
                      /\ IsStandard(type'[j]) =>
                           parent'[j] = NULL
                           \/ (parent'[j] \in Live' /\ type'[parent'[j]] = "epic")
                      /\ type'[j] = "epic" => parent'[j] = NULL /\ sprint'[j] = NULL
    BY DEF HierarchyOK, Live, IsStandard
  <2>1. \A x \in Live : x \in Live' /\ x # i /\ type'[x] = type[x]
    BY <1>1, <1>3 DEF IInv, TypeOK, Live
  <2>2. CASE j = i
    <3>1. type'[j] = k /\ parent'[j] = p /\ sprint'[j] = s
      BY <1>1, <2>2 DEF IInv, TypeOK
    <3>2. QED
      BY <1>3, <1>4, <2>1, <3>1, TypesAssumption DEF ResolveParent, IsStandard
  <2>3. CASE j # i
    <3>1. /\ type'[j] = type[j] /\ parent'[j] = parent[j] /\ sprint'[j] = sprint[j]
          /\ j \in Live
      BY <1>1, <2>3 DEF IInv, TypeOK, Live
    <3>2. QED
      BY <2>1, <3>1 DEF IInv, HierarchyOK, IsStandard
  <2>4. QED
    BY <2>2, <2>3
<1>10. SubtasksShareSprint'
  BY <1>1, <1>3, <1>4 DEF IInv, TypeOK, SubtasksShareSprint, HierarchyOK, Live, ResolveParent
<1>11. ResolvedIffDone'
  BY <1>1, <1>2, <1>3, <1>5, NullAssumption DEF IInv, TypeOK, ResolvedIffDone, Live, Done
<1>12. QED
  BY <1>6, <1>7, <1>8, <1>9, <1>10, <1>11 DEF IInv

(* What one UPDATE of an issue preserves, whichever request it comes from:  *)
(* the new parent fits the new type, the new sprint exists and is the one   *)
(* the parent has when the issue is a subtask.                              *)
LEMMA WriteIssueChangesIInv ==
    ASSUME IInv, NEW i \in Live, NEW k \in Types, NEW p \in Issue \cup {NULL},
           NEW s \in Sprint \cup {NULL}, NEW t \in Statuses,
           k # type[i] => IsStandard(k) /\ IsStandard(type[i]),
           ResolveParent(k, p),
           s # NULL => sprintState[s] # "absent",
           k = "epic" => s = NULL,
           k = "subtask" => s = sprint[p],
           WriteIssueChanges(i, k, p, s, t),
           UNCHANGED <<sprintState, category, projectType>>
    PROVE  IInv'
<1> DEFINE moved == IF IsStandard(k) /\ s # sprint[i] THEN Movers({i}) ELSE {i}
<1>1. PICK r \in IF t = status[i] THEN {resolvedAt[i]}
               ELSE ResolvedAtFor(resolvedAt[i], category[status[i]], category[t]) :
        resolvedAt' = [resolvedAt EXCEPT ![i] = r]
  BY DEF WriteIssueChanges
<1>2. /\ type' = [type EXCEPT ![i] = k]
      /\ parent' = [parent EXCEPT ![i] = p]
      /\ status' = [status EXCEPT ![i] = t]
      /\ sprint' = Assign(sprint, moved, s)
      /\ logged' = [parent |-> [logged.parent EXCEPT ![i] = IF p # parent[i] THEN p ELSE @],
                    sprint |-> LogSprintChanges(moved, s),
                    status |-> [logged.status EXCEPT ![i] = IF t # status[i] THEN t ELSE @]]
  BY DEF WriteIssueChanges
<1>3. /\ i \in Issue /\ type[i] # "absent"
      /\ t \in Status /\ category[t] # "absent"
      /\ r \in Time \cup {NULL}
  BY <1>1 DEF IInv, TypeOK, Live, Statuses, ResolvedAtFor
<1>4. r = NULL <=> category[t] # "done"
  BY <1>1, <1>3, NullAssumption DEF IInv, ResolvedIffDone, Done, ResolvedAtFor
<1>5. /\ sprint' \in [Issue -> Sprint \cup {NULL}]
      /\ \A j \in Issue : sprint'[j] = IF j \in moved THEN s ELSE sprint[j]
  BY <1>2, AssignSprint DEF IInv
<1>6. \A j \in moved \ {i} : type[j] = "subtask" /\ parent[j] = i /\ IsStandard(k)
  BY DEF Movers, SubtasksOf
<1>7. sprint' = LogSprintChanges(moved, s)
  BY <1>2, LogSprint DEF IInv
<1>8. HistoryReplays'
  BY <1>2, <1>7 DEF IInv, TypeOK, HistoryReplays
<1>9. TypeOK'
  <2>1. /\ type' \in [Issue -> Types \cup {"absent"}]
        /\ parent' \in [Issue -> Issue \cup {NULL}]
        /\ status' \in [Issue -> Status \cup {NULL}]
        /\ resolvedAt' \in [Issue -> Time \cup {NULL}]
    BY <1>1, <1>2, <1>3 DEF IInv, TypeOK
  <2>2. logged' \in [parent : [Issue -> Issue \cup {NULL}],
                     sprint : [Issue -> Sprint \cup {NULL}],
                     status : [Issue -> Status \cup {NULL}]]
    BY <1>5, <1>8, <2>1 DEF HistoryReplays
  <2>3. ASSUME NEW j \in Issue
        PROVE  /\ status'[j] = NULL <=> type'[j] = "absent"
               /\ type'[j] = "absent" =>
                    parent'[j] = NULL /\ sprint'[j] = NULL /\ resolvedAt'[j] = NULL
    <3>1. CASE j = i
      BY <1>2, <1>3, <3>1, TypesAssumption, NullAssumption DEF IInv, TypeOK, Types
    <3>2. CASE j # i
      <4>1. /\ status'[j] = status[j] /\ type'[j] = type[j] /\ parent'[j] = parent[j]
            /\ resolvedAt'[j] = resolvedAt[j]
        BY <1>1, <1>2, <3>2 DEF IInv, TypeOK
      <4>2. type[j] = "absent" => sprint'[j] = sprint[j]
        BY <1>5, <1>6, <3>2
      <4>3. QED
        BY <4>1, <4>2 DEF IInv, TypeOK
    <3>3. QED
      BY <3>1, <3>2
  <2>4. QED
    BY <1>5, <2>1, <2>2, <2>3 DEF IInv, TypeOK
<1>10. ReferencesExist'
  <2> SUFFICES ASSUME NEW j \in Issue, type'[j] # "absent"
               PROVE  /\ status'[j] \in Statuses
                      /\ sprint'[j] # NULL => sprintState[sprint'[j]] # "absent"
    BY DEF ReferencesExist, Live, Statuses
  <2>1. j \in Live
    BY <1>2, <1>3 DEF IInv, TypeOK, Live
  <2>2. status'[j] \in {t, status[j]} /\ sprint'[j] \in {s, sprint[j]}
    BY <1>2, <1>5 DEF IInv, TypeOK
  <2>3. QED
    BY <2>1, <2>2 DEF IInv, ReferencesExist
<1>11. HierarchyOK'
  <2> SUFFICES ASSUME NEW j \in Issue, type'[j] # "absent"
               PROVE  /\ type'[j] = "subtask" =>
                           parent'[j] \in Live' /\ IsStandard(type'[parent'[j]])
                      /\ IsStandard(type'[j]) =>
                           parent'[j] = NULL
                           \/ (parent'[j] \in Live' /\ type'[parent'[j]] = "epic")
                      /\ type'[j] = "epic" => parent'[j] = NULL /\ sprint'[j] = NULL
    BY DEF HierarchyOK, Live, IsStandard
  <2>1. \A x \in Issue : type'[x] = IF x = i THEN k ELSE type[x]
    BY <1>2, <1>3 DEF IInv, TypeOK
  <2>2. \A x \in Live : x \in Live'
    BY <2>1, TypesAssumption DEF Live, Types
  <2>3. /\ k = "epic" <=> type[i] = "epic"
        /\ IsStandard(k) <=> IsStandard(type[i])
    BY TypesAssumption DEF IsStandard
  <2>4. CASE j = i
    <3>1. type'[j] = k /\ parent'[j] = p /\ (k = "epic" => sprint'[j] = NULL)
      <4>1. i \in moved
        BY DEF Movers
      <4>2. QED
        BY <1>2, <1>3, <1>5, <2>4, <4>1 DEF IInv, TypeOK
    <3>2. p \in Live => p \in Live' /\ type'[p] = IF p = i THEN k ELSE type[p]
      BY <2>1, <2>2 DEF Live
    <3>3. k = "subtask" => p \in Live' /\ IsStandard(type'[p])
      BY <2>3, <3>2, TypesAssumption DEF ResolveParent, IsStandard, Live
    <3>4. IsStandard(k) => p = NULL \/ (p \in Live' /\ type'[p] = "epic")
      BY <2>3, <3>2, TypesAssumption DEF ResolveParent, IsStandard
    <3>5. k = "epic" => p = NULL
      BY TypesAssumption DEF ResolveParent, IsStandard
    <3>6. QED
      BY <3>1, <3>3, <3>4, <3>5
  <2>5. CASE j # i
    <3>1. type'[j] = type[j] /\ parent'[j] = parent[j] /\ j \in Live
      BY <1>2, <2>1, <2>5 DEF IInv, TypeOK, Live
    <3>2. type[j] = "epic" => sprint'[j] = sprint[j]
      BY <1>5, <1>6, <2>5
    <3>3. QED
      BY <2>1, <2>2, <2>3, <3>1, <3>2 DEF IInv, HierarchyOK, IsStandard, Live
  <2>6. QED
    BY <2>4, <2>5
<1>12. SubtasksShareSprint'
  <2> SUFFICES ASSUME NEW j \in Issue, type'[j] = "subtask"
               PROVE  sprint'[j] = sprint'[parent'[j]]
    BY DEF SubtasksShareSprint, Live
  <2>1. CASE j = i
    <3>1. k = "subtask" /\ parent'[j] = p /\ p \in Issue /\ p # i
      BY <1>2, <1>3, <2>1, TypesAssumption DEF IInv, TypeOK, ResolveParent, IsStandard, Live
    <3>2. moved = {i}
      BY <3>1, TypesAssumption DEF IsStandard
    <3>3. QED
      BY <1>5, <2>1, <3>1, <3>2
  <2>2. CASE j # i
    <3>1. /\ type[j] = "subtask" /\ parent'[j] = parent[j] /\ j \in Live
          /\ parent[j] \in Issue /\ IsStandard(type[parent[j]])
          /\ sprint[j] = sprint[parent[j]]
      BY <1>2, <2>2 DEF IInv, TypeOK, HierarchyOK, SubtasksShareSprint, Live
    <3>2. parent[j] # i => j \notin moved /\ parent[j] \notin moved
      BY <1>6, <2>2, <3>1, TypesAssumption DEF IsStandard
    <3>3. CASE parent[j] = i
      <4>1. IsStandard(k)
        BY <3>1, <3>3
      <4>2. s # sprint[i] => j \in moved /\ i \in moved
        BY <3>1, <3>3, <4>1 DEF Movers, SubtasksOf
      <4>3. QED
        BY <1>3, <1>5, <3>1, <3>3, <4>2
    <3>4. QED
      BY <1>5, <3>1, <3>2, <3>3
  <2>3. QED
    BY <2>1, <2>2
<1>13. ResolvedIffDone'
  BY <1>1, <1>2, <1>3, <1>4 DEF IInv, TypeOK, ResolvedIffDone, Live, Done
<1>14. QED
  BY <1>8, <1>9, <1>10, <1>11, <1>12, <1>13 DEF IInv

LEMMA SprintOfStandardExists ==
    ASSUME IInv, NEW i \in Live, NEW s \in SprintOfStandard(i)
    PROVE  s \in Sprint \cup {NULL} /\ (s # NULL => sprintState[s] # "absent")
BY DEF IInv, TypeOK, ReferencesExist, SprintOfStandard, OpenSprints, ResolveSprint, Live

LEMMA UpdateIssueIInv ==
    ASSUME IInv, NEW i \in Issue, NEW k \in Types, NEW p \in Issue \cup {NULL},
           UpdateIssue(i, k, p)
    PROVE  IInv'
<1>1. /\ i \in Live
      /\ k # type[i] => IsStandard(k) /\ IsStandard(type[i])
      /\ p # parent[i] => ResolveParent(k, p)
      /\ UNCHANGED <<sprintState, category, projectType>>
  BY DEF UpdateIssue
<1>2. PICK t \in ResolveStatus(i), s \in SprintAfterUpdate(i, k, p) :
        WriteIssueChanges(i, k, p, s, t)
  BY DEF UpdateIssue
<1>3. t \in Statuses
  BY <1>1, <1>2 DEF ResolveStatus, IInv, ReferencesExist
<1>4. ResolveParent(k, p)
  BY <1>1, TypesAssumption
  DEF IInv, HierarchyOK, ResolveParent, IsStandard, Types
<1>5. /\ s \in Sprint \cup {NULL}
      /\ s # NULL => sprintState[s] # "absent"
      /\ k = "epic" => s = NULL
      /\ k = "subtask" => s = sprint[p]
  <2>1. CASE k = "epic"
    BY <1>1, <1>2, <2>1, TypesAssumption
    DEF SprintAfterUpdate, IsStandard, IInv, HierarchyOK
  <2>2. CASE k = "subtask"
    <3>1. p \in Live /\ p # NULL
      BY <1>4, <2>2, TypesAssumption, NullAssumption DEF ResolveParent, Live, IsStandard
    <3>2. s = sprint[p]
      BY <1>2, <2>2, <3>1, TypesAssumption DEF SprintAfterUpdate, IsStandard
    <3>3. QED
      BY <2>2, <3>1, <3>2 DEF IInv, TypeOK, ReferencesExist, Live
  <2>3. CASE k \in StandardTypes
    <3>1. s \in SprintOfStandard(i)
      BY <1>2, <2>3, TypesAssumption DEF SprintAfterUpdate, IsStandard
    <3>2. QED
      BY <1>1, <2>3, <3>1, SprintOfStandardExists, TypesAssumption
  <2>4. QED
    BY <2>1, <2>2, <2>3 DEF Types
<1>6. QED
  BY <1>1, <1>2, <1>3, <1>4, <1>5, WriteIssueChangesIInv

LEMMA MoveIssueIInv ==
    ASSUME IInv, NEW i \in Issue, MoveIssue(i)
    PROVE  IInv'
<1>1. /\ i \in Live
      /\ type[i] # "epic"
      /\ UNCHANGED <<sprintState, category, projectType>>
  BY DEF MoveIssue
<1>2. PICK t \in ResolveStatus(i),
           s \in IF IsStandard(type[i]) THEN SprintOfStandard(i) ELSE {sprint[i]} :
        WriteIssueChanges(i, type[i], parent[i], s, t)
  BY DEF MoveIssue
<1>3. t \in Statuses
  BY <1>1, <1>2 DEF ResolveStatus, IInv, ReferencesExist
<1>4. type[i] \in Types /\ parent[i] \in Issue \cup {NULL} /\ ResolveParent(type[i], parent[i])
  BY <1>1, TypesAssumption
  DEF IInv, TypeOK, HierarchyOK, ResolveParent, IsStandard, Types, Live
<1>5. /\ s \in Sprint \cup {NULL}
      /\ s # NULL => sprintState[s] # "absent"
      /\ type[i] = "subtask" => s = sprint[parent[i]]
  <2>1. CASE IsStandard(type[i])
    BY <1>1, <1>2, <2>1, SprintOfStandardExists, TypesAssumption DEF IsStandard
  <2>2. CASE ~IsStandard(type[i])
    <3>1. s = sprint[i]
      BY <1>2, <2>2
    <3>2. QED
      BY <1>1, <3>1 DEF IInv, TypeOK, ReferencesExist, SubtasksShareSprint, Live
  <2>3. QED
    BY <2>1, <2>2
<1>6. QED
  BY <1>1, <1>2, <1>3, <1>4, <1>5, WriteIssueChangesIInv

(* ON DELETE SET NULL finds nothing to clear when an issue is deleted: no   *)
(* issue has a subtask for its parent, and the other children are logged.   *)
LEMMA DeleteIssueIInv ==
    ASSUME IInv, NEW i \in Issue, DeleteIssue(i)
    PROVE  IInv'
<1> DEFINE victims == {i} \cup SubtasksOf({i})
           children == {c \in Issue : parent[c] = i /\ type[c] # "subtask"}
           orphans == {c \in Issue : parent[c] \in victims}
<1>0. TypeOK /\ ReferencesExist /\ HierarchyOK /\ SubtasksShareSprint
      /\ ResolvedIffDone /\ HistoryReplays
  BY DEF IInv
<1>1. /\ i \in Live
      /\ type' = Assign(type, victims, "absent")
      /\ parent' = Assign(parent, children \cup orphans \cup victims, NULL)
      /\ sprint' = Assign(sprint, victims, NULL)
      /\ status' = Assign(status, victims, NULL)
      /\ resolvedAt' = Assign(resolvedAt, victims, NULL)
      /\ logged' = [parent |-> Assign(logged.parent, children \cup victims, NULL),
                    sprint |-> Assign(logged.sprint, victims, NULL),
                    status |-> Assign(logged.status, victims, NULL)]
      /\ UNCHANGED <<sprintState, category, projectType>>
  BY DEF DeleteIssue, Victims
<1>2. ASSUME NEW c \in Issue, parent[c] \in victims
      PROVE  parent[c] = i
  <2>1. c \in Live
    BY <1>0, <1>2, NullAssumption DEF TypeOK, Live, SubtasksOf
  <2>2. type[parent[c]] # "subtask"
    BY <1>0, <1>2, <2>1, NullAssumption, TypesAssumption
    DEF TypeOK, HierarchyOK, Live, IsStandard, Types, SubtasksOf
  <2>3. QED
    BY <1>2, <2>2 DEF SubtasksOf
<1>3. children \cup orphans \cup victims = children \cup victims
  BY <1>2 DEF SubtasksOf
<1>4. children \cup victims = {c \in Issue : c = i \/ parent[c] = i}
  BY DEF SubtasksOf
<1>5. victims = {c \in Issue : c = i \/ (type[c] = "subtask" /\ parent[c] = i)}
  BY DEF SubtasksOf
<1>6. \A c \in Issue : parent'[c] = IF c = i \/ parent[c] = i THEN NULL ELSE parent[c]
  BY <1>0, <1>1, <1>3, <1>4 DEF Assign, TypeOK
<1>7. \A c \in Issue :
        IF c \in victims
        THEN /\ type'[c] = "absent" /\ sprint'[c] = NULL
             /\ status'[c] = NULL /\ resolvedAt'[c] = NULL
        ELSE /\ type'[c] = type[c] /\ sprint'[c] = sprint[c]
             /\ status'[c] = status[c] /\ resolvedAt'[c] = resolvedAt[c]
  BY <1>0, <1>1 DEF Assign, TypeOK
<1>8. HistoryReplays'
  BY <1>0, <1>1, <1>3 DEF HistoryReplays
<1> HIDE DEF victims, children, orphans
<1>9. TypeOK'
  <2>1. /\ type' \in [Issue -> Types \cup {"absent"}]
        /\ parent' \in [Issue -> Issue \cup {NULL}]
        /\ sprint' \in [Issue -> Sprint \cup {NULL}]
        /\ status' \in [Issue -> Status \cup {NULL}]
        /\ resolvedAt' \in [Issue -> Time \cup {NULL}]
    BY <1>0, <1>1 DEF Assign, TypeOK
  <2>2. logged' \in [parent : [Issue -> Issue \cup {NULL}],
                     sprint : [Issue -> Sprint \cup {NULL}],
                     status : [Issue -> Status \cup {NULL}]]
    BY <1>8, <2>1 DEF HistoryReplays
  <2>3. ASSUME NEW c \in Issue
        PROVE  /\ status'[c] = NULL <=> type'[c] = "absent"
               /\ type'[c] = "absent" =>
                    parent'[c] = NULL /\ sprint'[c] = NULL /\ resolvedAt'[c] = NULL
    BY <1>0, <1>5, <1>6, <1>7 DEF TypeOK
  <2>4. QED
    BY <1>0, <1>1, <2>1, <2>2, <2>3 DEF TypeOK
<1>10. \A c \in Live' : c \in Live /\ c \notin victims /\ c # i
  BY <1>5, <1>7 DEF Live
<1>11. ReferencesExist'
  BY <1>0, <1>1, <1>7, <1>10 DEF ReferencesExist, Live, Statuses
<1>12. \A c \in Live' :
        /\ type'[c] = type[c] /\ sprint'[c] = sprint[c]
        /\ type[c] = "subtask" => parent'[c] = parent[c] /\ parent[c] # i
        /\ parent'[c] # NULL => parent'[c] = parent[c] /\ parent[c] # i
  BY <1>5, <1>6, <1>7, <1>10 DEF Live
<1>13. \A c \in Live : c # i /\ type[c] # "subtask" => c \in Live' /\ type'[c] = type[c]
  BY <1>5, <1>7 DEF Live
<1>14. HierarchyOK'
  <2> SUFFICES ASSUME NEW c \in Live'
               PROVE  /\ type'[c] = "subtask" =>
                           parent'[c] \in Live' /\ IsStandard(type'[parent'[c]])
                      /\ IsStandard(type'[c]) =>
                           parent'[c] = NULL
                           \/ (parent'[c] \in Live' /\ type'[parent'[c]] = "epic")
                      /\ type'[c] = "epic" => parent'[c] = NULL /\ sprint'[c] = NULL
    BY DEF HierarchyOK, IsStandard
  <2>1. c \in Live /\ c \in Issue
    BY <1>10 DEF Live
  <2>2. CASE type'[c] = "subtask"
    BY <1>0, <1>12, <1>13, <2>1, <2>2, TypesAssumption DEF HierarchyOK, IsStandard
  <2>3. CASE IsStandard(type'[c])
    BY <1>0, <1>12, <1>13, <2>1, <2>3, TypesAssumption DEF HierarchyOK, IsStandard
  <2>4. CASE type'[c] = "epic"
    <3>1. parent[c] = NULL /\ sprint[c] = NULL
      BY <1>0, <1>12, <2>1, <2>4 DEF HierarchyOK
    <3>2. QED
      BY <1>6, <1>12, <2>1, <2>4, <3>1, TypesAssumption DEF IsStandard
  <2>5. QED
    BY <2>2, <2>3, <2>4
<1>15. SubtasksShareSprint'
  <2> SUFFICES ASSUME NEW c \in Live', type'[c] = "subtask"
               PROVE  sprint'[c] = sprint'[parent'[c]]
    BY DEF SubtasksShareSprint
  <2>1. /\ c \in Live /\ type[c] = "subtask"
        /\ parent'[c] = parent[c] /\ parent[c] # i /\ sprint'[c] = sprint[c]
    BY <1>10, <1>12
  <2>2. parent[c] \in Live /\ type[parent[c]] # "subtask" /\ sprint[c] = sprint[parent[c]]
    BY <1>0, <2>1, TypesAssumption DEF HierarchyOK, SubtasksShareSprint, IsStandard
  <2>3. sprint'[parent[c]] = sprint[parent[c]]
    BY <1>12, <1>13, <2>1, <2>2
  <2>4. QED
    BY <2>1, <2>2, <2>3
<1>16. ResolvedIffDone'
  BY <1>0, <1>1, <1>7, <1>10 DEF ResolvedIffDone, Live, Done
<1>17. QED
  BY <1>8, <1>9, <1>11, <1>14, <1>15, <1>16 DEF IInv

---------------------------------------------------------------------------
(* Sprint writes.                                                           *)

(* moveIssuesToSprint keeps the invariant when it is given standard issues, *)
(* whatever happens to the sprints, as long as none is left that an issue   *)
(* refers to and that does not exist.                                       *)
LEMMA MoveIssuesIInv ==
    ASSUME IInv,
           NEW S \in SUBSET Issue, \A j \in S : IsStandard(type[j]),
           NEW dest \in Sprint \cup {NULL}, MoveIssuesToSprint(S, dest),
           UNCHANGED <<type, parent, status, resolvedAt, category, projectType>>,
           sprintState' \in [Sprint -> {"absent", "planned", "active", "completed"}],
           \A j \in Issue : sprint'[j] # NULL => sprintState'[sprint'[j]] # "absent"
    PROVE  IInv'
<1>0. TypeOK /\ ReferencesExist /\ HierarchyOK /\ SubtasksShareSprint
      /\ ResolvedIffDone /\ HistoryReplays
  BY DEF IInv
<1>1. /\ sprint' \in [Issue -> Sprint \cup {NULL}]
      /\ \A j \in Issue : sprint'[j] = IF j \in Movers(S) THEN dest ELSE sprint[j]
  BY <1>0, AssignSprint DEF MoveIssuesToSprint
<1>2. HistoryReplays'
  BY <1>0, LogSprint DEF MoveIssuesToSprint, HistoryReplays, TypeOK
<1>3. \A j \in Movers(S) :
        /\ j \in Live
        /\ \/ j \in S /\ IsStandard(type[j])
           \/ type[j] = "subtask" /\ parent[j] \in S
  BY TypesAssumption DEF Movers, SubtasksOf, Live, IsStandard
<1>4. \A j \in Issue : type[j] = "subtask" /\ parent[j] \in S => j \in Movers(S)
  BY DEF Movers, SubtasksOf
<1>5. S \subseteq Movers(S)
  BY DEF Movers
<1>6. TypeOK'
  <2>1. logged' \in [parent : [Issue -> Issue \cup {NULL}],
                     sprint : [Issue -> Sprint \cup {NULL}],
                     status : [Issue -> Status \cup {NULL}]]
    BY <1>0, <1>1, <1>2 DEF HistoryReplays, TypeOK
  <2>2. QED
    BY <1>0, <1>1, <1>3, <2>1 DEF TypeOK, Live
<1>7. ReferencesExist'
  BY <1>0 DEF ReferencesExist, Live, Statuses
<1>8. HierarchyOK'
  BY <1>0, <1>1, <1>3, TypesAssumption DEF HierarchyOK, Live, IsStandard
<1>9. SubtasksShareSprint'
  <2> SUFFICES ASSUME NEW j \in Live, type[j] = "subtask"
               PROVE  sprint'[j] = sprint'[parent[j]]
    BY DEF SubtasksShareSprint, Live
  <2>1. parent[j] \in Issue /\ IsStandard(type[parent[j]]) /\ sprint[j] = sprint[parent[j]]
    BY <1>0 DEF HierarchyOK, SubtasksShareSprint, Live
  <2>2. j \in Movers(S) <=> parent[j] \in Movers(S)
    BY <1>3, <1>4, <1>5, <2>1, TypesAssumption DEF IsStandard, Live
  <2>3. QED
    BY <1>1, <2>1, <2>2 DEF Live
<1>10. ResolvedIffDone'
  BY <1>0 DEF ResolvedIffDone, Live, Done
<1>11. QED
  BY <1>2, <1>6, <1>7, <1>8, <1>9, <1>10 DEF IInv

LEMMA CloseSprintIInv ==
    ASSUME IInv, NEW s \in Sprint, NEW dest \in Sprint \cup {NULL}, CloseSprint(s, dest),
           sprintState' \in [Sprint -> {"absent", "planned", "active", "completed"}],
           \A u \in Sprint : sprintState[u] # "absent" \/ u = dest => sprintState'[u] # "absent"
    PROVE  IInv'
<1> DEFINE S == {i \in StandardIn(s) : ~Done(i)}
<1>1. S \in SUBSET Issue /\ \A j \in S : IsStandard(type[j])
  BY DEF StandardIn
<1>2. /\ MoveIssuesToSprint(S, dest)
      /\ UNCHANGED <<type, parent, status, resolvedAt, category, projectType>>
  BY DEF CloseSprint
<1>3. \A j \in Issue : sprint'[j] \in {sprint[j], dest}
  BY <1>2, AssignSprint DEF MoveIssuesToSprint, IInv
<1>4. \A j \in Issue : sprint[j] # NULL => sprint[j] \in Sprint /\ sprintState[sprint[j]] # "absent"
  BY NullAssumption DEF IInv, TypeOK, ReferencesExist, Live
<1>5. \A j \in Issue : sprint'[j] # NULL => sprintState'[sprint'[j]] # "absent"
  BY <1>3, <1>4
<1> HIDE DEF S
<1>6. QED
  BY <1>1, <1>2, <1>5, MoveIssuesIInv

LEMMA CompleteSprintIInv ==
    ASSUME IInv, NEW s \in Sprint, NEW dest \in Sprint \cup {NULL}, CompleteSprint(s, dest)
    PROVE  IInv'
<1>1. /\ dest # NULL => sprintState[dest] = "planned"
      /\ CloseSprint(s, dest)
      /\ sprintState' = [sprintState EXCEPT ![s] = "completed"]
  BY DEF CompleteSprint
<1>2. /\ sprintState' \in [Sprint -> {"absent", "planned", "active", "completed"}]
      /\ \A u \in Sprint : sprintState[u] # "absent" \/ u = dest => sprintState'[u] # "absent"
  BY <1>1, NullAssumption DEF IInv, TypeOK
<1>3. QED
  BY <1>1, <1>2, CloseSprintIInv

LEMMA CompleteSprintIntoNewIInv ==
    ASSUME IInv, NEW s \in Sprint, NEW dest \in Sprint, CompleteSprintIntoNew(s, dest)
    PROVE  IInv'
<1>1. /\ CloseSprint(s, dest)
      /\ sprintState' = [sprintState EXCEPT ![s] = "completed", ![dest] = "planned"]
  BY DEF CompleteSprintIntoNew
<1>2. /\ sprintState' \in [Sprint -> {"absent", "planned", "active", "completed"}]
      /\ \A u \in Sprint : sprintState[u] # "absent" \/ u = dest => sprintState'[u] # "absent"
  BY <1>1 DEF IInv, TypeOK
<1>3. QED
  BY <1>1, <1>2, CloseSprintIInv

(* Every issue of the sprint is a standard one or a subtask of one, so ON   *)
(* DELETE SET NULL finds nothing that was not logged.                       *)
LEMMA DeleteSprintIInv ==
    ASSUME IInv, NEW s \in Sprint, DeleteSprint(s)
    PROVE  IInv'
<1> DEFINE S == StandardIn(s)
<1>1. /\ sprint' = Assign(sprint, Movers(S) \cup {i \in Issue : sprint[i] = s}, NULL)
      /\ logged' = [logged EXCEPT !.sprint = LogSprintChanges(Movers(S), NULL)]
      /\ sprintState' = [sprintState EXCEPT ![s] = "absent"]
      /\ UNCHANGED <<type, parent, status, resolvedAt, category, projectType>>
  BY DEF DeleteSprint
<1>2. S \in SUBSET Issue /\ \A j \in S : IsStandard(type[j])
  BY DEF StandardIn
<1>3. ASSUME NEW i \in Issue, sprint[i] = s
      PROVE  i \in Movers(S)
  <2>1. i \in Live /\ sprint[i] # NULL
    BY <1>3, NullAssumption DEF IInv, TypeOK, Live
  <2>2. CASE IsStandard(type[i])
    BY <1>3, <2>2 DEF Movers, StandardIn
  <2>3. CASE type[i] = "subtask"
    <3>1. parent[i] \in S
      BY <1>3, <2>1, <2>3 DEF IInv, HierarchyOK, SubtasksShareSprint, StandardIn, Live
    <3>2. QED
      BY <2>3, <3>1 DEF Movers, SubtasksOf
  <2>4. QED
    BY <2>1, <2>2, <2>3 DEF IInv, TypeOK, HierarchyOK, Live, Types, IsStandard
<1>4. Movers(S) \cup {i \in Issue : sprint[i] = s} = Movers(S)
  BY <1>3
<1>5. MoveIssuesToSprint(S, NULL)
  BY <1>1, <1>4 DEF MoveIssuesToSprint
<1>6. \A j \in Issue : sprint'[j] # NULL => sprint'[j] = sprint[j] /\ sprint[j] # s
  BY <1>1, <1>3, <1>4, AssignSprint DEF IInv
<1>7. /\ sprintState' \in [Sprint -> {"absent", "planned", "active", "completed"}]
      /\ \A j \in Issue : sprint'[j] # NULL => sprintState'[sprint'[j]] # "absent"
  BY <1>1, <1>6, NullAssumption DEF IInv, TypeOK, ReferencesExist, Live
<1> HIDE DEF S
<1>8. QED
  BY <1>1, <1>2, <1>5, <1>7, MoveIssuesIInv

---------------------------------------------------------------------------
(* Status writes.                                                           *)

LEMMA CreateStatusIInv ==
    ASSUME IInv, NEW t \in Status, NEW c \in Categories, CreateStatus(t, c)
    PROVE  IInv'
<1>1. /\ category[t] = "absent"
      /\ category' = [category EXCEPT ![t] = c]
      /\ UNCHANGED <<issueVars, sprintState, projectType>>
  BY DEF CreateStatus
<1>2. \A i \in Live :
        /\ status[i] \in Status /\ category[status[i]] # "absent"
        /\ category'[status[i]] = category[status[i]]
  BY <1>1 DEF IInv, TypeOK, ReferencesExist, Statuses
<1>3. TypeOK' /\ HierarchyOK' /\ SubtasksShareSprint' /\ HistoryReplays'
  BY <1>1 DEF IInv, TypeOK, HierarchyOK, SubtasksShareSprint, HistoryReplays, issueVars, Live,
     IsStandard
<1>4. ReferencesExist' /\ ResolvedIffDone'
  BY <1>1, <1>2 DEF IInv, ReferencesExist, ResolvedIffDone, issueVars, Live, Statuses, Done
<1>5. QED
  BY <1>3, <1>4 DEF IInv

LEMMA UpdateStatusIInv ==
    ASSUME IInv, NEW t \in Status, NEW c \in Categories, UpdateStatus(t, c)
    PROVE  IInv'
<1>1. /\ t \in Statuses
      /\ category' = [category EXCEPT ![t] = c]
      /\ resolvedAt' \in IF (category[t] = "done") = (c = "done") THEN {resolvedAt}
                         ELSE RederiveResolvedAt(t, c = "done")
      /\ UNCHANGED <<type, parent, sprint, status, logged, sprintState, projectType>>
  BY DEF UpdateStatus
<1>2. \A u \in Status : category'[u] = IF u = t THEN c ELSE category[u]
  BY <1>1 DEF IInv, TypeOK
<1>3. c # "absent"
  BY CategoriesAssumption DEF Categories
<1>4. /\ resolvedAt' \in [Issue -> Time \cup {NULL}]
      /\ \A i \in Issue : status[i] # t => resolvedAt'[i] = resolvedAt[i]
      /\ \A i \in Live : status[i] = t => (resolvedAt'[i] # NULL <=> c = "done")
  <2>1. CASE (category[t] = "done") = (c = "done")
    BY <1>1, <2>1 DEF IInv, TypeOK, ResolvedIffDone, Live, Done
  <2>2. CASE (category[t] = "done") # (c = "done")
    <3>1. PICK now \in Time :
            resolvedAt' = [i \in Issue |-> IF status[i] # t THEN resolvedAt[i]
                                         ELSE IF ~(c = "done") THEN NULL
                                         ELSE IF resolvedAt[i] = NULL THEN now
                                         ELSE resolvedAt[i]]
      BY <1>1, <2>2 DEF RederiveResolvedAt
    <3>2. now # NULL
      BY NullAssumption
    <3>3. QED
      BY <3>1, <3>2 DEF IInv, TypeOK, Live
  <2>3. QED
    BY <2>1, <2>2
<1>5. TypeOK'
  <2>1. category' \in [Status -> Categories \cup {"absent"}]
    BY <1>1 DEF IInv, TypeOK
  <2>2. \A i \in Issue : type[i] = "absent" => resolvedAt'[i] = NULL
    BY <1>4, NullAssumption DEF IInv, TypeOK
  <2>3. QED
    BY <1>1, <1>4, <2>1, <2>2 DEF IInv, TypeOK
<1>6. HierarchyOK' /\ SubtasksShareSprint' /\ HistoryReplays'
  BY <1>1 DEF IInv, HierarchyOK, SubtasksShareSprint, HistoryReplays, Live, IsStandard
<1>7. ReferencesExist'
  BY <1>1, <1>2, <1>3 DEF IInv, ReferencesExist, Live, Statuses
<1>8. ResolvedIffDone'
  <2> SUFFICES ASSUME NEW i \in Live
               PROVE  resolvedAt'[i] # NULL <=> category'[status[i]] = "done"
    BY <1>1 DEF ResolvedIffDone, Live, Done
  <2>1. i \in Issue /\ status[i] \in Status
    BY DEF IInv, ReferencesExist, Live, Statuses
  <2>2. CASE status[i] = t
    BY <1>2, <1>4, <2>1, <2>2
  <2>3. CASE status[i] # t
    BY <1>2, <1>4, <2>1, <2>3 DEF IInv, ResolvedIffDone, Done
  <2>4. QED
    BY <2>2, <2>3
<1>9. QED
  BY <1>5, <1>6, <1>7, <1>8 DEF IInv

(* RESTRICT on issues.status_id never bites: by the time the status is      *)
(* deleted its users have another one.                                      *)
LEMMA DeleteStatusIInv ==
    ASSUME IInv, NEW t \in Status, NEW moveTo \in Status, DeleteStatus(t, moveTo)
    PROVE  IInv'
<1> DEFINE users == {i \in Issue : status[i] = t}
<1>1. /\ t \in Statuses
      /\ category' = [category EXCEPT ![t] = "absent"]
      /\ UNCHANGED <<type, parent, sprint, sprintState, projectType>>
  BY DEF DeleteStatus, issueVars
<1>2. \A u \in Status : category'[u] = IF u = t THEN "absent" ELSE category[u]
  BY <1>1 DEF IInv, TypeOK
<1>3. ASSUME NEW i \in Issue
      PROVE  type[i] # "absent" <=> status[i] # NULL
  BY DEF IInv, TypeOK
<1>4. /\ status' \in [Issue -> Status \cup {NULL}]
      /\ resolvedAt' \in [Issue -> Time \cup {NULL}]
      /\ HistoryReplays'
      /\ \A i \in Issue : status[i] # t =>
            /\ status'[i] = status[i]
            /\ resolvedAt'[i] = resolvedAt[i]
      /\ \A i \in Issue : status[i] = t =>
            /\ status'[i] \in Statuses \ {t}
            /\ resolvedAt'[i] # NULL <=> category[status'[i]] = "done"
  <2>1. CASE users = {} /\ UNCHANGED issueVars
    BY <2>1 DEF IInv, TypeOK, HistoryReplays, issueVars
  <2>2. CASE /\ moveTo \in Statuses \ {t}
             /\ status' = Assign(status, users, moveTo)
             /\ resolvedAt' \in RederiveResolvedAt(t, category[moveTo] = "done")
             /\ logged' = [logged EXCEPT !.status = Assign(@, users, moveTo)]
    <3>1. /\ status' \in [Issue -> Status \cup {NULL}]
          /\ \A i \in Issue : status'[i] = IF status[i] = t THEN moveTo ELSE status[i]
      BY <2>2 DEF Assign, IInv, TypeOK
    <3>2. HistoryReplays'
      BY <1>1, <2>2 DEF IInv, TypeOK, HistoryReplays
    <3>3. /\ resolvedAt' \in [Issue -> Time \cup {NULL}]
          /\ \A i \in Issue : status[i] # t => resolvedAt'[i] = resolvedAt[i]
          /\ \A i \in Issue : status[i] = t =>
                (resolvedAt'[i] # NULL <=> category[moveTo] = "done")
      <4>1. PICK now \in Time :
              resolvedAt' = [i \in Issue |-> IF status[i] # t THEN resolvedAt[i]
                                           ELSE IF ~(category[moveTo] = "done") THEN NULL
                                           ELSE IF resolvedAt[i] = NULL THEN now
                                           ELSE resolvedAt[i]]
        BY <2>2 DEF RederiveResolvedAt
      <4>2. now # NULL
        BY NullAssumption
      <4>3. QED
        BY <4>1, <4>2 DEF IInv, TypeOK
    <3>4. QED
      BY <2>2, <3>1, <3>2, <3>3
  <2>3. QED
    BY <2>1, <2>2 DEF DeleteStatus
<1>5. TypeOK'
  <2>1. category' \in [Status -> Categories \cup {"absent"}]
    BY <1>1 DEF IInv, TypeOK
  <2>2. logged' \in [parent : [Issue -> Issue \cup {NULL}],
                     sprint : [Issue -> Sprint \cup {NULL}],
                     status : [Issue -> Status \cup {NULL}]]
    BY <1>1, <1>4 DEF IInv, TypeOK, HistoryReplays
  <2>3. ASSUME NEW i \in Issue
        PROVE  /\ status'[i] = NULL <=> type[i] = "absent"
               /\ type[i] = "absent" => resolvedAt'[i] = NULL
    <3>1. CASE status[i] = t
      BY <1>3, <1>4, <3>1, NullAssumption DEF Statuses
    <3>2. CASE status[i] # t
      BY <1>4, <3>2 DEF IInv, TypeOK
    <3>3. QED
      BY <3>1, <3>2
  <2>4. QED
    BY <1>1, <1>4, <2>1, <2>2, <2>3 DEF IInv, TypeOK
<1>6. HierarchyOK' /\ SubtasksShareSprint'
  BY <1>1 DEF IInv, HierarchyOK, SubtasksShareSprint, Live, IsStandard
<1>7. \A i \in Live :
        /\ i \in Issue /\ status'[i] \in Statuses \ {t}
        /\ resolvedAt'[i] # NULL <=> category[status'[i]] = "done"
  BY <1>4 DEF IInv, ReferencesExist, ResolvedIffDone, Live, Done
<1>8. Statuses' = Statuses \ {t} /\ Live' = Live
  BY <1>1, <1>2 DEF Statuses, Live
<1>9. ReferencesExist'
  BY <1>1, <1>7, <1>8 DEF IInv, ReferencesExist
<1>10. ResolvedIffDone'
  <2>1. \A i \in Live : category'[status'[i]] = category[status'[i]]
    BY <1>2, <1>7 DEF Statuses
  <2>2. QED
    BY <1>7, <1>8, <2>1 DEF ResolvedIffDone, Done
<1>11. QED
  BY <1>4, <1>5, <1>6, <1>9, <1>10 DEF IInv

---------------------------------------------------------------------------
(* The theorems.                                                            *)

(* What is not about sprints or project types alone is untouched by them.   *)
LEMMA SettingsIInv ==
    ASSUME IInv, UNCHANGED <<issueVars, category>>,
           sprintState' \in [Sprint -> {"absent", "planned", "active", "completed"}],
           projectType' \in {"scrum", "kanban"},
           \A s \in Sprint : sprintState[s] # "absent" =>
                sprintState'[s] # "absent"
    PROVE  IInv'
<1>1. TypeOK' /\ HierarchyOK' /\ SubtasksShareSprint' /\ HistoryReplays' /\ ResolvedIffDone'
  BY DEF IInv, TypeOK, HierarchyOK, SubtasksShareSprint, HistoryReplays, ResolvedIffDone,
     issueVars, Live, IsStandard, Done
<1>2. ReferencesExist'
  BY NullAssumption DEF IInv, TypeOK, ReferencesExist, issueVars, Live, Statuses
<1>3. QED
  BY <1>1, <1>2 DEF IInv

LEMMA NextIInv == IInv /\ [Next]_vars => IInv'
<1> SUFFICES ASSUME IInv, [Next]_vars PROVE IInv'
  OBVIOUS
<1>1. CASE IssueWrite
  BY <1>1, CreateIssueIInv, UpdateIssueIInv, MoveIssueIInv, DeleteIssueIInv DEF IssueWrite
<1>2. CASE SprintWrite
  <2>1. PICK s \in Sprint :
          \/ CreateSprint(s) \/ StartSprint(s) \/ DeleteSprint(s)
          \/ \E dest \in Sprint \cup {NULL} : CompleteSprint(s, dest)
          \/ \E dest \in Sprint : CompleteSprintIntoNew(s, dest)
    BY <1>2 DEF SprintWrite
  <2>2. CASE CreateSprint(s)
    BY <2>2, SettingsIInv DEF CreateSprint, IInv, TypeOK
  <2>3. CASE StartSprint(s)
    BY <2>3, SettingsIInv DEF StartSprint, IInv, TypeOK
  <2>4. QED
    BY <2>1, <2>2, <2>3, DeleteSprintIInv, CompleteSprintIInv, CompleteSprintIntoNewIInv
<1>3. CASE StatusWrite
  BY <1>3, CreateStatusIInv, UpdateStatusIInv, DeleteStatusIInv DEF StatusWrite
<1>4. CASE \E k \in {"scrum", "kanban"} : UpdateProject(k)
  BY <1>4, SettingsIInv DEF UpdateProject, IInv, TypeOK
<1>5. CASE UNCHANGED vars
  BY <1>5, SettingsIInv DEF vars, IInv, TypeOK
<1>6. QED
  BY <1>1, <1>2, <1>3, <1>4, <1>5 DEF Next

(* The inductive invariant holds in every reachable state of a project, for *)
(* any issues, sprints, statuses and times.                                 *)
THEOREM Invariance == Spec => []IInv
<1>1. QED
  BY InitIInv, NextIInv, PTL DEF Spec

(* TypeOK holds in every reachable state.                                   *)
THEOREM TypeCorrect == Spec => []TypeOK
BY Invariance, PTL DEF IInv

(* No reachable state has an issue in a status or sprint that was deleted.  *)
THEOREM ReferencesAlwaysExist == Spec => []ReferencesExist
BY Invariance, PTL DEF IInv

(* The three-level hierarchy survives every operation.                      *)
THEOREM HierarchyAlwaysOK == Spec => []HierarchyOK
BY Invariance, PTL DEF IInv

(* Subtasks are always in their parent's sprint.                            *)
THEOREM SubtasksAlwaysShareSprint == Spec => []SubtasksShareSprint
BY Invariance, PTL DEF IInv

(* resolvedAt always agrees with the category of the status.                *)
THEOREM ResolvedAlwaysIffDone == Spec => []ResolvedIffDone
BY Invariance, PTL DEF IInv

(* All of it together, as the run checks it.                                *)
THEOREM AlwaysWellFormed == Spec => []WellFormed
BY TypeCorrect, ReferencesAlwaysExist, HierarchyAlwaysOK, ResolvedAlwaysIffDone, PTL
DEF WellFormed

(* The activity log always replays to the current state.                    *)
THEOREM HistoryAlwaysReplays == Spec => []HistoryReplays
BY Invariance, PTL DEF IInv

---------------------------------------------------------------------------
(* What no step may do.                                                     *)

(* An issue that one UPDATE puts into another sprint is the issue itself or *)
(* a subtask; the sprint it is put into is not a completed one.             *)
LEMMA WriteGainsNothing ==
    ASSUME IInv, NEW i \in Live, NEW k, NEW p, NEW t,
           NEW s \in Sprint \cup {NULL}, WriteIssueChanges(i, k, p, s, t),
           IsStandard(k) => IsStandard(type[i]) /\ s \in SprintOfStandard(i),
           NEW u \in Sprint, sprintState[u] = "completed"
    PROVE  StandardIn(u)' \subseteq StandardIn(u)
<1> SUFFICES ASSUME NEW j \in Issue, IsStandard(type'[j]), sprint'[j] = u
             PROVE  IsStandard(type[j]) /\ sprint[j] = u
  BY DEF StandardIn, IsStandard
<1> DEFINE moved == IF IsStandard(k) /\ s # sprint[i] THEN Movers({i}) ELSE {i}
<1>1. type' = [type EXCEPT ![i] = k] /\ sprint' = Assign(sprint, moved, s)
  BY DEF WriteIssueChanges
<1>2. sprint'[j] = IF j \in moved THEN s ELSE sprint[j]
  BY <1>1, AssignSprint DEF IInv
<1>3. CASE j = i
  <2>1. IsStandard(k) /\ s = u
    BY <1>1, <1>2, <1>3 DEF IInv, TypeOK, Movers
  <2>2. s \notin OpenSprints /\ s # NULL
    BY <2>1, NullAssumption DEF OpenSprints, ResolveSprint
  <2>3. QED
    BY <1>3, <2>1, <2>2 DEF SprintOfStandard
<1>4. CASE j # i
  <2>1. type'[j] = type[j]
    BY <1>1, <1>4 DEF IInv, TypeOK
  <2>2. j \notin moved
    BY <1>4, <2>1, TypesAssumption DEF Movers, SubtasksOf, IsStandard
  <2>3. QED
    BY <1>2, <2>1, <2>2
<1>5. QED
  BY <1>3, <1>4

LEMMA MoveGainsNothing ==
    ASSUME IInv, NEW S, NEW dest \in Sprint \cup {NULL},
           sprint' = Assign(sprint, S, dest), UNCHANGED type,
           NEW u \in Sprint, dest # u
    PROVE  StandardIn(u)' \subseteq StandardIn(u)
<1>1. \A j \in Issue : sprint'[j] = IF j \in S THEN dest ELSE sprint[j]
  BY AssignSprint DEF IInv
<1>2. QED
  BY <1>1 DEF StandardIn, IsStandard

LEMMA StepGainsNothing ==
    ASSUME IInv, [Next]_vars, NEW u \in Sprint, sprintState[u] = "completed"
    PROVE  StandardIn(u)' \subseteq StandardIn(u)
<1>1. CASE IssueWrite
  <2>1. PICK i \in Issue :
          \/ \E k \in Types, p \in Issue \cup {NULL} :
                CreateIssue(i, k, p) \/ UpdateIssue(i, k, p)
          \/ MoveIssue(i)
          \/ DeleteIssue(i)
    BY <1>1 DEF IssueWrite
  <2>2. ASSUME NEW k \in Types, NEW p \in Issue \cup {NULL}, CreateIssue(i, k, p)
        PROVE  StandardIn(u)' \subseteq StandardIn(u)
    <3>1. PICK s \in SprintAtCreation(k, p) :
            type' = [type EXCEPT ![i] = k] /\ sprint' = [sprint EXCEPT ![i] = s]
      BY <2>2 DEF CreateIssue
    <3>2. IsStandard(k) => s # u
      BY <3>1, NullAssumption, TypesAssumption
      DEF SprintAtCreation, OpenSprints, ResolveSprint, IsStandard
    <3>3. \A j \in Issue : j # i => type'[j] = type[j] /\ sprint'[j] = sprint[j]
      BY <3>1 DEF IInv, TypeOK
    <3>4. type'[i] = k /\ sprint'[i] = s
      BY <3>1 DEF IInv, TypeOK
    <3>5. QED
      BY <3>2, <3>3, <3>4 DEF StandardIn, IsStandard
  <2>3. ASSUME NEW k \in Types, NEW p \in Issue \cup {NULL}, UpdateIssue(i, k, p)
        PROVE  StandardIn(u)' \subseteq StandardIn(u)
    <3>1. i \in Live /\ (k # type[i] => IsStandard(k) /\ IsStandard(type[i]))
          /\ (p # parent[i] => ResolveParent(k, p))
      BY <2>3 DEF UpdateIssue
    <3>2. PICK t \in ResolveStatus(i), s \in SprintAfterUpdate(i, k, p) :
            WriteIssueChanges(i, k, p, s, t)
      BY <2>3 DEF UpdateIssue
    <3>3. /\ s \in Sprint \cup {NULL}
          /\ IsStandard(k) => IsStandard(type[i]) /\ s \in SprintOfStandard(i)
      <4>1. CASE IsStandard(k)
        BY <3>1, <3>2, <4>1, SprintOfStandardExists, TypesAssumption
        DEF SprintAfterUpdate, IsStandard
      <4>2. CASE k = "epic"
        BY <3>1, <3>2, <4>2, TypesAssumption
        DEF SprintAfterUpdate, IsStandard, IInv, TypeOK, Live
      <4>3. CASE k = "subtask"
        BY <3>1, <3>2, <4>3, TypesAssumption
        DEF SprintAfterUpdate, IsStandard, IInv, TypeOK, Live
      <4>4. QED
        BY <4>1, <4>2, <4>3 DEF Types, IsStandard
    <3>4. QED
      BY <3>1, <3>2, <3>3, WriteGainsNothing
  <2>4. CASE MoveIssue(i)
    <3>1. i \in Live
      BY <2>4 DEF MoveIssue
    <3>2. PICK t \in ResolveStatus(i),
               s \in IF IsStandard(type[i]) THEN SprintOfStandard(i) ELSE {sprint[i]} :
            WriteIssueChanges(i, type[i], parent[i], s, t)
      BY <2>4 DEF MoveIssue
    <3>3. /\ s \in Sprint \cup {NULL}
          /\ IsStandard(type[i]) => s \in SprintOfStandard(i)
      BY <3>1, <3>2, SprintOfStandardExists DEF IInv, TypeOK, Live
    <3>4. QED
      BY <3>1, <3>2, <3>3, WriteGainsNothing
  <2>5. CASE DeleteIssue(i)
    <3>1. /\ type' = Assign(type, {i} \cup SubtasksOf({i}), "absent")
          /\ sprint' = Assign(sprint, {i} \cup SubtasksOf({i}), NULL)
      BY <2>5 DEF DeleteIssue, Victims
    <3>2. \A j \in Issue :
            /\ sprint'[j] \in {NULL, sprint[j]}
            /\ type'[j] \in {"absent", type[j]}
      BY <3>1 DEF IInv, TypeOK, Assign
    <3>3. QED
      BY <3>2, NullAssumption, TypesAssumption DEF StandardIn, IsStandard
  <2>6. QED
    BY <2>1, <2>2, <2>3, <2>4, <2>5
<1>2. CASE SprintWrite
  <2>1. PICK s \in Sprint :
          \/ CreateSprint(s) \/ StartSprint(s) \/ DeleteSprint(s)
          \/ \E dest \in Sprint \cup {NULL} : CompleteSprint(s, dest)
          \/ \E dest \in Sprint : CompleteSprintIntoNew(s, dest)
    BY <1>2 DEF SprintWrite
  <2>2. CASE CreateSprint(s) \/ StartSprint(s)
    BY <2>2 DEF CreateSprint, StartSprint, issueVars, StandardIn, IsStandard
  <2>3. CASE DeleteSprint(s)
    BY <2>3, MoveGainsNothing, NullAssumption DEF DeleteSprint
  <2>4. ASSUME NEW dest \in Sprint \cup {NULL}, CompleteSprint(s, dest)
        PROVE  StandardIn(u)' \subseteq StandardIn(u)
    BY <2>4, MoveGainsNothing, NullAssumption
    DEF CompleteSprint, CloseSprint, MoveIssuesToSprint
  <2>5. ASSUME NEW dest \in Sprint, CompleteSprintIntoNew(s, dest)
        PROVE  StandardIn(u)' \subseteq StandardIn(u)
    BY <2>5, MoveGainsNothing DEF CompleteSprintIntoNew, CloseSprint, MoveIssuesToSprint
  <2>6. QED
    BY <2>1, <2>2, <2>3, <2>4, <2>5
<1>3. CASE \/ StatusWrite
           \/ \E k \in {"scrum", "kanban"} : UpdateProject(k)
           \/ UNCHANGED vars
  <2>1. UNCHANGED <<type, sprint>>
    BY <1>3 DEF StatusWrite, CreateStatus, UpdateStatus, DeleteStatus, UpdateProject, vars,
       issueVars
  <2>2. QED
    BY <2>1 DEF StandardIn, IsStandard
<1>4. QED
  BY <1>1, <1>2, <1>3 DEF Next

(* A completed sprint is a record: nothing joins it any more.               *)
THEOREM CompletedSprintsGain == Spec => CompletedSprintsGainNothing
<1>1. IInv /\ [Next]_vars =>
        [\A s \in Sprint : sprintState[s] = "completed" =>
            StandardIn(s)' \subseteq StandardIn(s)]_vars
  BY StepGainsNothing
<1>2. QED
  BY <1>1, Invariance, PTL DEF Spec, CompletedSprintsGainNothing

(* Writes of issues and statuses do not touch the sprints' states.          *)
LEMMA IssueWriteKeepsStates ==
    ASSUME IssueWrite PROVE sprintState' = sprintState
<1>1. ASSUME NEW i \in Issue, NEW k \in Types, NEW p \in Issue \cup {NULL},
             CreateIssue(i, k, p) \/ UpdateIssue(i, k, p)
      PROVE  sprintState' = sprintState
  BY <1>1 DEF CreateIssue, UpdateIssue
<1>2. ASSUME NEW i \in Issue, MoveIssue(i) \/ DeleteIssue(i)
      PROVE  sprintState' = sprintState
  BY <1>2 DEF MoveIssue, DeleteIssue
<1>3. QED
  BY <1>1, <1>2 DEF IssueWrite

LEMMA StatusWriteKeepsStates ==
    ASSUME StatusWrite PROVE sprintState' = sprintState
<1>1. ASSUME NEW t \in Status, NEW c \in Categories, CreateStatus(t, c) \/ UpdateStatus(t, c)
      PROVE  sprintState' = sprintState
  BY <1>1 DEF CreateStatus, UpdateStatus
<1>2. ASSUME NEW t \in Status, NEW moveTo \in Status, DeleteStatus(t, moveTo)
      PROVE  sprintState' = sprintState
  BY <1>2 DEF DeleteStatus
<1>3. QED
  BY <1>1, <1>2 DEF StatusWrite

LEMMA StepSplits ==
    ASSUME IInv, [Next]_vars,
           NEW u \in Sprint, sprintState[u] = "active", sprintState'[u] = "completed"
    PROVE  StandardIn(u)' = {i \in StandardIn(u) : Done(i)}
<1>1. PICK s \in Sprint :
        \/ \E dest \in Sprint \cup {NULL} : CompleteSprint(s, dest)
        \/ \E dest \in Sprint : CompleteSprintIntoNew(s, dest)
  <2>1. ASSUME NEW s \in Sprint, CreateSprint(s) \/ StartSprint(s) \/ DeleteSprint(s)
        PROVE  FALSE
    <3>1. DOMAIN sprintState = Sprint
      BY DEF IInv, TypeOK
    <3>2. PICK v \in {"planned", "active", "absent"} : sprintState' = [sprintState EXCEPT ![s] = v]
      BY <2>1 DEF CreateSprint, StartSprint, DeleteSprint
    <3>3. QED
      BY <3>1, <3>2
  <2>2. sprintState' # sprintState
    OBVIOUS
  <2>3. ~IssueWrite
    BY <2>2, IssueWriteKeepsStates
  <2>4. ~StatusWrite
    BY <2>2, StatusWriteKeepsStates
  <2>5. QED
    BY <2>1, <2>2, <2>3, <2>4 DEF Next, SprintWrite, UpdateProject, vars
<1>2. PICK dest \in Sprint \cup {NULL} :
        /\ CloseSprint(s, dest)
        /\ dest # NULL => sprintState[dest] \in {"planned", "absent"}
        /\ s = u
  <2>1. ASSUME NEW dest \in Sprint \cup {NULL}, CompleteSprint(s, dest)
        PROVE  CloseSprint(s, dest) /\ s = u
               /\ (dest # NULL => sprintState[dest] \in {"planned", "absent"})
    BY <2>1 DEF CompleteSprint, IInv, TypeOK
  <2>2. ASSUME NEW dest \in Sprint, CompleteSprintIntoNew(s, dest)
        PROVE  CloseSprint(s, dest) /\ s = u
               /\ (dest # NULL => sprintState[dest] \in {"planned", "absent"})
    BY <2>2 DEF CompleteSprintIntoNew, IInv, TypeOK
  <2>3. QED
    BY <1>1, <2>1, <2>2
<1>3. dest # u
  BY <1>2, NullAssumption
<1> DEFINE S == {i \in StandardIn(u) : ~Done(i)}
<1>4. \A j \in Issue : sprint'[j] = IF j \in Movers(S) THEN dest ELSE sprint[j]
  BY <1>2, AssignSprint DEF CloseSprint, MoveIssuesToSprint, IInv
<1>5. \A j \in Issue : IsStandard(type[j]) => (j \in Movers(S) <=> j \in S)
  BY TypesAssumption DEF Movers, SubtasksOf, IsStandard
<1>6. type' = type
  BY <1>2 DEF CloseSprint
<1> HIDE DEF S
<1>7. StandardIn(u)' = {j \in Issue : IsStandard(type[j]) /\ sprint[j] = u /\ j \notin S}
  BY <1>3, <1>4, <1>5, <1>6 DEF StandardIn, IsStandard
<1>8. QED
  BY <1>7 DEF S, StandardIn

(* Completing a sprint splits its issues by whether they are done.          *)
THEOREM CompletionSplits == Spec => CompletionSplitsSprint
<1>1. IInv /\ [Next]_vars =>
        [\A s \in Sprint : sprintState[s] = "active" /\ sprintState'[s] = "completed" =>
            StandardIn(s)' = {i \in StandardIn(s) : Done(i)}]_vars
  BY StepSplits
<1>2. QED
  BY <1>1, Invariance, PTL DEF Spec, CompletionSplitsSprint

---------------------------------------------------------------------------
(* Refinement: the sprints follow the abstract life cycle.                  *)

LEMMA StepFollowsLifecycle ==
    ASSUME IInv, [Next]_vars
    PROVE  [Lifecycle!LifecycleNext]_sprintState
<1>1. CASE IssueWrite
  BY <1>1, IssueWriteKeepsStates
<1>2. CASE SprintWrite
  <2>1. PICK s \in Sprint :
          \/ CreateSprint(s) \/ StartSprint(s) \/ DeleteSprint(s)
          \/ \E dest \in Sprint \cup {NULL} : CompleteSprint(s, dest)
          \/ \E dest \in Sprint : CompleteSprintIntoNew(s, dest)
    BY <1>2 DEF SprintWrite
  <2>2. CASE CreateSprint(s)
    BY <2>2 DEF CreateSprint, Lifecycle!LifecycleNext, Lifecycle!Plan
  <2>3. CASE StartSprint(s)
    BY <2>3 DEF StartSprint, Lifecycle!LifecycleNext, Lifecycle!Start
  <2>4. CASE DeleteSprint(s)
    BY <2>4 DEF DeleteSprint, Lifecycle!LifecycleNext, Lifecycle!Discard
  <2>5. CASE \E dest \in Sprint \cup {NULL} : CompleteSprint(s, dest)
    BY <2>5 DEF CompleteSprint, CloseSprint, Lifecycle!LifecycleNext, Lifecycle!Complete
  <2>6. CASE \E dest \in Sprint : CompleteSprintIntoNew(s, dest)
    BY <2>6 DEF CompleteSprintIntoNew, CloseSprint, Lifecycle!LifecycleNext,
       Lifecycle!CompleteIntoNew
  <2>7. QED
    BY <2>1, <2>2, <2>3, <2>4, <2>5, <2>6
<1>3. CASE StatusWrite
  BY <1>3, StatusWriteKeepsStates
<1>4. CASE \E k \in {"scrum", "kanban"} : UpdateProject(k)
  BY <1>4 DEF UpdateProject
<1>5. CASE UNCHANGED vars
  BY <1>5 DEF vars
<1>6. QED
  BY <1>1, <1>2, <1>3, <1>4, <1>5 DEF Next

(* Every behaviour of the project is one of the abstract life cycle.        *)
THEOREM Refinement == Spec => ImplementsLifecycle
<1>1. Init => Lifecycle!LifecycleInit
  BY DEF Init, Lifecycle!LifecycleInit
<1>2. IInv /\ [Next]_vars => [Lifecycle!LifecycleNext]_sprintState
  BY StepFollowsLifecycle
<1>3. QED
  BY <1>1, <1>2, Invariance, PTL DEF Spec, ImplementsLifecycle, Lifecycle!LifecycleSpec

(* At most one sprint of a project is ever active.                          *)
THEOREM AtMostOneActiveSprint == Spec => []Lifecycle!OneActiveSprint
<1> DEFINE Inv == Lifecycle!LifecycleTypeOK /\ Lifecycle!OneActiveSprint
<1>1. Lifecycle!LifecycleInit => Inv
  BY DEF Lifecycle!LifecycleInit, Lifecycle!LifecycleTypeOK, Lifecycle!OneActiveSprint,
     Lifecycle!SprintStates
<1>2. Inv /\ [Lifecycle!LifecycleNext]_sprintState => Inv'
  BY DEF Lifecycle!LifecycleTypeOK, Lifecycle!OneActiveSprint, Lifecycle!LifecycleNext,
     Lifecycle!Plan, Lifecycle!Start, Lifecycle!Complete, Lifecycle!CompleteIntoNew,
     Lifecycle!Discard, Lifecycle!SprintStates
<1>3. QED
  BY <1>1, <1>2, Refinement, PTL DEF ImplementsLifecycle, Lifecycle!LifecycleSpec

---------------------------------------------------------------------------
(* The time of resolution, and deletion.                                    *)

LEMMA WriteKeepsResolvedAt ==
    ASSUME IInv, NEW j \in Live, NEW k, NEW p, NEW s, NEW t \in Statuses,
           WriteIssueChanges(j, k, p, s, t), UNCHANGED category,
           NEW i \in Live, Done(i), Done(i)'
    PROVE  resolvedAt'[i] = resolvedAt[i]
<1>1. PICK r \in IF t = status[j] THEN {resolvedAt[j]}
               ELSE ResolvedAtFor(resolvedAt[j], category[status[j]], category[t]) :
        resolvedAt' = [resolvedAt EXCEPT ![j] = r]
  BY DEF WriteIssueChanges
<1>2. status' = [status EXCEPT ![j] = t]
  BY DEF WriteIssueChanges
<1>3. CASE i = j
  <2>1. category[t] = "done" /\ category[status[j]] = "done" /\ resolvedAt[j] # NULL
    BY <1>2, <1>3 DEF IInv, TypeOK, ResolvedIffDone, Done, Live
  <2>2. r = resolvedAt[j]
    BY <1>1, <2>1 DEF ResolvedAtFor
  <2>3. QED
    BY <1>1, <1>3, <2>2 DEF IInv, TypeOK, Live
<1>4. CASE i # j
  BY <1>1, <1>4 DEF IInv, TypeOK, Live
<1>5. QED
  BY <1>3, <1>4

LEMMA StepKeepsResolvedAt ==
    ASSUME IInv, [Next]_vars, NEW i \in Live, type'[i] # "absent", Done(i), Done(i)'
    PROVE  resolvedAt'[i] = resolvedAt[i]
<1>0. i \in Issue /\ type[i] # "absent" /\ status[i] \in Status /\ resolvedAt[i] # NULL
  BY DEF IInv, ReferencesExist, ResolvedIffDone, Live, Statuses
<1>1. CASE IssueWrite
  <2>1. PICK j \in Issue :
          \/ \E k \in Types, p \in Issue \cup {NULL} :
                CreateIssue(j, k, p) \/ UpdateIssue(j, k, p)
          \/ MoveIssue(j)
          \/ DeleteIssue(j)
    BY <1>1 DEF IssueWrite
  <2>2. ASSUME NEW k \in Types, NEW p \in Issue \cup {NULL}, CreateIssue(j, k, p)
        PROVE  resolvedAt'[i] = resolvedAt[i]
    BY <2>2 DEF CreateIssue, IInv, TypeOK, Live
  <2>3. ASSUME NEW k \in Types, NEW p \in Issue \cup {NULL}, UpdateIssue(j, k, p)
        PROVE  resolvedAt'[i] = resolvedAt[i]
    <3>1. PICK t \in ResolveStatus(j), s \in SprintAfterUpdate(j, k, p) :
            WriteIssueChanges(j, k, p, s, t)
      BY <2>3 DEF UpdateIssue
    <3>2. j \in Live /\ UNCHANGED category
      BY <2>3 DEF UpdateIssue
    <3>3. t \in Statuses
      BY <3>1, <3>2 DEF ResolveStatus, IInv, ReferencesExist
    <3>4. QED
      BY <3>1, <3>2, <3>3, WriteKeepsResolvedAt
  <2>4. CASE MoveIssue(j)
    <3>1. PICK t \in ResolveStatus(j),
               s \in IF IsStandard(type[j]) THEN SprintOfStandard(j) ELSE {sprint[j]} :
            WriteIssueChanges(j, type[j], parent[j], s, t)
      BY <2>4 DEF MoveIssue
    <3>2. j \in Live /\ UNCHANGED category
      BY <2>4 DEF MoveIssue
    <3>3. t \in Statuses
      BY <3>1, <3>2 DEF ResolveStatus, IInv, ReferencesExist
    <3>4. QED
      BY <3>1, <3>2, <3>3, WriteKeepsResolvedAt
  <2>5. CASE DeleteIssue(j)
    BY <1>0, <2>5 DEF DeleteIssue, Victims, Assign, IInv, TypeOK
  <2>6. QED
    BY <2>1, <2>2, <2>3, <2>4, <2>5
<1>2. CASE SprintWrite
  BY <1>2 DEF SprintWrite, CreateSprint, StartSprint, CompleteSprint, CompleteSprintIntoNew,
     CloseSprint, DeleteSprint, issueVars
<1>3. CASE StatusWrite
  <2>1. ASSUME NEW t \in Status, NEW c \in Categories, CreateStatus(t, c)
        PROVE  resolvedAt'[i] = resolvedAt[i]
    BY <2>1 DEF CreateStatus, issueVars
  <2>2. ASSUME NEW t \in Status, NEW c \in Categories, UpdateStatus(t, c)
        PROVE  resolvedAt'[i] = resolvedAt[i]
    <3>1. category' = [category EXCEPT ![t] = c] /\ status' = status
      BY <2>2 DEF UpdateStatus
    <3>2. status[i] = t => category[t] = "done" /\ c = "done"
      BY <1>0, <3>1 DEF Done, IInv, TypeOK
    <3>3. CASE (category[t] = "done") = (c = "done")
      BY <2>2, <3>3 DEF UpdateStatus
    <3>4. CASE (category[t] = "done") # (c = "done")
      <4>1. resolvedAt' \in RederiveResolvedAt(t, c = "done")
        BY <2>2, <3>4 DEF UpdateStatus
      <4>2. status[i] # t
        BY <3>2, <3>4
      <4>3. QED
        BY <1>0, <4>1, <4>2 DEF RederiveResolvedAt
    <3>5. QED
      BY <3>3, <3>4
  <2>3. ASSUME NEW t \in Status, NEW moveTo \in Status, DeleteStatus(t, moveTo)
        PROVE  resolvedAt'[i] = resolvedAt[i]
    <3>1. CASE UNCHANGED issueVars
      BY <3>1 DEF issueVars
    <3>2. CASE /\ status' = Assign(status, {x \in Issue : status[x] = t}, moveTo)
               /\ resolvedAt' \in RederiveResolvedAt(t, category[moveTo] = "done")
               /\ moveTo \in Statuses \ {t}
      <4>1. status[i] = t => status'[i] = moveTo
        BY <1>0, <3>2 DEF Assign, IInv, TypeOK
      <4>2. category'[moveTo] = category[moveTo]
        BY <2>3, <3>2 DEF DeleteStatus, IInv, TypeOK, Statuses
      <4>3. status[i] = t => category[moveTo] = "done"
        BY <4>1, <4>2 DEF Done
      <4>4. QED
        BY <1>0, <3>2, <4>3 DEF RederiveResolvedAt
    <3>3. QED
      BY <2>3, <3>1, <3>2 DEF DeleteStatus
  <2>4. QED
    BY <1>3, <2>1, <2>2, <2>3 DEF StatusWrite
<1>4. CASE (\E k \in {"scrum", "kanban"} : UpdateProject(k)) \/ UNCHANGED vars
  BY <1>4 DEF UpdateProject, vars, issueVars
<1>5. QED
  BY <1>1, <1>2, <1>3, <1>4 DEF Next

(* Work that stays done keeps the date it was done at.                      *)
THEOREM DoneKeeps == Spec => DoneKeepsResolvedAt
<1>1. IInv /\ [Next]_vars =>
        [\A i \in Live : type'[i] # "absent" /\ Done(i) /\ Done(i)' =>
            resolvedAt'[i] = resolvedAt[i]]_vars
  BY StepKeepsResolvedAt
<1>2. QED
  BY <1>1, Invariance, PTL DEF Spec, DoneKeepsResolvedAt

LEMMA StepContainsDeletion ==
    ASSUME IInv, [Next]_vars
    PROVE  LET gone == {i \in Live : type'[i] = "absent"}
           IN  gone # {} =>
                /\ \E root \in gone : gone = {root} \cup SubtasksOf({root})
                /\ \A i \in Live \ gone :
                    /\ type'[i] = type[i] /\ status'[i] = status[i] /\ sprint'[i] = sprint[i]
                    /\ parent'[i] = IF parent[i] \in gone THEN NULL ELSE parent[i]
<1> DEFINE gone == {i \in Live : type'[i] = "absent"}
<1> SUFFICES ASSUME NEW x \in gone
             PROVE  /\ \E root \in gone : gone = {root} \cup SubtasksOf({root})
                    /\ \A i \in Live \ gone :
                        /\ type'[i] = type[i] /\ status'[i] = status[i] /\ sprint'[i] = sprint[i]
                        /\ parent'[i] = IF parent[i] \in gone THEN NULL ELSE parent[i]
  OBVIOUS
<1>1. type'[x] # type[x] /\ x \in Issue
  BY DEF Live
<1>2. PICK root \in Issue : DeleteIssue(root)
  <2>0. type \in [Issue -> Types \cup {"absent"}] /\ "absent" \notin Types
    BY TypesAssumption DEF IInv, TypeOK, Types
  <2>1. ASSUME NEW i \in Issue, NEW k \in Types,
               type' = [type EXCEPT ![i] = k]
        PROVE  FALSE
    BY <1>1, <2>0, <2>1
  <2>2. ASSUME NEW i \in Issue, MoveIssue(i)
        PROVE  FALSE
    <3>1. type' = [type EXCEPT ![i] = type[i]]
      BY <2>2 DEF MoveIssue, WriteIssueChanges
    <3>2. QED
      BY <1>1, <2>0, <3>1
  <2>3. CASE SprintWrite
    BY <1>1, <2>3 DEF SprintWrite, CreateSprint, StartSprint, CompleteSprint,
       CompleteSprintIntoNew, CloseSprint, DeleteSprint, issueVars
  <2>4. CASE StatusWrite
    BY <1>1, <2>4 DEF StatusWrite, CreateStatus, UpdateStatus, DeleteStatus, issueVars
  <2>5. CASE (\E k \in {"scrum", "kanban"} : UpdateProject(k)) \/ UNCHANGED vars
    BY <1>1, <2>5 DEF UpdateProject, vars, issueVars
  <2>6. ASSUME NEW i \in Issue, NEW k \in Types, NEW p \in Issue \cup {NULL},
               CreateIssue(i, k, p) \/ UpdateIssue(i, k, p)
        PROVE  type' = [type EXCEPT ![i] = k]
    BY <2>6 DEF CreateIssue, UpdateIssue, WriteIssueChanges
  <2>7. QED
    BY <2>1, <2>2, <2>3, <2>4, <2>5, <2>6 DEF Next, IssueWrite
<1> DEFINE victims == {root} \cup SubtasksOf({root})
<1>3. \A i \in Issue :
        IF i \in victims THEN type'[i] = "absent"
        ELSE type'[i] = type[i] /\ status'[i] = status[i] /\ sprint'[i] = sprint[i]
  BY <1>2 DEF DeleteIssue, Victims, Assign, IInv, TypeOK
<1>4. root \in Live /\ victims \subseteq Live
  BY <1>2 DEF DeleteIssue, Victims, SubtasksOf, Live
<1>5. gone = victims
  BY <1>3, <1>4 DEF Live
<1>6. ASSUME NEW i \in Live \ gone
      PROVE  parent'[i] = IF parent[i] \in gone THEN NULL ELSE parent[i]
  <2>1. parent' = Assign(parent, {c \in Issue : parent[c] = root /\ type[c] # "subtask"}
                                 \cup {c \in Issue : parent[c] \in victims}
                                 \cup victims, NULL)
    BY <1>2 DEF DeleteIssue, Victims
  <2>2. QED
    BY <1>5, <1>6, <2>1 DEF Assign, IInv, TypeOK, Live
<1>7. QED
  BY <1>3, <1>4, <1>5, <1>6 DEF Live

(* A deletion takes the issue and its subtasks and leaves the rest alone.   *)
THEOREM DeletionContained == Spec => DeletionIsContained
<1>1. IInv /\ [Next]_vars =>
        [LET gone == {i \in Live : type'[i] = "absent"}
         IN  gone # {} =>
              /\ \E root \in gone : gone = {root} \cup SubtasksOf({root})
              /\ \A i \in Live \ gone :
                  /\ type'[i] = type[i] /\ status'[i] = status[i] /\ sprint'[i] = sprint[i]
                  /\ parent'[i] = IF parent[i] \in gone THEN NULL ELSE parent[i]]_vars
  BY StepContainsDeletion
<1>2. QED
  BY <1>1, Invariance, PTL DEF Spec, DeletionIsContained
=============================================================================
