------------------------------ MODULE Issues ------------------------------
(***************************************************************************)
(* The issues, sprints and statuses of one Gene Board project, and every   *)
(* operation of the service that changes them.                             *)
(*                                                                         *)
(* Each write locks the project row before it reads what it decides on     *)
(* (lockProjectAs) and commits or rolls back as a whole, so here one       *)
(* operation is one step; the locking itself is the subject of Members.    *)
(* A request that the code refuses is not a step.                          *)
(*                                                                         *)
(* Left to other modules: who may call (Members), rank, names and dates.   *)
(* The operations whose only effect is on those (UpdateSprint,             *)
(* ReorderStatuses) do not change this state.                              *)
(***************************************************************************)
CONSTANTS
    Issue,             \* row identities; one is free again once its row is gone,
                       \* since the foreign keys leave nothing that refers to it
    Sprint,            \* sprint identities, reused likewise
    Status,            \* status identities, reused likewise
    StandardTypes,     \* the interchangeable types: story, task and bug
    OpenCategories,    \* the status categories other than "done"
    DefaultCategory,   \* category of each status of a new project, "absent" = no row
    Time,              \* what now() may return; no property compares two times
    NULL               \* SQL null

Types == StandardTypes \cup {"epic", "subtask"}
Categories == OpenCategories \cup {"done"}

ASSUME TypesAssumption ==
    /\ "epic" \notin StandardTypes
    /\ "subtask" \notin StandardTypes
    /\ "absent" \notin StandardTypes

ASSUME CategoriesAssumption ==
    /\ "done" \notin OpenCategories
    /\ "absent" \notin OpenCategories
    /\ DefaultCategory \in [Status -> Categories \cup {"absent"}]
    /\ \E t \in Status : DefaultCategory[t] # "absent"

ASSUME NullAssumption == NULL \notin Issue \cup Sprint \cup Status \cup Time

VARIABLES
    type,          \* issues.type, "absent" where there is no row
    parent,        \* issues.parent_id
    sprint,        \* issues.sprint_id
    status,        \* issues.status_id
    resolvedAt,    \* issues.resolved_at
    logged,        \* per field, what the activities of an issue end at: its value at
                   \* creation, then the new value of each issue.updated row
    sprintState,   \* sprints.state, "absent" where there is no row
    category,      \* statuses.category, "absent" where there is no row
    projectType    \* projects.type

issueVars == <<type, parent, sprint, status, resolvedAt, logged>>
vars == <<issueVars, sprintState, category, projectType>>

TypeOK ==
    /\ type \in [Issue -> Types \cup {"absent"}]
    /\ parent \in [Issue -> Issue \cup {NULL}]
    /\ sprint \in [Issue -> Sprint \cup {NULL}]
    /\ status \in [Issue -> Status \cup {NULL}]
    /\ resolvedAt \in [Issue -> Time \cup {NULL}]
    /\ logged \in [parent : [Issue -> Issue \cup {NULL}],
                   sprint : [Issue -> Sprint \cup {NULL}],
                   status : [Issue -> Status \cup {NULL}]]
    /\ sprintState \in [Sprint -> {"absent", "planned", "active", "completed"}]
    /\ category \in [Status -> Categories \cup {"absent"}]
    /\ projectType \in {"scrum", "kanban"}
    /\ \A i \in Issue :    \* NOT NULL columns; nothing is left of a deleted row
        /\ status[i] = NULL <=> type[i] = "absent"
        /\ type[i] = "absent" =>
             parent[i] = NULL /\ sprint[i] = NULL /\ resolvedAt[i] = NULL

(* CreateProject: the default workflow, no issue, no sprint, and either     *)
(* project type.                                                            *)
Init ==
    /\ type = [i \in Issue |-> "absent"]
    /\ parent = [i \in Issue |-> NULL]
    /\ sprint = [i \in Issue |-> NULL]
    /\ status = [i \in Issue |-> NULL]
    /\ resolvedAt = [i \in Issue |-> NULL]
    /\ logged = [parent |-> parent, sprint |-> sprint, status |-> status]
    /\ sprintState = [s \in Sprint |-> "absent"]
    /\ category = DefaultCategory
    /\ projectType \in {"scrum", "kanban"}

---------------------------------------------------------------------------
(* Helpers shared by the operations.                                        *)

Live == {i \in Issue : type[i] # "absent"}
Statuses == {t \in Status : category[t] # "absent"}
IsStandard(k) == k \in StandardTypes
Done(i) == category[status[i]] = "done"

(* f with the value v at every member of S: an UPDATE of the rows S.        *)
Assign(f, S, v) == [x \in DOMAIN f |-> IF x \in S THEN v ELSE f[x]]

SubtasksOf(S) == {i \in Issue : type[i] = "subtask" /\ parent[i] \in S}

(* Subtasks require a standard parent, standard issues may have an epic.    *)
ResolveParent(k, p) ==
    \/ k # "subtask" /\ p = NULL
    \/ k = "subtask" /\ p \in Live /\ IsStandard(type[p])
    \/ IsStandard(k) /\ p \in Live /\ type[p] = "epic"

(* Mutant: completed sprints are not refused.                               *)
ResolveAnySprint(s) ==
    /\ projectType = "scrum"
    /\ sprintState[s] # "absent"

(* A sprint an issue may be put into.                                       *)
ResolveSprint(s) ==
    /\ projectType = "scrum"
    /\ sprintState[s] \in {"planned", "active"}

(* Mutant: entering a done status always stamps the current time.           *)
ResolvedAtForRestamped(current, old, new) ==
    IF new # "done" THEN {NULL} ELSE Time

(* The times an issue that goes from a status of category old to one of     *)
(* category new may have: now() is any time.                                *)
ResolvedAtFor(current, old, new) ==
    IF new # "done" THEN {NULL}
    ELSE IF old = "done" /\ current # NULL THEN {current}
    ELSE Time

(* Mutant: issues resolved earlier stay resolved when the status is open.   *)
RederiveOnlyDone(t, isDone) ==
    {[i \in Issue |->
        IF status[i] = t /\ isDone /\ resolvedAt[i] = NULL THEN now
        ELSE resolvedAt[i]] : now \in Time}

(* COALESCE(resolved_at, now()) when the status is done, else null: the     *)
(* rows of status t after its category, or the status itself, changed.      *)
RederiveResolvedAt(t, isDone) ==
    {[i \in Issue |->
        IF status[i] # t THEN resolvedAt[i]
        ELSE IF ~isDone THEN NULL
        ELSE IF resolvedAt[i] = NULL THEN now
        ELSE resolvedAt[i]] : now \in Time}

(* Mutant: the rows are written after the update they compare with.         *)
LogSprintChangesLate(S, s) == Assign(logged.sprint, {i \in S : sprint'[i] # s}, s)

(* The activity rows for putting the issues S into sprint s: one for each   *)
(* issue that is not in it yet.                                             *)
LogSprintChanges(S, s) == Assign(logged.sprint, {i \in S : sprint[i] # s}, s)

(* Mutant: the subtasks are forgotten.                                      *)
MoversAlone(S) == S

(* Standard issues S move to sprint s (NULL: the backlog), and their        *)
(* subtasks follow them.                                                    *)
Movers(S) == S \cup SubtasksOf(S)
MoveIssuesToSprint(S, s) ==
    /\ sprint' = Assign(sprint, Movers(S), s)
    /\ logged' = [logged EXCEPT !.sprint = LogSprintChanges(Movers(S), s)]

---------------------------------------------------------------------------
(* Issue writes.                                                            *)

OpenSprints == {s \in Sprint : ResolveSprint(s)}

(* The sprints a new issue may have: a subtask copies its parent's.         *)
SprintAtCreation(k, p) ==
    CASE k = "epic"    -> {NULL}
      [] k = "subtask" -> {sprint[p]}
      [] IsStandard(k) -> {NULL} \cup OpenSprints

(* The status is the one the request names or the project's first column.   *)
CreateIssue(i, k, p) ==
    /\ i \notin Live
    /\ ResolveParent(k, p)
    /\ \E t \in Statuses, s \in SprintAtCreation(k, p) :
        /\ type' = [type EXCEPT ![i] = k]
        /\ parent' = [parent EXCEPT ![i] = p]
        /\ sprint' = [sprint EXCEPT ![i] = s]
        /\ status' = [status EXCEPT ![i] = t]
        /\ \E r \in ResolvedAtFor(NULL, "absent", category[t]) :
                resolvedAt' = [resolvedAt EXCEPT ![i] = r]
        /\ logged' = [logged EXCEPT !.parent[i] = p, !.sprint[i] = s, !.status[i] = t]
    /\ UNCHANGED <<sprintState, category, projectType>>

(* One UPDATE of the row, one activity row per field that changes, and the  *)
(* subtasks of a standard issue that changes sprint.                        *)
WriteIssueChanges(i, k, p, s, t) ==
    LET moved == IF IsStandard(k) /\ s # sprint[i] THEN Movers({i}) ELSE {i}
    IN  /\ type' = [type EXCEPT ![i] = k]
        /\ parent' = [parent EXCEPT ![i] = p]
        /\ status' = [status EXCEPT ![i] = t]
        /\ \E r \in IF t = status[i] THEN {resolvedAt[i]}
                   ELSE ResolvedAtFor(resolvedAt[i], category[status[i]], category[t]) :
                resolvedAt' = [resolvedAt EXCEPT ![i] = r]
        /\ sprint' = Assign(sprint, moved, s)
        /\ logged' = [parent |-> [logged.parent EXCEPT
                                    ![i] = IF p # parent[i] THEN p ELSE @],
                      sprint |-> LogSprintChanges(moved, s),
                      status |-> [logged.status EXCEPT
                                    ![i] = IF t # status[i] THEN t ELSE @]]

ResolveStatus(i) == {status[i]} \cup Statuses

(* A standard issue keeps its sprint, leaves it or joins an open one.       *)
SprintOfStandard(i) == {sprint[i], NULL} \cup OpenSprints

(* The sprints an issue of type k and parent p may have after a PATCH: a    *)
(* subtask takes that of the parent it has by then.                         *)
SprintAfterUpdate(i, k, p) ==
    CASE k = "epic"    -> {sprint[i]}
      [] k = "subtask" -> {IF p = NULL THEN NULL ELSE sprint[p]}
      [] IsStandard(k) -> SprintOfStandard(i)

UpdateIssue(i, k, p) ==
    /\ i \in Live
    /\ k # type[i] => IsStandard(k) /\ IsStandard(type[i])
    /\ p # parent[i] => ResolveParent(k, p)
    /\ \E t \in ResolveStatus(i), s \in SprintAfterUpdate(i, k, p) :
        WriteIssueChanges(i, k, p, s, t)
    /\ UNCHANGED <<sprintState, category, projectType>>

(* Drag and drop: status and sprint of anything but an epic. A subtask is   *)
(* refused any sprint but its parent's, and keeps the one it has.           *)
MoveIssue(i) ==
    /\ i \in Live
    /\ type[i] # "epic"
    /\ \E t \in ResolveStatus(i),
          s \in IF IsStandard(type[i]) THEN SprintOfStandard(i) ELSE {sprint[i]} :
        WriteIssueChanges(i, type[i], parent[i], s, t)
    /\ UNCHANGED <<sprintState, category, projectType>>

(* Mutant: the issues of an epic go with it.                                *)
VictimsAndChildren(i) == {i} \cup {c \in Live : parent[c] = i}

Victims(i) == {i} \cup SubtasksOf({i})

(* The issue and its subtasks go; its other children are logged and lose    *)
(* their parent. ON DELETE SET NULL would silently clear any other          *)
(* reference to a deleted row.                                              *)
DeleteIssue(i) ==
    LET victims  == Victims(i)
        children == {c \in Issue : parent[c] = i /\ type[c] # "subtask"}
        orphans  == {c \in Issue : parent[c] \in victims}
        Clear(f) == Assign(f, victims, NULL)
    IN  /\ i \in Live
        /\ type' = Assign(type, victims, "absent")
        /\ parent' = Assign(parent, children \cup orphans \cup victims, NULL)
        /\ sprint' = Clear(sprint)
        /\ status' = Clear(status)
        /\ resolvedAt' = Clear(resolvedAt)
        /\ logged' = [parent |-> Assign(logged.parent, children \cup victims, NULL),
                      sprint |-> Clear(logged.sprint),
                      status |-> Clear(logged.status)]
        /\ UNCHANGED <<sprintState, category, projectType>>

---------------------------------------------------------------------------
(* Sprint writes.                                                           *)

CreateSprint(s) ==
    /\ projectType = "scrum"
    /\ sprintState[s] = "absent"
    /\ sprintState' = [sprintState EXCEPT ![s] = "planned"]
    /\ UNCHANGED <<issueVars, category, projectType>>

(* Mutant: the active sprint is not looked for.                             *)
StartSprintUnchecked(s) ==
    /\ projectType = "scrum"
    /\ sprintState[s] = "planned"
    /\ sprintState' = [sprintState EXCEPT ![s] = "active"]
    /\ UNCHANGED <<issueVars, category, projectType>>

StartSprint(s) ==
    /\ projectType = "scrum"
    /\ sprintState[s] = "planned"
    /\ \A u \in Sprint : sprintState[u] # "active"
    /\ sprintState' = [sprintState EXCEPT ![s] = "active"]
    /\ UNCHANGED <<issueVars, category, projectType>>

StandardIn(s) == {i \in Issue : IsStandard(type[i]) /\ sprint[i] = s}

(* Mutant: only the issues with a parent are moved out.                     *)
CloseSprintOfChildren(s, dest) ==
    /\ sprintState[s] = "active"
    /\ MoveIssuesToSprint({i \in StandardIn(s) : ~Done(i) /\ parent[i] # NULL}, dest)
    /\ UNCHANGED <<type, parent, status, resolvedAt, category, projectType>>

(* The sprint's open standard issues go to dest: the backlog (NULL), a      *)
(* planned sprint, or one created for them. Done ones stay.                 *)
CloseSprint(s, dest) ==
    /\ sprintState[s] = "active"
    /\ MoveIssuesToSprint({i \in StandardIn(s) : ~Done(i)}, dest)
    /\ UNCHANGED <<type, parent, status, resolvedAt, category, projectType>>

CompleteSprint(s, dest) ==
    /\ dest # NULL => sprintState[dest] = "planned"
    /\ CloseSprint(s, dest)
    /\ sprintState' = [sprintState EXCEPT ![s] = "completed"]

CompleteSprintIntoNew(s, dest) ==
    /\ projectType = "scrum"
    /\ sprintState[dest] = "absent"
    /\ CloseSprint(s, dest)
    /\ sprintState' = [sprintState EXCEPT ![s] = "completed", ![dest] = "planned"]

(* The standard issues and their subtasks are moved to the backlog and      *)
(* logged; ON DELETE SET NULL would silently clear any other reference.     *)
DeleteSprint(s) ==
    LET movers == Movers(StandardIn(s))
    IN  /\ sprintState[s] = "planned"
        /\ sprint' = Assign(sprint, movers \cup {i \in Issue : sprint[i] = s}, NULL)
        /\ logged' = [logged EXCEPT !.sprint = LogSprintChanges(movers, NULL)]
        /\ sprintState' = [sprintState EXCEPT ![s] = "absent"]
        /\ UNCHANGED <<type, parent, status, resolvedAt, category, projectType>>

---------------------------------------------------------------------------
(* Status and project writes.                                               *)

CreateStatus(t, c) ==
    /\ category[t] = "absent"
    /\ category' = [category EXCEPT ![t] = c]
    /\ UNCHANGED <<issueVars, sprintState, projectType>>

UpdateStatus(t, c) ==
    /\ t \in Statuses
    /\ category' = [category EXCEPT ![t] = c]
    /\ resolvedAt' \in IF (category[t] = "done") = (c = "done") THEN {resolvedAt}
                       ELSE RederiveResolvedAt(t, c = "done")
    /\ UNCHANGED <<type, parent, sprint, status, logged, sprintState, projectType>>

(* The last status stays; one in use needs another status to move to.       *)
DeleteStatus(t, moveTo) ==
    LET users == {i \in Issue : status[i] = t}
    IN  /\ t \in Statuses
        /\ Statuses # {t}
        /\ \/ /\ users = {}
              /\ UNCHANGED issueVars
           \/ /\ users # {}
              /\ moveTo \in Statuses \ {t}
              /\ status' = Assign(status, users, moveTo)
              /\ resolvedAt' \in RederiveResolvedAt(t, category[moveTo] = "done")
              /\ logged' = [logged EXCEPT !.status = Assign(@, users, moveTo)]
              /\ UNCHANGED <<type, parent, sprint>>
        /\ category' = [category EXCEPT ![t] = "absent"]
        /\ UNCHANGED <<sprintState, projectType>>

UpdateProject(k) ==
    /\ projectType' = k
    /\ UNCHANGED <<issueVars, sprintState, category>>

---------------------------------------------------------------------------
IssueWrite ==
    \E i \in Issue :
        \/ \E k \in Types, p \in Issue \cup {NULL} :
                CreateIssue(i, k, p) \/ UpdateIssue(i, k, p)
        \/ MoveIssue(i)
        \/ DeleteIssue(i)

SprintWrite ==
    \E s \in Sprint :
        \/ CreateSprint(s)
        \/ StartSprint(s)
        \/ \E dest \in Sprint \cup {NULL} : CompleteSprint(s, dest)
        \/ \E dest \in Sprint : CompleteSprintIntoNew(s, dest)
        \/ DeleteSprint(s)

StatusWrite ==
    \E t \in Status :
        \/ \E c \in Categories : CreateStatus(t, c) \/ UpdateStatus(t, c)
        \/ \E moveTo \in Status : DeleteStatus(t, moveTo)

Next ==
    \/ IssueWrite
    \/ SprintWrite
    \/ StatusWrite
    \/ \E k \in {"scrum", "kanban"} : UpdateProject(k)

Spec == Init /\ [][Next]_vars

---------------------------------------------------------------------------
(* Safety.                                                                  *)

(* Every issue is in a status of the project and in no sprint or one of the *)
(* project's, whatever was deleted meanwhile: DeleteStatus moves every user *)
(* of the status, DeleteSprint empties the sprint.                          *)
ReferencesExist ==
    \A i \in Live :
        /\ status[i] \in Statuses
        /\ sprint[i] # NULL => sprintState[sprint[i]] # "absent"

(* Epics have no parent and no sprint, standard issues an epic or no        *)
(* parent, subtasks a standard one, through every re-parenting, type change *)
(* and deletion; so the hierarchy has three levels and no cycle.            *)
HierarchyOK ==
    \A i \in Live :
        /\ type[i] = "subtask" => parent[i] \in Live /\ IsStandard(type[parent[i]])
        /\ IsStandard(type[i]) =>
             parent[i] = NULL \/ (parent[i] \in Live /\ type[parent[i]] = "epic")
        /\ type[i] = "epic" => parent[i] = NULL /\ sprint[i] = NULL

(* A subtask's sprint always equals its parent's (SPEC section 2), whichever*)
(* of the two is created, re-parented, moved, or swept along by a sprint    *)
(* that is completed or deleted.                                            *)
SubtasksShareSprint ==
    \A i \in Live : type[i] = "subtask" => sprint[i] = sprint[parent[i]]

(* resolvedAt is set exactly while the status is in the done category: by   *)
(* moves, by a change of the status's own category, and by the migration    *)
(* when a status is deleted.                                                *)
ResolvedIffDone ==
    \A i \in Live : resolvedAt[i] # NULL <=> Done(i)

(* What a row of the project may rely on, of itself and of the rows it      *)
(* refers to.                                                               *)
WellFormed == TypeOK /\ ReferencesExist /\ HierarchyOK /\ ResolvedIffDone

(* Replaying the activity rows of an issue gives its status, sprint and     *)
(* parent: every change is logged, bulk changes and cascades included.      *)
HistoryReplays ==
    logged = [parent |-> parent, sprint |-> sprint, status |-> status]

(* A completed sprint gains no standard issue, whatever is created, moved   *)
(* or swept along by another sprint's completion.                           *)
CompletedSprintsGainNothing ==
    [][\A s \in Sprint : sprintState[s] = "completed" =>
            StandardIn(s)' \subseteq StandardIn(s)]_vars

(* Completing a sprint leaves no open standard issue behind and takes no    *)
(* done one away: its done issues are exactly what it keeps.                *)
CompletionSplitsSprint ==
    [][\A s \in Sprint : sprintState[s] = "active" /\ sprintState'[s] = "completed" =>
            StandardIn(s)' = {i \in StandardIn(s) : Done(i)}]_vars

(* An issue that stays in the done category keeps the time it was resolved, *)
(* even when it moves between two done statuses or its status is deleted.   *)
DoneKeepsResolvedAt ==
    [][\A i \in Live : type'[i] # "absent" /\ Done(i) /\ Done(i)' =>
            resolvedAt'[i] = resolvedAt[i]]_vars

(* One step deletes at most one issue and that issue's subtasks; every other*)
(* issue keeps its type, status and sprint, and its parent unless that is   *)
(* what was deleted.                                                        *)
DeletionIsContained ==
    [][LET gone == {i \in Live : type'[i] = "absent"}
       IN  gone # {} =>
            /\ \E root \in gone : gone = {root} \cup SubtasksOf({root})
            /\ \A i \in Live \ gone :
                /\ type'[i] = type[i] /\ status'[i] = status[i] /\ sprint'[i] = sprint[i]
                /\ parent'[i] = IF parent[i] \in gone THEN NULL ELSE parent[i]]_vars

(* The sprints of the project follow the abstract life cycle.               *)
Lifecycle == INSTANCE SprintLifecycle
ImplementsLifecycle == Lifecycle!LifecycleSpec

(* "A Kanban project's issues cannot join a sprint, not even one left over  *)
(* from before the project switched from Scrum (they can only leave it)."   *)
KanbanIssuesJoinNoSprint ==
    [][projectType = "kanban" =>
        \A i \in Live : IsStandard(type[i]) =>
            sprint'[i] \in {sprint[i], NULL}]_vars
=============================================================================
