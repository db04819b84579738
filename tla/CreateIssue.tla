---------------------------- MODULE CreateIssue ----------------------------
(***************************************************************************)
(* The form that creates an issue (CreateIssueModal): its project is a     *)
(* default until the user chooses one and the list of projects may change  *)
(* it; assignee, labels, parent, sprint and status belong to one project;  *)
(* and a parent it was opened for is looked up meanwhile.                  *)
(***************************************************************************)
EXTENDS Naturals, Sequences

CONSTANTS Projects, \* keys of projects
          Scrum,    \* the Scrum projects among them
          Openings, \* what the form may be opened with (defaults)
          None      \* null

(* What CreateIssueDefaults says, with the project in the URL and the recent ones: the
   projects preferred, in order; the project the other values are for; parent, sprint, status,
   type.  A parent is of a project and a kind, which the caller may know (parentType). *)
Opening(preferred, project, parent, sprint, status, type) ==
  [preferred |-> preferred, project |-> project, parent |-> parent, sprint |-> sprint,
   status |-> status, type |-> type]
ParentOf(project, kind, known) == [project |-> project, kind |-> kind, known |-> known]

Types == {"epic", "standard", "subtask"}

CreateIssueAssumption ==
  /\ Scrum \subseteq Projects /\ None \notin Projects
  /\ \A o \in Openings :
       /\ \A i \in DOMAIN o.preferred : o.preferred[i] \in Projects
       /\ o.parent # None => o.parent \in [project : {o.project}, kind : Types, known : BOOLEAN]
       /\ {o.sprint, o.status} \subseteq {None, o.project}
       /\ o.type \in Types \cup {None}

VARIABLES defaults,   \* what this form was opened with
          roles,      \* this user's role in each project: viewer (or none) or member
          listed,     \* those as the list of projects was last loaded (None: not yet)
          chosenKey,  \* the project the user chose
          typeChoice, \* the type chosen, or preset
          scoped,     \* assignee, labels, parent, sprint, status, and their project
          lookup,     \* the parent's lookup: pending, loaded, failed, or "off": by no key
          summary,    \* whether there is a summary
          create,     \* the request
          open        \* the form is

vars == <<defaults, roles, listed, chosenKey, typeChoice, scoped, lookup, summary, create, open>>

(* issueMeta.ts *)
AllowedParentTypes(type) ==
  CASE type = "subtask" -> {"standard"} [] type = "standard" -> {"epic"} [] OTHER -> {}

-----------------------------------------------------------------------------
(* useProjectChoice: a project the user may create issues in. *)
Creatable == {p \in Projects : listed[p] = "member"}

ProjectKey ==
  LET preferred == defaults.preferred
      fit == {i \in DOMAIN preferred : preferred[i] \in Creatable}
  IN  IF chosenKey # None THEN chosenKey
      ELSE IF listed = None THEN IF preferred = <<>> THEN None ELSE preferred[1]
      ELSE IF fit # {} THEN preferred[CHOOSE i \in fit : \A j \in fit : i <= j]
      ELSE IF Creatable # {} THEN CHOOSE p \in Creatable : TRUE
      ELSE None

(* createIssueForm.ts; an assignee, labels, a sprint and a status are modelled by the project
   they are of. *)
ScopedFields(project, parent, sprint, status) ==
  [project |-> project, assignee |-> None, labels |-> None, parent |-> parent,
   sprint |-> sprint, status |-> status]
EmptyScopedFields(project) == ScopedFields(project, None, None, None)
ScopedFieldsFromDefaults(o) == ScopedFields(o.project, o.parent, o.sprint, o.status)

(* Values chosen for another project do not apply. *)
Fields == IF scoped.project = ProjectKey THEN scoped ELSE EmptyScopedFields(ProjectKey)

(* The parent, its kind known once it has been looked up. *)
Parent ==
  IF Fields.parent # None /\ lookup = "loaded" THEN [Fields.parent EXCEPT !.known = TRUE] ELSE Fields.parent
KindKnown == Parent # None /\ Parent.known

(* Mutant: the form does not wait for the parent. *)
NeverPending == FALSE
ParentTypePending == defaults.parent # None /\ Parent # None /\ ~Parent.known /\ lookup = "pending"

InferredType ==
  IF defaults.parent # None /\ KindKnown /\ Parent.kind # "epic" THEN "subtask" ELSE "standard"
Type == IF typeChoice # None THEN typeChoice ELSE InferredType
SprintApplies == listed # None /\ ProjectKey \in Scrum /\ Type = "standard"

-----------------------------------------------------------------------------
Init ==
  /\ defaults \in Openings
  /\ roles \in [Projects -> {"viewer", "member"}]
  /\ listed \in {None, roles}
  /\ chosenKey = None
  /\ typeChoice = defaults.type
  /\ scoped = ScopedFieldsFromDefaults(defaults)
  /\ lookup \in IF defaults.parent = None THEN {"off"} ELSE {"pending", "off"}
  /\ summary = FALSE
  /\ create = None
  /\ open = TRUE

(* The user fills in the form. It stays open to input while a request is pending: a summary
   typed then goes with the answer; any other choice made then is as one made after it. *)
UpdateScoped(field, v) == scoped' = [Fields EXCEPT ![field] = v]

ChangeProject(key) ==
  /\ open /\ create = None /\ listed # None /\ key \in Creatable /\ key # ProjectKey
  /\ chosenKey' = key
  /\ scoped' = EmptyScopedFields(key)
  /\ UNCHANGED <<defaults, roles, listed, typeChoice, lookup, summary, create, open>>

(* A parent the type cannot have is dropped. *)
ChangeType(next) ==
  /\ open /\ create = None /\ next # Type
  /\ typeChoice' = next
  /\ LET allowed == AllowedParentTypes(next)
     IN  IF Parent # None /\ (allowed = {} \/ (KindKnown /\ Parent.kind \notin allowed))
         THEN UpdateScoped("parent", None) ELSE UNCHANGED scoped
  /\ UNCHANGED <<defaults, roles, listed, chosenKey, lookup, summary, create, open>>

(* The pickers offer what is in the project shown, and fits the type. *)
ChooseScoped ==
  /\ open /\ create = None /\ ProjectKey # None
  /\ \/ \E field \in {"assignee", "labels"} : UpdateScoped(field, ProjectKey)
     \/ \E kind \in AllowedParentTypes(Type) : UpdateScoped("parent", ParentOf(ProjectKey, kind, TRUE))
     \/ SprintApplies /\ UpdateScoped("sprint", ProjectKey)
  /\ UNCHANGED <<defaults, roles, listed, chosenKey, typeChoice, lookup, summary, create, open>>

TypeSummary ==
  /\ open /\ ~summary
  /\ summary' = TRUE
  /\ UNCHANGED <<defaults, roles, listed, chosenKey, typeChoice, scoped, lookup, create, open>>

(* validateCreateForm *)
Valid ==
  /\ ProjectKey # None /\ summary
  /\ Type = "subtask" => Parent # None
  /\ KindKnown /\ AllowedParentTypes(Type) # {} => Parent.kind \in AllowedParentTypes(Type)

(* buildCreateInput *)
CreateInput ==
  [project |-> ProjectKey, type |-> Type,
   assignee |-> Fields.assignee, labels |-> Fields.labels, status |-> Fields.status,
   parent |-> IF Type = "epic" THEN None ELSE Parent,
   sprint |-> IF SprintApplies THEN Fields.sprint ELSE None]

(* A list without a project to create in, and a parent that is pending, block submitting. *)
Submit ==
  /\ open /\ create = None
  /\ listed # None => Creatable # {}
  /\ ~ParentTypePending
  /\ Valid
  /\ \E another \in BOOLEAN : create' = [input |-> CreateInput, another |-> another]
  /\ UNCHANGED <<defaults, roles, listed, chosenKey, typeChoice, scoped, lookup, summary, open>>

(* The form closes or, with "Create another" as submitted, keeps all but the summary. *)
Created ==
  /\ create # None
  /\ create' = None
  /\ IF create.another THEN summary' = FALSE /\ UNCHANGED open ELSE open' = FALSE /\ UNCHANGED summary
  /\ UNCHANGED <<defaults, roles, listed, chosenKey, typeChoice, scoped, lookup>>

CreateFailed ==
  /\ create # None
  /\ create' = None
  /\ UNCHANGED <<defaults, roles, listed, chosenKey, typeChoice, scoped, lookup, summary, open>>

(* requestClose: not while creating; what was entered is discarded when the user says so. *)
Close ==
  /\ open /\ create = None
  /\ open' = FALSE
  /\ UNCHANGED <<defaults, roles, listed, chosenKey, typeChoice, scoped, lookup, summary, create>>

(* The list of projects is loaded, or loaded again; the parent is looked up. *)
LoadProjects ==
  /\ open /\ listed # roles
  /\ listed' = roles
  /\ UNCHANGED <<defaults, roles, chosenKey, typeChoice, scoped, lookup, summary, create, open>>

LookedUp(result) ==
  /\ open /\ defaults.parent # None /\ ~defaults.parent.known /\ lookup = "pending"
  /\ lookup' = result
  /\ UNCHANGED <<defaults, roles, listed, chosenKey, typeChoice, scoped, summary, create, open>>

(* A teammate changes this user's role in a project. *)
ChangeRole(p, role) ==
  /\ open /\ roles[p] # role
  /\ roles' = [roles EXCEPT ![p] = role]
  /\ UNCHANGED <<defaults, listed, chosenKey, typeChoice, scoped, lookup, summary, create, open>>

Next ==
  \/ \E p \in Projects : ChangeProject(p) \/ \E role \in {"viewer", "member"} : ChangeRole(p, role)
  \/ \E type \in Types : ChangeType(type)
  \/ \E result \in {"loaded", "failed"} : LookedUp(result)
  \/ ChooseScoped \/ TypeSummary \/ Submit \/ Created \/ CreateFailed \/ Close \/ LoadProjects

Spec == Init /\ [][Next]_vars

-----------------------------------------------------------------------------
(* Properties: of every state, and of every step. *)

(* Whatever becomes of the projects while the form is filled in, an issue is created with an
   assignee, labels, a parent, a sprint and a status of its own project, and with a parent its
   type can have, unless the form could not find out what the parent is: the lookup failed, or
   the parent was given without the key to look it up by. *)
CreatesInOneProject ==
  create = None /\ create' # None =>
       LET input == create'.input
       IN  /\ \A field \in {"assignee", "labels", "sprint", "status"} :
                input[field] \in {None, input.project}
           /\ input.parent # None =>
                /\ input.parent.project = input.project
                /\ input.parent.kind \in AllowedParentTypes(input.type) \/ lookup \in {"failed", "off"}
=============================================================================
