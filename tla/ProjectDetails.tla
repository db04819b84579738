--------------------------- MODULE ProjectDetails ---------------------------
(***************************************************************************)
(* The form of a project's details (features/settings/DetailsTab.tsx) while *)
(* other admins save the same project: its draft, what it sends, and the   *)
(* lookup and the question before a switch to Kanban.                      *)
(***************************************************************************)
EXTENDS Naturals

CONSTANTS Values,  \* what each field may hold: [name, description, type, lead], text trimmed
          Empty,   \* the empty name
          Keep,    \* a field a PATCH leaves out
          None,    \* no request, no switch being checked
          MaxEdits \* how many times others save

Fields == DOMAIN Values

(* What any field may hold, the body of a PATCH, and the requests. *)
Texts == UNION {Values[f] : f \in Fields}
Patches == [Fields -> Texts \cup {Keep}]
Requests ==
  [patch : Patches, answer : {"none", "saved", "refetching", "failed"}, project : [Fields -> Texts]]

ProjectDetailsAssumption ==
  /\ Fields = {"name", "description", "type", "lead"}
  /\ Values["type"] \subseteq {"scrum", "kanban"}
  /\ \A f \in Fields : Keep \notin Values[f]
  /\ MaxEdits \in Nat /\ None \notin Requests

VARIABLES saved,   \* the project at the server
          project, \* the project in the cache, which the form was last rendered with
          draft,   \* the form's fields
          lookup,  \* the query of the open sprints: "off", "loading", "failed", "some" or "no"
          switch,  \* the submit that waits for the lookup or the answer: its patch and its step
          request, \* the PATCH under way
          entered, \* history: what the admin last entered in each field, or Keep
          edits    \* history: how often others saved

vars == <<saved, project, draft, lookup, switch, request, entered, edits>>

Project ==
  {p \in [Fields -> Texts] : (\A f \in Fields : p[f] \in Values[f]) /\ p["name"] # Empty}
NothingEntered == [f \in Fields |-> Keep]

-----------------------------------------------------------------------------
(* Mutant: the draft stays what it was when someone else saves. *)
NeverRebased(d, before, after) == d
(* Each field the admin hasn't changed takes the new value. *)
Rebase(d, before, after) == [f \in Fields |-> IF d[f] = before[f] THEN after[f] ELSE d[f]]

(* The PATCH body: only the changed fields. *)
ChangesOf(d, p) == [f \in Fields |-> IF d[f] # p[f] THEN d[f] ELSE Keep]
Patch == ChangesOf(draft, project)
Dirty == draft # project
NameProblem == Patch["name"] = Empty

Checking == switch # None /\ switch.step = "checking"
Confirming == switch # None /\ switch.step = "confirming"
ToKanban == project["type"] = "scrum" /\ draft["type"] = "kanban"

(* The PATCH applied to the project. *)
Applied(patch, p) == [f \in Fields |-> IF patch[f] = Keep THEN p[f] ELSE patch[f]]

-----------------------------------------------------------------------------
Init ==
  /\ saved \in Project
  /\ project = saved /\ draft = saved
  /\ lookup = "off" /\ switch = None /\ request = None
  /\ entered = NothingEntered /\ edits = 0

(* useSprints is enabled while the draft switches a Scrum project to Kanban; its data, or its
   failure, stays. *)
Enabled(p, d) ==
  IF lookup = "off" /\ p["type"] = "scrum" /\ d["type"] = "kanban" THEN "loading" ELSE lookup

(* A field of the form; locked during the check, and behind the dialog that asks. *)
Set(field, text) ==
  /\ switch = None /\ draft[field] # text
  /\ draft' = [draft EXCEPT ![field] = text]
  /\ entered' = [entered EXCEPT ![field] = text]
  /\ lookup' = Enabled(project, draft')
  /\ UNCHANGED <<saved, project, switch, request, edits>>

Discard ==
  /\ Dirty /\ request = None /\ switch = None
  /\ draft' = project
  /\ entered' = NothingEntered
  /\ UNCHANGED <<saved, project, lookup, switch, request, edits>>

Mutate(patch) == request' = [patch |-> patch, answer |-> "none", project |-> saved]
Waits(step) == switch' = [patch |-> Patch, step |-> step]

(* A switch to Kanban waits for the lookup, loads it again when it failed, and asks when sprints
   are open. *)
Submit ==
  /\ Dirty /\ request = None /\ switch = None /\ ~NameProblem
  /\ CASE Patch["type"] # "kanban" \/ lookup = "no" ->
            Mutate(Patch) /\ UNCHANGED <<lookup, switch>>
       [] Patch["type"] = "kanban" /\ lookup = "some" ->
            Waits("confirming") /\ UNCHANGED <<lookup, request>>
       [] OTHER ->
            Waits("checking") /\ lookup' = "loading" /\ UNCHANGED request
  /\ UNCHANGED <<saved, project, draft, entered, edits>>

(* The lookup's answer; the submit that waits for it goes on with the patch of its own render.
   Until the switch is taken back it may be looked up again in the background. *)
Looked(result) ==
  /\ lookup = "loading" \/ (ToKanban /\ lookup \notin {"off", result})
  /\ result \in {"some", "no", "failed"}
  /\ lookup' = result
  /\ CASE ~Checking -> UNCHANGED <<switch, request>>
       [] Checking /\ result = "no" -> Mutate(switch.patch) /\ switch' = None
       [] OTHER -> switch' = [switch EXCEPT !.step = "confirming"] /\ UNCHANGED request
  /\ UNCHANGED <<saved, project, draft, entered, edits>>

Confirm ==
  /\ Confirming
  /\ Mutate(switch.patch) /\ switch' = None
  /\ UNCHANGED <<saved, project, draft, lookup, entered, edits>>

Decline ==
  /\ Confirming
  /\ switch' = None
  /\ UNCHANGED <<saved, project, draft, lookup, request, entered, edits>>

-----------------------------------------------------------------------------
(* The server saves the PATCH and answers with the project, or refuses it. *)
Save ==
  /\ request # None /\ request.answer = "none"
  /\ \/ /\ saved' = Applied(request.patch, saved)
        /\ request' = [request EXCEPT !.answer = "saved", !.project = saved']
     \/ request' = [request EXCEPT !.answer = "failed"] /\ UNCHANGED saved
  /\ UNCHANGED <<project, draft, lookup, switch, entered, edits>>

(* The project of the cache is replaced, and the form rendered with it. *)
Render(p) ==
  /\ project' = p
  /\ draft' = Rebase(draft, project, p)
  /\ lookup' = Enabled(p, draft')

(* The answer is put into the cache; the mutation lasts until the queries are loaded again. *)
Answered ==
  /\ request # None /\ request.answer = "saved"
  /\ Render(request.project)
  /\ request' = [request EXCEPT !.answer = "refetching"]
  /\ UNCHANGED <<saved, switch, entered, edits>>

Settled ==
  /\ request # None /\ request.answer = "refetching"
  /\ Render(saved)
  /\ request' = None
  /\ UNCHANGED <<saved, switch, entered, edits>>

Failed ==
  /\ request # None /\ request.answer = "failed"
  /\ request' = None
  /\ UNCHANGED <<saved, project, draft, lookup, switch, entered, edits>>

(* Another admin saves a field, and the project is loaded again. *)
OtherSaves(field, text) ==
  /\ edits < MaxEdits /\ saved[field] # text
  /\ saved' = [saved EXCEPT ![field] = text]
  /\ saved' \in Project
  /\ edits' = edits + 1
  /\ UNCHANGED <<project, draft, lookup, switch, request, entered>>

Reload ==
  /\ project # saved
  /\ Render(saved)
  /\ UNCHANGED <<saved, switch, request, entered, edits>>

Next ==
  \/ Discard \/ Submit \/ Confirm \/ Decline
  \/ Save \/ Answered \/ Settled \/ Failed \/ Reload
  \/ \E result \in {"some", "no", "failed"} : Looked(result)
  \/ \E field \in Fields : \E text \in Values[field] : Set(field, text) \/ OtherSaves(field, text)

Spec == Init /\ [][Next]_vars

-----------------------------------------------------------------------------
(* Properties: of every state, and of every step. *)

(* The form never writes a field back that the admin has not changed (rebase: "each field the
   admin hasn't changed takes the new value, so saving never writes another field's old value
   back"): whoever saves meanwhile, what is sent of a field is what the admin last entered in it.
   It is also what the form shows, but for a field that others set to the very same value, and
   then to another one, while a switch to Kanban was checked or confirmed: there the form
   follows them, and what was submitted is sent. *)
SendsOwnEdits ==
  request = None /\ request' # None =>
       \A f \in Fields : request'.patch[f] # Keep =>
         /\ request'.patch[f] = entered[f]
         /\ request'.patch[f] = draft[f] \/ (switch # None /\ draft[f] = project[f])
=============================================================================
