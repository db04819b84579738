---------------------------- MODULE SprintForms ----------------------------
(***************************************************************************)
(* The dialogs that start and edit a sprint, on the backlog page, while    *)
(* teammates change, start, complete or delete the same sprint.  A dialog  *)
(* works on the sprint as it was when it opened.  Dates are numbers of     *)
(* weeks, and a duration is one of the presets or a custom one.                *)
(***************************************************************************)
EXTENDS Integers

CONSTANTS Sprints,    \* the sprints it may begin with, as Sprint makes them
          Names,      \* names, trimmed
          Goals,      \* goals, trimmed
          Dates,      \* the weeks a date may be in
          Today,      \* the week it is
          NoDate,     \* no date
          Presets,    \* the lengths offered, in weeks
          Default,    \* the default length
          Custom,     \* an end date of one's own
          None,       \* no dialog, no request
          MaxEntries, \* bound: changes the user makes in one dialog
          MaxEdits    \* bound: teammates' changes

Sprint(state, name, goal, start, end) ==
  [state |-> state, name |-> name, goal |-> goal, startDate |-> start, endDate |-> end]

(* The sprints there may be, the values of a form, and the dialogs. *)
Days == Nat \cup {NoDate}
SprintRecords ==
  [state : {"planned", "active", "completed", "gone"}, name : Names, goal : Goals,
   startDate : Days, endDate : Days]
Forms ==
  [name : Names, goal : Goals, duration : Presets \cup {Custom}, startDate : Days, endDate : Days]
Dialogs == [type : {"start", "edit"}, sprint : SprintRecords, values : Forms]

SprintFormsAssumption ==
  /\ Dates \subseteq Nat /\ Presets \subseteq Nat /\ Today \in Dates /\ Default \in Presets
  /\ NoDate \notin Nat
  /\ Sprints \subseteq SprintRecords
  /\ \A s \in Sprints : s.state \in {"planned", "active"}
  /\ None \notin Dialogs

VARIABLES sprint,  \* the sprint at the server; its state is "gone" once deleted
          other,   \* whether another sprint of the project is active at the server
          cached,  \* the backlog in the cache: that sprint, and whether another is active
          dialog,  \* the dialog: "start" or "edit", the sprint it opened on, the form's values
          request, \* its request: what it sends, and the answer
          entered, \* history: the fields the user changed in the dialog
          entries, \* counts those changes
          edits    \* counts the teammates' changes

vars == <<sprint, other, cached, dialog, request, entered, entries, edits>>

Fields == {"name", "goal", "startDate", "endDate"}
Listed == [sprint |-> sprint, other |-> other]
IsPending == request # None

-----------------------------------------------------------------------------
(* sprintForm.ts *)

EndForDuration(start, duration) ==
  IF duration = Custom \/ start = NoDate THEN NoDate ELSE start + duration

InferDuration(start, end) ==
  IF NoDate \in {start, end} THEN Default
  ELSE IF end - start \in Presets THEN end - start ELSE Custom

(* What the form begins with; Start begins today where there is no start date. *)
InitialValues(s, startToday) ==
  LET start == IF s.startDate = NoDate /\ startToday THEN Today ELSE s.startDate
      duration == InferDuration(s.startDate, s.endDate)
  IN  [name |-> s.name, goal |-> s.goal, duration |-> duration, startDate |-> start,
       endDate |-> IF s.endDate = NoDate THEN EndForDuration(start, duration) ELSE s.endDate]

Ordered(start, end) == NoDate \notin {start, end} => start <= end

Valid(values, requireDates) ==
  /\ requireDates => NoDate \notin {values.startDate, values.endDate}
  /\ Ordered(values.startDate, values.endDate)

-----------------------------------------------------------------------------
Init ==
  /\ sprint \in Sprints
  /\ other \in BOOLEAN /\ (sprint.state = "active" => ~other)
  /\ cached = Listed
  /\ dialog = None /\ request = None
  /\ entered = {} /\ entries = 0 /\ edits = 0

OpenDialog(type) ==
  /\ dialog = None
  /\ dialog' = [type |-> type, sprint |-> cached.sprint,
                values |-> InitialValues(cached.sprint, type = "start")]
  /\ entered' = {} /\ entries' = 0
  /\ UNCHANGED <<sprint, other, cached, request, edits>>

(* The dialog goes, and with it what the histories say of it. *)
Closes == dialog' = None /\ entered' = {} /\ entries' = 0

(* Start is offered for a planned sprint, while no sprint is active. *)
StartSprint == cached.sprint.state = "planned" /\ ~cached.other /\ OpenDialog("start")
(* Edit is offered for every sprint the backlog lists. *)
EditSprint == cached.sprint.state \in {"planned", "active"} /\ OpenDialog("edit")

CloseDialog ==
  /\ dialog # None /\ ~IsPending
  /\ Closes
  /\ UNCHANGED <<sprint, other, cached, request, edits>>

(* useSprintForm: the form takes the patch; the fields stay enabled while saving. *)
Update(patch) ==
  /\ dialog # None /\ entries < MaxEntries
  /\ dialog' = [dialog EXCEPT !.values = [f \in DOMAIN @ |-> IF f \in DOMAIN patch THEN patch[f] ELSE @[f]]]
  /\ entered' = entered \cup (DOMAIN patch \cap Fields)
  /\ entries' = entries + 1
  /\ UNCHANGED <<sprint, other, cached, request, edits>>

SetName(name) == Update([name |-> name])
SetGoal(goal) == Update([goal |-> goal])

(* Mutant: a new start date leaves the end date where it was. *)
StartAlone(start) == Update([startDate |-> start])
(* A new start date or duration recomputes the end date, ... *)
SetStart(start) ==
  dialog # None /\
  LET end == EndForDuration(start, dialog.values.duration)
  IN  Update(IF end = NoDate THEN [startDate |-> start] ELSE [startDate |-> start, endDate |-> end])

SetDuration(duration) ==
  dialog # None /\
  LET end == EndForDuration(dialog.values.startDate, duration)
  IN  Update(IF end = NoDate THEN [duration |-> duration] ELSE [duration |-> duration, endDate |-> end])

(* ... and a new end date the duration. *)
SetEnd(end) ==
  dialog # None /\
  LET start == dialog.values.startDate
  IN  Update([endDate |-> end,
              duration |-> IF NoDate \in {start, end} THEN Custom ELSE InferDuration(start, end)])

-----------------------------------------------------------------------------
(* The fields whose values differ from the sprint the dialog opened on. *)
Changed(fields) == {f \in fields : dialog.values[f] # dialog.sprint[f]}

Send(fields) == request' = [input |-> [f \in fields |-> dialog.values[f]], answer |-> "none"]

(* Start: both dates, and the name and the goal if changed here. *)
SubmitStart ==
  /\ dialog # None /\ dialog.type = "start" /\ ~IsPending
  /\ Valid(dialog.values, TRUE)
  /\ Send(Changed({"name", "goal"}) \cup {"startDate", "endDate"})
  /\ UNCHANGED <<sprint, other, cached, dialog, entered, entries, edits>>

(* Edit: the fields changed; when there are none, it closes. *)
SubmitEdit ==
  /\ dialog # None /\ dialog.type = "edit" /\ ~IsPending
  /\ Valid(dialog.values, dialog.sprint.state = "active")
  /\ IF Changed(Fields) = {} THEN Closes /\ UNCHANGED request
     ELSE Send(Changed(Fields)) /\ UNCHANGED <<dialog, entered, entries>>
  /\ UNCHANGED <<sprint, other, cached, edits>>

(* The sprint with the fields sent. *)
Patched(input) ==
  [f \in DOMAIN sprint |->
     IF f = "state" /\ dialog.type = "start" THEN "active"
     ELSE IF f \in DOMAIN input THEN input[f] ELSE sprint[f]]

(* The server accepts it: not for a sprint completed or deleted; a start only of a planned
   sprint, and of one at a time; an active sprint has dates. *)
Accepts(next) ==
  /\ IF dialog.type = "start" THEN sprint.state = "planned" /\ ~other
     ELSE sprint.state \in {"planned", "active"}
  /\ Valid(next, next.state = "active")

Apply ==
  /\ IsPending /\ request.answer = "none"
  /\ Accepts(Patched(request.input))
  /\ sprint' = Patched(request.input)
  /\ request' = [request EXCEPT !.answer = "saved"]
  /\ UNCHANGED <<other, cached, dialog, entered, entries, edits>>

(* It refuses it, or the request is lost on the way. *)
Refuse ==
  /\ IsPending /\ request.answer = "none"
  /\ request' = [request EXCEPT !.answer = "failed"]
  /\ UNCHANGED <<sprint, other, cached, dialog, entered, entries, edits>>

(* The backlog has been loaded again, and the dialog closes. *)
Saved ==
  /\ IsPending /\ request.answer = "saved"
  /\ cached' = Listed
  /\ request' = None /\ Closes
  /\ UNCHANGED <<sprint, other, edits>>

(* The dialog stays open and shows what is wrong. *)
Fail ==
  /\ IsPending /\ request.answer = "failed"
  /\ request' = None
  /\ UNCHANGED <<sprint, other, cached, dialog, entered, entries, edits>>

-----------------------------------------------------------------------------
(* A teammate edits the sprint, ... *)
TeammateEdits(field, to) ==
  /\ sprint.state \in {"planned", "active"} /\ edits < MaxEdits
  /\ sprint[field] # to
  /\ sprint' = [sprint EXCEPT ![field] = to]
  /\ Valid(sprint', sprint.state = "active")
  /\ edits' = edits + 1
  /\ UNCHANGED <<other, cached, dialog, request, entered, entries>>

(* ... starts it, completes it or deletes it, ... *)
TeammateMoves(state) ==
  /\ \/ sprint.state = "planned" /\ state = "gone"
     \/ sprint.state = "planned" /\ state = "active" /\ ~other /\ Valid(sprint, TRUE)
     \/ sprint.state = "active" /\ state = "completed"
  /\ sprint' = [sprint EXCEPT !.state = state]
  /\ edits < MaxEdits /\ edits' = edits + 1
  /\ UNCHANGED <<other, cached, dialog, request, entered, entries>>

(* ... or starts or completes another sprint. *)
TeammateMovesOther ==
  /\ other' = ~other /\ (other' => sprint.state # "active")
  /\ edits < MaxEdits /\ edits' = edits + 1
  /\ UNCHANGED <<sprint, cached, dialog, request, entered, entries>>

Reload ==
  /\ cached # Listed
  /\ cached' = Listed
  /\ UNCHANGED <<sprint, other, dialog, request, entered, entries, edits>>

Next ==
  \/ StartSprint \/ EditSprint \/ CloseDialog \/ SubmitStart \/ SubmitEdit
  \/ Apply \/ Refuse \/ Saved \/ Fail
  \/ TeammateMovesOther \/ Reload
  \/ \E state \in {"active", "completed", "gone"} : TeammateMoves(state)
  \/ \E name \in Names : SetName(name) \/ TeammateEdits("name", name)
  \/ \E goal \in Goals : SetGoal(goal) \/ TeammateEdits("goal", goal)
  \/ \E date \in Dates \cup {NoDate} :
       \/ SetStart(date) \/ SetEnd(date)
       \/ TeammateEdits("startDate", date) \/ TeammateEdits("endDate", date)
  \/ \E duration \in Presets \cup {Custom} : SetDuration(duration)

Spec == Init /\ [][Next]_vars

-----------------------------------------------------------------------------
(* Properties: of every state, and of every step. *)

(* An end date the form itself filled in: the sprint had a start date only. *)
FilledIn(field) ==
  field = "endDate" /\ dialog.sprint.startDate # NoDate /\ dialog.sprint.endDate = NoDate

(* A sprint saved from a dialog keeps what teammates made of the fields the user did not
   change there, "so a teammate's rename meanwhile is kept": its name and goal always, and in
   an edit its dates.  Not of those the dialog sends of its own: a start sends both dates
   ("Sends the name and goal only when they were changed"), an edit the end date it filled in
   (see EditSendsOnlyChanges). *)
TeammatesEditsKept ==
  request # None /\ request.answer = "none" /\ sprint' # sprint /\ request' # request =>
       \A f \in Fields :
         sprint'[f] # sprint[f] =>
           \/ f \in entered
           \/ dialog.type = "start" /\ f \in {"startDate", "endDate"}
           \/ FilledIn(f)

(* The form's preset is the length of the dates it shows, so that the duration the user reads
   is the one saved.  Excepted is a start of a sprint with an end date only. *)
PresetIsTheLength ==
  dialog # None =>
    LET v == dialog.values
    IN  \/ v.duration = Custom
        \/ NoDate \in {v.startDate, v.endDate}
        \/ v.endDate = v.startDate + v.duration
        \/ dialog.sprint.startDate = NoDate /\ dialog.sprint.endDate # NoDate

(* "Edit sprint: sends only the fields that changed" (SprintDialogs.tsx): those its user
   changed.  The code does not keep to it: see README.md. *)
EditSendsOnlyChanges ==
  request = None /\ request' # None /\ dialog.type = "edit" => DOMAIN request'.input \subseteq entered
=============================================================================
