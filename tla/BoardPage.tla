------------------------------ MODULE BoardPage ------------------------------
(***************************************************************************)
(* The dialog that completes the active sprint, on the board's page: opened *)
(* by its button or by the link of the backlog (?completeSprint=1), while  *)
(* teammates complete, start and delete sprints.                           *)
(***************************************************************************)
EXTENDS Naturals, FiniteSets

CONSTANTS Sprints, \* the project's sprints
          None     \* null

BoardPageAssumption == None \notin Sprints

VARIABLES sprintState, \* at the server: each sprint planned, active, completed or deleted
          page,        \* the board as it was last loaded (None: not yet): its sprint, and
                       \* whether parent issues in it are open
          role,        \* this user's role: loading, viewer or editor
          asked,       \* the sprint the user clicked Complete for (completeSprintId)
          requested,   \* the parameter ?completeSprint=1
          plannedList, \* the planned sprints as they were last loaded (None: pending)
          choice,      \* the target chosen in the dialog
          completing,  \* the request to complete a sprint
          clicked      \* history: the sprints the user ever clicked Complete for

vars == <<sprintState, page, role, asked, requested, plannedList, choice, completing, clicked>>

Active(states) == {s \in Sprints : states[s] = "active"}

(* BoardPage.tsx *)
ShownSprint == IF page = None THEN None ELSE page.sprint
CanComplete == ShownSprint # None /\ role = "editor"

(* Mutant: the dialog is open whenever the user once asked for it. *)
DialogOpenAnyway == ShownSprint # None /\ (asked # None \/ (requested /\ CanComplete))
(* dialogOpen *)
DialogOpen == ShownSprint # None /\ (asked = ShownSprint \/ (requested /\ CanComplete))

(* Whether the dialog is waiting for its request; one that was closed by a reload is not. *)
IsPending == completing # None /\ completing.mounted

(* What follows a change of the board or the role: a parameter nobody can follow is dropped,
   and a dialog that goes loses its choice, but not the request it has sent. *)
Rendered ==
  LET stays == DialogOpen /\ DialogOpen'
  IN  /\ requested' = (requested /\ (page' = None \/ role' = "loading" \/ CanComplete'))
      /\ choice' = IF stays THEN choice ELSE None
      /\ completing' = IF stays \/ completing = None THEN completing
                       ELSE [completing EXCEPT !.mounted = FALSE]

Init ==
  /\ sprintState \in [Sprints -> {"planned", "active"}]
  /\ Cardinality(Active(sprintState)) <= 1
  /\ page = None
  /\ role = "loading"
  /\ asked = None
  /\ requested \in BOOLEAN
  /\ plannedList = None
  /\ choice = None
  /\ completing = None
  /\ clicked = {}

(* The board is loaded, or loaded again. *)
Load ==
  /\ \E s \in Sprints \cup {None}, open \in BOOLEAN :
       /\ IF Active(sprintState) = {} THEN s = None ELSE s \in Active(sprintState)
       /\ page' = [sprint |-> s, open |-> open]
  /\ UNCHANGED <<sprintState, role, asked, plannedList, clicked>>
  /\ Rendered

(* The role is loaded, or a teammate changes it. *)
LoadRole(r) ==
  /\ role # r
  /\ role' = r
  /\ UNCHANGED <<sprintState, page, asked, plannedList, clicked>>
  /\ Rendered

-----------------------------------------------------------------------------
(* CompleteSprintDialog.tsx *)

(* The button of the header. *)
OpenCompleteSprint ==
  /\ CanComplete /\ ~DialogOpen
  /\ asked' = ShownSprint
  /\ clicked' = clicked \cup {ShownSprint}
  /\ UNCHANGED <<sprintState, page, role, requested, plannedList, choice, completing>>

(* closeCompleteSprint, as the dialog was rendered when it had the parameter or had not. *)
CloseCompleteSprint(withParameter) ==
  /\ asked' = None
  /\ requested' = (requested /\ ~withParameter)
  /\ choice' = IF DialogOpen' THEN choice ELSE None

(* Cancel, Escape, a click outside: not while the request is on its way (preventClose). *)
CloseDialog ==
  /\ DialogOpen /\ ~IsPending
  /\ UNCHANGED <<sprintState, page, role, plannedList, completing, clicked>>
  /\ CloseCompleteSprint(requested)

(* useSprints: loaded while the dialog is open.  When that fails there are none to choose
   ("you can still use the backlog or a new sprint"), or those loaded before. *)
LoadPlanned ==
  /\ DialogOpen
  /\ \/ plannedList' = {s \in Sprints : sprintState[s] = "planned"}
     \/ plannedList = None /\ plannedList' = {}
  /\ UNCHANGED <<sprintState, page, role, asked, requested, choice, completing, clicked>>

(* The options: the backlog, the planned sprints, a new sprint. *)
Planned == IF plannedList = None THEN {} ELSE plannedList \ {ShownSprint}
Targets == {"backlog", "new"} \cup Planned

ChooseTarget(t) ==
  /\ DialogOpen /\ ~IsPending /\ page.open
  /\ t \in Targets /\ choice # t
  /\ choice' = t
  /\ UNCHANGED <<sprintState, page, role, asked, requested, plannedList, completing, clicked>>

(* target: the choice while it is an option, else the default: a planned sprint, if any. *)
Target ==
  IF choice \in Targets THEN {choice} ELSE IF Planned # {} THEN Planned ELSE {"backlog"}

(* onSubmit. One request at a time is followed. *)
Submit ==
  /\ DialogOpen /\ completing = None
  /\ page.open => plannedList # None
  /\ \E t \in IF page.open THEN Target ELSE {"backlog"} :
       completing' = [sprint |-> ShownSprint, target |-> t, answer |-> "none",
                      mounted |-> TRUE, parameter |-> requested]
  /\ UNCHANGED <<sprintState, page, role, asked, requested, plannedList, choice, clicked>>

(* The server completes the sprint, if it is active and its target planned. *)
CompleteSprint ==
  /\ completing # None /\ completing.answer = "none"
  /\ LET ok == /\ sprintState[completing.sprint] = "active"
               /\ completing.target \in Sprints => sprintState[completing.target] = "planned"
     IN  /\ completing' = [completing EXCEPT !.answer = IF ok THEN "done" ELSE "refused"]
         /\ sprintState' = IF ok THEN [sprintState EXCEPT ![completing.sprint] = "completed"] ELSE sprintState
  /\ UNCHANGED <<page, role, asked, requested, plannedList, choice, clicked>>

(* The answer: the dialog closes, or on an error it stays for another attempt. *)
Answered ==
  /\ completing # None /\ completing.answer # "none"
  /\ completing' = None
  /\ UNCHANGED <<sprintState, page, role, plannedList, clicked>>
  /\ IF completing.answer = "done" THEN CloseCompleteSprint(completing.parameter)
     ELSE UNCHANGED <<asked, requested, choice>>

(* Teammates complete the active sprint, start one, delete one. *)
Teammate(s, from, to) ==
  /\ sprintState[s] = from
  /\ to = "active" => Active(sprintState) = {}
  /\ sprintState' = [sprintState EXCEPT ![s] = to]
  /\ UNCHANGED <<page, role, asked, requested, plannedList, choice, completing, clicked>>

Next ==
  \/ Load \/ LoadPlanned
  \/ \E r \in {"editor", "viewer"} : LoadRole(r)
  \/ OpenCompleteSprint \/ CloseDialog \/ Submit \/ CompleteSprint \/ Answered
  \/ \E t \in {"backlog", "new"} \cup Sprints : ChooseTarget(t)
  \/ \E s \in Sprints : \/ Teammate(s, "active", "completed")
                        \/ Teammate(s, "planned", "active")
                        \/ Teammate(s, "planned", "deleted")

Spec == Init /\ [][Next]_vars

-----------------------------------------------------------------------------
(* Properties: of every state, and of every step. *)

(* Unless the user followed the link of the backlog, the dialog is only ever open for a
   sprint the user clicked Complete for: it "can never pop up for a sprint started later"
   (BoardPage), though that one is completed by a teammate and another started meanwhile. *)
OnlyForAskedSprint == DialogOpen /\ ~requested => ShownSprint \in clicked

(* The target sent is one the dialog offers, and the one chosen while it is offered: "what
   is sent always matches what is shown", though a teammate deletes or starts the sprint. *)
SendsAnOption ==
  completing = None /\ completing' # None =>
       /\ completing'.target \in Targets
       /\ page.open /\ choice \in Targets => completing'.target = choice
=============================================================================
