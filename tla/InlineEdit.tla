----------------------------- MODULE InlineEdit -----------------------------
(***************************************************************************)
(* One click-to-edit field while teammates change the same field: its      *)
(* draft (useEditDraft) and the four editors that use it, a summary or a   *)
(* column's name (EditableText), the description (IssueDescription), story *)
(* points or the due date (InlineEditInput) and a column's limit           *)
(* (WipLimitInput).                                                        *)
(***************************************************************************)
EXTENDS Naturals

CONSTANTS Kinds,    \* the fields: among "summary", "description", "points", "dueDate" of an issue,
                    \* "name" and "limit" of a column
          Texts,    \* what may be typed, trimmed
          Empty,    \* the empty text
          Unparsed, \* what the browser cannot parse as a number or a date
          None      \* no request

InlineEditAssumption ==
  /\ Kinds \subseteq {"summary", "description", "points", "dueDate", "name", "limit"}
  /\ Empty \in Texts /\ Unparsed \notin Texts
  /\ None \notin [text : Texts, answer : {"none", "saved", "refetching", "failed"}]

VARIABLES kind,    \* the field
          saved,   \* its value at the server
          value,   \* its value in the cache
          edit,    \* the editor: open, draft, touched, base, and the input's validity and calendar
          request, \* the PATCH under way
          typed,   \* history: what the user typed last
          known    \* history: the value the user saw when beginning to type, or typed as well

vars == <<kind, saved, value, edit, request, typed, known>>

(* InlineEditInput, with useOptimisticField behind it; the others hold the editor while saving. *)
Inline == kind \in {"points", "dueDate"}
(* EditableText: a text that may not be empty. *)
Required == kind \in {"summary", "name"}
(* A number or a date, which the browser parses. *)
Parsed == Inline \/ kind = "limit"
IsPending == request # None
(* What the field shows: useOptimisticField shows the pending value. *)
Display == IF Inline /\ IsPending THEN request.text ELSE value

-----------------------------------------------------------------------------
(* useEditDraft *)

Editor(base) == [editing |-> TRUE, draft |-> base, touched |-> FALSE, base |-> base,
                 badInput |-> FALSE, pickerValue |-> base]
Stopped(e) == [e EXCEPT !.editing = FALSE]

(* While rendering: a draft nothing conflicts with moves along with the value. *)
Rebased(e, live) ==
  IF e.editing /\ (~e.touched \/ e.draft = live)
  THEN [e EXCEPT !.base = live, !.draft = IF e.touched THEN @ ELSE live]
  ELSE e

Dirty == edit.editing /\ edit.draft # edit.base
IsEdit(text) == text # edit.base /\ text # Display
ChangedElsewhere == edit.editing /\ edit.touched /\ Display # edit.base

-----------------------------------------------------------------------------
Init ==
  /\ kind \in Kinds
  /\ saved \in Texts /\ (Required => saved # Empty)
  /\ value = saved
  /\ edit = Stopped(Editor(saved))
  /\ request = None
  /\ typed = saved /\ known = saved

(* InlineEditInput: not while saving. *)
Start ==
  /\ ~edit.editing /\ ~IsPending
  /\ edit' = Editor(value)
  /\ typed' = value /\ known' = value
  /\ UNCHANGED <<kind, saved, value, request>>

(* The input, disabled or read-only while saving. *)
SetDraft(text, input, bad) ==
  /\ edit.editing /\ ~IsPending
  /\ edit' = Rebased([edit EXCEPT !.draft = text, !.touched = TRUE, !.badInput = bad], value)
  /\ typed' = input
  /\ known' = IF ~edit.touched \/ text = value THEN value ELSE known
  /\ UNCHANGED <<kind, saved, value, request>>

Type(text) == SetDraft(text, text, FALSE)
(* Such an input reports an empty value. *)
TypeUnparsed == Parsed /\ SetDraft(Empty, Unparsed, TRUE)

Send(text) == request' = [text |-> text, answer |-> "none"]

Unchanged == ~Dirty /\ edit' = Stopped(edit) /\ UNCHANGED request

(* EditableText.commit: Enter and blur. *)
Commit ==
  /\ Required /\ edit.editing /\ ~IsPending
  /\ \/ Unchanged
     \/ Dirty /\ edit.draft # Empty /\ Send(edit.draft) /\ UNCHANGED edit
  /\ UNCHANGED <<kind, saved, value, typed, known>>

(* IssueDescription.submit: the Save button. *)
Submit ==
  /\ kind = "description" /\ edit.editing /\ ~IsPending
  /\ \/ Unchanged
     \/ Dirty /\ Send(edit.draft) /\ UNCHANGED edit
  /\ UNCHANGED <<kind, saved, value, typed, known>>

(* InlineEditInput.finish saves what is an edit and could be parsed. *)
Saves(raw) == ~edit.badInput /\ IsEdit(raw)

(* Enter and blur: the editor closes first. *)
Finish ==
  /\ Inline /\ edit.editing
  /\ edit' = Stopped(edit)
  /\ IF Saves(edit.draft) THEN Send(edit.draft) ELSE UNCHANGED request
  /\ UNCHANGED <<kind, saved, value, typed, known>>

(* WipLimitInput.commit: Enter and blur; the editor closes at once when there is nothing to save. *)
CommitLimit ==
  /\ kind = "limit" /\ edit.editing /\ ~IsPending
  /\ IF Saves(edit.draft) THEN Send(edit.draft) /\ UNCHANGED edit
                          ELSE edit' = Stopped(edit) /\ UNCHANGED request
  /\ UNCHANGED <<kind, saved, value, typed, known>>

(* A day picked in the calendar is saved at once, unless the calendar opened on it. *)
Pick(day) ==
  /\ kind = "dueDate" /\ edit.editing /\ day # Empty
  /\ edit' = Stopped([edit EXCEPT !.draft = day, !.touched = TRUE, !.badInput = FALSE])
  /\ typed' = day
  /\ known' = IF ~edit.touched \/ day = value THEN value ELSE known
  /\ IF day # edit.pickerValue /\ IsEdit(day) THEN Send(day) ELSE UNCHANGED request
  /\ UNCHANGED <<kind, saved, value>>

(* Escape, or the Cancel button (the description's asks first, when dirty). *)
Cancel ==
  /\ edit.editing /\ ~IsPending
  /\ edit' = Stopped(edit)
  /\ UNCHANGED <<kind, saved, value, request, typed, known>>

(* The button that clears a date. *)
Clear ==
  /\ kind = "dueDate" /\ ~edit.editing /\ ~IsPending /\ value # Empty
  /\ Send(Empty)
  /\ typed' = Empty /\ known' = value
  /\ UNCHANGED <<kind, saved, value, edit>>

-----------------------------------------------------------------------------
(* useUpdateIssue: the server saves the text, or refuses it. *)
Save ==
  /\ IsPending /\ request.answer = "none"
  /\ \/ saved' = request.text /\ request' = [request EXCEPT !.answer = "saved"]
     \/ request' = [request EXCEPT !.answer = "failed"] /\ UNCHANGED saved
  /\ UNCHANGED <<kind, value, edit, typed, known>>

(* The answer is put into the cache (an issue's, not a column's), and the queries are loaded
   again. *)
Answered ==
  /\ IsPending /\ request.answer = "saved"
  /\ value' = IF kind \in {"name", "limit"} THEN value ELSE request.text
  /\ edit' = Rebased(edit, value')
  /\ request' = [request EXCEPT !.answer = "refetching"]
  /\ UNCHANGED <<kind, saved, typed, known>>

(* They have been: the editor closes. *)
Settled ==
  /\ IsPending /\ request.answer = "refetching"
  /\ value' = saved
  /\ edit' = Stopped(Rebased(edit, value'))
  /\ request' = None
  /\ UNCHANGED <<kind, saved, typed, known>>

(* The save failed: the editor stays open with the draft (a limit's closes), or the field shows
   its value again. *)
Failed ==
  /\ IsPending /\ request.answer = "failed"
  /\ request' = None
  /\ edit' = IF kind = "limit" THEN Stopped(edit) ELSE edit
  /\ UNCHANGED <<kind, saved, value, typed, known>>

(* A teammate changes the field, and it is loaded again. *)
Teammate(text) ==
  /\ saved # text /\ (Required => text # Empty)
  /\ saved' = text
  /\ UNCHANGED <<kind, value, edit, request, typed, known>>

Reload ==
  /\ value # saved
  /\ value' = saved
  /\ edit' = Rebased(edit, value')
  /\ known' = IF edit.editing /\ (~edit.touched \/ edit.draft = value') THEN value' ELSE known
  /\ UNCHANGED <<kind, saved, request, typed>>

Next ==
  \/ Start \/ TypeUnparsed \/ Commit \/ Submit \/ Finish \/ CommitLimit \/ Cancel \/ Clear
  \/ Save \/ Answered \/ Settled \/ Failed \/ Reload
  \/ \E text \in Texts : Type(text) \/ Pick(text) \/ Teammate(text)

Spec == Init /\ [][Next]_vars

-----------------------------------------------------------------------------
(* Properties: of every state, and of every step. *)

(* What is sent is what the user last typed and would change the field: an untouched editor
   "never writes the stale text back over a teammate's change", and what cannot be parsed
   "must not clear the field". When the value shown is not the one the user knew of, the
   editor says so before it is replaced (changedElsewhere). *)
SavesAreEdits ==
  request = None /\ request' # None =>
       /\ request'.text = typed'
       /\ request'.text # value
       /\ value # known' => ChangedElsewhere
=============================================================================
