---------------------------- MODULE QuickCreate ----------------------------
(***************************************************************************)
(* Creating issues in a section of the backlog (QuickCreate.tsx), one      *)
(* after another without waiting, in the epic the page is filtered by      *)
(* (BacklogPage.tsx, EpicsPanel.tsx), while teammates delete epics.        *)
(***************************************************************************)
EXTENDS FiniteSets

CONSTANTS Epics,    \* epics
          Texts,    \* what may be typed, trimmed
          Empty,    \* nothing typed
          NoEpic,   \* of an issue: no epic; as a filter, "none"
          All,      \* the filter that shows all issues (null)
          Requests  \* names of the creations under way, so a bound on how many there are

QuickCreateAssumption ==
  /\ NoEpic \notin Epics /\ All \notin Epics /\ All # NoEpic
  /\ Empty \notin Texts

VARIABLES epics,    \* the epics there are at the server
          listed,   \* those the page knows
          filter,   \* the epic filter
          open,     \* whether the form is open
          box,      \* its text
          inFlight  \* the creations under way, by name

vars == <<epics, listed, filter, open, box, inFlight>>

-----------------------------------------------------------------------------
(* A filter whose epic no longer exists falls back to all issues. *)
Effective == IF filter \in Epics /\ filter \notin listed THEN All ELSE filter

(* The epic new issues go to: the one selected, where the page knows it. *)
SelectedEpic == IF filter \in listed THEN filter ELSE NoEpic

(* matchesFilters, of an issue's epic: a text or assignees may filter as well. *)
MatchesEpic(f, epic) == f = All \/ epic = f

Init ==
  /\ epics \in SUBSET Epics /\ listed = epics
  /\ filter = All /\ open = FALSE /\ box = Empty
  /\ inFlight = [r \in {} |-> Empty]

(* EpicsPanel: an epic or "Issues without epic" is toggled. *)
SetFilter ==
  /\ \E f \in listed \cup {NoEpic} : filter' = IF Effective = f THEN All ELSE f
  /\ UNCHANGED <<epics, listed, open, box, inFlight>>

(* "All issues", or the toolbar's tag and "Clear filters". *)
ClearFilter ==
  /\ filter # All /\ filter' = All
  /\ UNCHANGED <<epics, listed, open, box, inFlight>>

Open ==
  /\ ~open /\ open' = TRUE
  /\ UNCHANGED <<epics, listed, filter, box, inFlight>>

(* Escape, the Cancel button, or the draft handed to the create dialog. *)
Close ==
  /\ open /\ open' = FALSE
  /\ box' = Empty
  /\ UNCHANGED <<epics, listed, filter, inFlight>>

Type(text) ==
  /\ open /\ box # text
  /\ box' = text
  /\ UNCHANGED <<epics, listed, filter, open, inFlight>>

(* Enter: the box is cleared right away for the next issue. *)
Submit ==
  /\ open /\ box # Empty
  /\ \E r \in Requests \ DOMAIN inFlight :
       inFlight' = [q \in DOMAIN inFlight \cup {r} |->
                      IF q = r THEN [text |-> box, parent |-> SelectedEpic, filter |-> Effective,
                                     answer |-> "none"]
                      ELSE inFlight[q]]
  /\ box' = Empty
  /\ UNCHANGED <<epics, listed, filter, open>>

(* POST /issues: refused when the epic is gone, or fails for another reason. *)
Answer(r) ==
  /\ inFlight[r].answer = "none"
  /\ \E answer \in IF inFlight[r].parent \in epics \cup {NoEpic} THEN {"created", "failed"} ELSE {"failed"} :
       inFlight' = [inFlight EXCEPT ![r].answer = answer]
  /\ UNCHANGED <<epics, listed, filter, open, box>>

Landed(r) == inFlight' = [q \in DOMAIN inFlight \ {r} |-> inFlight[q]]

Created(r) ==
  /\ inFlight[r].answer = "created"
  /\ Landed(r)
  /\ UNCHANGED <<epics, listed, filter, open, box>>

(* The text of a failed creation comes back into an empty box. *)
PutBack(current, text) == IF current = Empty THEN text ELSE current

Failed(r) ==
  /\ inFlight[r].answer = "failed"
  /\ Landed(r)
  /\ box' = PutBack(box, inFlight[r].text)
  /\ UNCHANGED <<epics, listed, filter, open>>

(* A teammate deletes an epic, and the page's epics are loaded again. *)
Teammate(epic) ==
  /\ epic \in epics /\ epics' = epics \ {epic}
  /\ UNCHANGED <<listed, filter, open, box, inFlight>>

Reload ==
  /\ listed # epics /\ listed' = epics
  /\ UNCHANGED <<epics, filter, open, box, inFlight>>

Next ==
  \/ SetFilter \/ ClearFilter \/ Open \/ Close \/ Submit \/ Reload
  \/ \E text \in Texts \cup {Empty} : Type(text)
  \/ \E r \in DOMAIN inFlight : Answer(r) \/ Created(r) \/ Failed(r)
  \/ \E epic \in Epics : Teammate(epic)

Spec == Init /\ [][Next]_vars

-----------------------------------------------------------------------------
(* Properties: of every state, and of every step. *)

(* An issue is created in the epic the page was filtered by: the epic filter in effect when it
   was submitted does not hide it (a filter "whose epic no longer exists falls back").  Nothing
   is said of the filters by text and by assignee, which a new issue need not pass. *)
NewIssuePassesEpicFilter ==
  \A r \in DOMAIN inFlight : MatchesEpic(inFlight[r].filter, inFlight[r].parent)

(* However the answers of several creations come in, none changes what the user has typed
   since (the box is cleared so "the next issue can be typed while this one saves"), and no
   text both became an issue and is back in the box, where Enter would create it twice. *)
TypedIsKept ==
  \A r \in DOMAIN inFlight : r \notin DOMAIN inFlight' =>
       /\ box # Empty => box' = box
       /\ inFlight[r].answer = "created" => box' = box
=============================================================================
