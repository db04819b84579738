----------------------------- MODULE IssueModal -----------------------------
(***************************************************************************)
(* The issue modal over a page: the browser's history it lives in (the     *)
(* parameter ?issue= of an entry, ModalsProvider), the unsaved drafts of   *)
(* the issue it shows (its description, a comment, a new comment) and the  *)
(* guard that asks before they are left behind (useDiscardGuard), while    *)
(* saves, a deletion and teammates' changes are under way.                 *)
(***************************************************************************)
EXTENDS Naturals, Sequences

CONSTANTS Paths,     \* the pages
          Keys,      \* the issues
          None,      \* no issue, no draft, no request
          MaxEntries \* bound: the entries of the browser's history

(* The locations, and the questions about leaving one. *)
Entries == [path : Paths, issue : Keys \cup {None}, depth : Nat, based : BOOLEAN]
Questions == [history : Seq(Entries), at : Nat, close : BOOLEAN]

IssueModalAssumption == None \notin Keys \cup Questions /\ MaxEntries \in Nat \ {0}

VARIABLES history,  \* the entries of the browser's history
          at,       \* the one shown
          unsaved,  \* the editors of the issue shown with text typed and not saved
          saving,   \* the one that is being saved
          deletion, \* the issue being deleted, as this user confirmed
          deleting, \* the issue shown is: its view is inert
          leaving,  \* leaving the issue shown is settled
          asking    \* "Discard unsaved changes?", and what it would go on with

vars == <<history, at, unsaved, saving, deletion, deleting, leaving, asking>>

Editors == {"description", "comment", "composer"}

(* A location, with ModalLocationState: the entries openIssue pushed in a row (depth), and
   whether the one below them had the parameter (based). *)
Entry(path, issue, depth, based) == [path |-> path, issue |-> issue, depth |-> depth, based |-> based]
WithoutIssueParam(e) == Entry(e.path, None, 0, FALSE)

Here == history[at]
Modal == Here.issue

(* createUnsavedEdits, useReportUnsaved: the drafts of an issue being deleted do not count. *)
AnyUnsaved == unsaved # {} /\ ~deleting

(* The question is open, or the dialog of the deletion: only the browser's buttons work. *)
Free == asking = None /\ deletion = None

-----------------------------------------------------------------------------
Init ==
  /\ \E path \in Paths, issue \in Keys \cup {None} : history = <<Entry(path, issue, 0, FALSE)>>
  /\ at = 1
  /\ unsaved = {} /\ saving = None
  /\ deletion = None /\ deleting = FALSE
  /\ leaving = FALSE /\ asking = None

(* The effect on the location: an entry closeIssue unwound to loses its parameter. *)
Stripped(entries, a, strip) ==
  IF strip /\ entries[a].depth = 0 THEN [entries EXCEPT ![a] = WithoutIssueParam(@)] ELSE entries

(* Mutant: leaving stays settled for the issue opened next. *)
LeavingStays(settled, next) == settled /\ next # None
(* Another issue starts with nothing unsaved, and asks again. *)
LeavingAfter(settled, next) == settled /\ next = Modal

(* The router goes to entry a. The guard blocks a navigation that leaves the issue shown, and
   asks; otherwise another issue, or none, has a view of its own. *)
Navigate(entries, a, settled, strip) ==
  IF Modal # None /\ ~settled /\ AnyUnsaved /\ entries[a].issue # Modal
  THEN /\ asking' = [history |-> entries, at |-> a, close |-> FALSE]
       /\ UNCHANGED <<history, at, unsaved, saving, deleting, leaving>>
  ELSE LET landed == Stripped(entries, a, strip)
           next == landed[a].issue
       IN  /\ history' = landed /\ at' = a
           /\ asking' = None
           /\ leaving' = LeavingAfter(settled, next)
           /\ IF next = Modal THEN UNCHANGED <<unsaved, saving, deleting>>
              ELSE unsaved' = {} /\ saving' = None /\ deleting' = FALSE

Push(e) == Navigate(Append(SubSeq(history, 1, at), e), at + 1, leaving, FALSE)

(* A link to a page. *)
FollowLink(path) ==
  /\ Free /\ at < MaxEntries
  /\ path # Here.path \/ Modal # None
  /\ Push(Entry(path, None, 0, FALSE))
  /\ UNCHANGED deletion

(* Back and Forward. *)
Traverse(a) ==
  /\ asking = None
  /\ a \in {at - 1, at + 1} \cap DOMAIN history
  /\ Navigate(history, a, leaving, FALSE)
  /\ UNCHANGED deletion

(* openIssue: from the page, or from the issue shown. *)
OpenIssue(key) ==
  /\ Free /\ at < MaxEntries
  /\ Modal # key
  /\ Push(Entry(Here.path, key, Here.depth + 1, IF Here.depth = 0 THEN Modal # None ELSE Here.based))
  /\ UNCHANGED deletion

(* closeIssue: back over the entries openIssue pushed, or without the parameter in place. *)
CloseIssue ==
  IF Modal = None THEN UNCHANGED <<history, at, unsaved, saving, deleting, leaving, asking>>
  ELSE IF Here.depth > 0 THEN Navigate(history, at - Here.depth, TRUE, Here.based)
  ELSE Navigate([history EXCEPT ![at] = WithoutIssueParam(@)], at, TRUE, FALSE)

(* requestClose: Escape, the overlay, the close button. *)
RequestClose ==
  /\ Free /\ Modal # None
  /\ IF AnyUnsaved THEN /\ asking' = [history |-> history, at |-> at, close |-> TRUE]
                 /\ UNCHANGED <<history, at, unsaved, saving, deleting, leaving>>
     ELSE CloseIssue
  /\ UNCHANGED deletion

(* The user answers the question. *)
Discard ==
  /\ asking # None
  /\ IF asking.close THEN CloseIssue ELSE Navigate(asking.history, asking.at, TRUE, FALSE)
  /\ UNCHANGED deletion

Stay ==
  /\ asking # None
  /\ asking' = None
  /\ UNCHANGED <<history, at, unsaved, saving, deletion, deleting, leaving>>

-----------------------------------------------------------------------------
(* The drafts: IssueDescription, CommentItem and CommentComposer. *)

Drafts(set) ==
  /\ unsaved' = set
  /\ saving' = IF saving \in set THEN saving ELSE None
  /\ UNCHANGED <<history, at, deletion, deleting, leaving, asking>>

Type(e) == Free /\ Modal # None /\ saving # e /\ e \notin unsaved /\ Drafts(unsaved \cup {e})

(* The Cancel button, or Escape in the description and a comment, which asks first. *)
CancelDraft(e) == Free /\ e \in unsaved /\ saving # e /\ Drafts(unsaved \ {e})

Save(e) ==
  /\ Free /\ e \in unsaved /\ saving = None
  /\ saving' = e
  /\ UNCHANGED <<history, at, unsaved, deletion, deleting, leaving, asking>>

Saved == saving # None /\ Drafts(unsaved \ {saving})

SaveFailed ==
  /\ saving # None
  /\ saving' = None
  /\ UNCHANGED <<history, at, unsaved, deletion, deleting, leaving, asking>>

(* A teammate deletes the comment, or the issue: there is nothing left to save to. *)
TeammateDeletes(lost) == unsaved \cap lost # {} /\ Drafts(unsaved \ lost)

(* IssueHeader.onDelete, confirmed. The view may no longer edit: the composer goes. *)
DeleteIssue ==
  /\ Free /\ Modal # None
  /\ deletion' = Modal /\ deleting' = TRUE
  /\ unsaved' = unsaved \ {"composer"}
  /\ saving' = IF saving = "composer" THEN None ELSE saving
  /\ UNCHANGED <<history, at, leaving, asking>>

(* onDeleted closes the modal, whatever it shows by now. *)
Deleted ==
  /\ deletion # None /\ asking = None
  /\ deletion' = None
  /\ CloseIssue

DeleteFailed ==
  /\ deletion # None
  /\ deletion' = None /\ deleting' = FALSE
  /\ UNCHANGED <<history, at, unsaved, saving, leaving, asking>>

Next ==
  \/ \E path \in Paths : FollowLink(path)
  \/ \E a \in 1..MaxEntries : Traverse(a)
  \/ \E key \in Keys : OpenIssue(key)
  \/ \E e \in Editors : Type(e) \/ CancelDraft(e) \/ Save(e)
  \/ \E lost \in {{"comment"}, Editors} : TeammateDeletes(lost)
  \/ RequestClose \/ Discard \/ Stay \/ Saved \/ SaveFailed
  \/ DeleteIssue \/ Deleted \/ DeleteFailed

Spec == Init /\ [][Next]_vars

-----------------------------------------------------------------------------
(* Properties: of every state, and of every step. *)

(* Typed text goes only when it is saved, when the user discards it, or when the issue or the
   comment it belongs to is deleted: "every way of leaving the issue" asks first, the
   browser's buttons and an issue opened after drafts were discarded included. *)
DraftsAreKept ==
  unsaved \subseteq unsaved' \/ deleting' \/ deleting \/ Saved \/ Discard
     \/ (\E e \in Editors : CancelDraft(e))
     \/ (\E lost \in {{"comment"}, Editors} : TeammateDeletes(lost))

(* Closing the modal shows the page it was opened over, with no entry of the modal's left
   below: unwinding never "lands on an open modal again", though the page was loaded with
   one, and however many issues were opened from each other. *)
Closing == RequestClose \/ (Discard /\ asking.close)

ClosesToPage ==
  asking' = None /\ Closing => Modal' = None /\ Here'.path = Here.path /\ Here'.depth = 0
=============================================================================
