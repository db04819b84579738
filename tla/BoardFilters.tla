---------------------------- MODULE BoardFilters ----------------------------
(***************************************************************************)
(* The quick filters of the board (boardFilters.ts, useBoardView.ts) and   *)
(* their toolbar: which issues they hide, and which choices are offered,   *)
(* as the issues of the board come and go.                                 *)
(***************************************************************************)
EXTENDS FiniteSets

CONSTANTS Contents, \* the boards there may be: the issues, and by id these and their parents
          Me,       \* this user
          None      \* nobody, no epic, no parent

(* Of an issue (types.ts): its type, assignee, parent, and whether the text searched for is
   in its key or summary. *)
IssueOf(type, assignee, parent, named) ==
  [type |-> type, assignee |-> assignee, parent |-> parent, named |-> named]

BoardFiltersAssumption == \A board \in Contents : board.issues \subseteq DOMAIN board.byId

VARIABLES onBoard, \* the board as it was last loaded
          filters  \* the toolbar's choices

vars == <<onBoard, filters>>

-----------------------------------------------------------------------------
(* boardFilters.ts *)

EmptyFilters == [text |-> FALSE, assignees |-> {}, onlyMine |-> FALSE, types |-> {}, epics |-> {},
                 hideSubtasks |-> FALSE]

HasActiveFilters(f) == f # EmptyFilters

(* epicOf: the parent, or for a subtask the parent's parent, where that is an epic. *)
EpicOf(i, byId) ==
  LET parent == byId[i].parent
      grand == byId[parent].parent
  IN  IF parent = None THEN None
      ELSE IF byId[parent].type = "epic" THEN parent
      ELSE IF byId[i].type = "subtask" /\ grand # None /\ byId[grand].type = "epic" THEN grand
      ELSE None

(* createIssueMatcher *)
Matches(f, i, byId) ==
  LET issue == byId[i]
  IN  /\ ~(f.hideSubtasks /\ issue.type = "subtask")
      /\ f.types = {} \/ issue.type \in f.types
      /\ f.onlyMine => issue.assignee = Me
      /\ f.assignees = {} \/ issue.assignee \in f.assignees
      /\ f.epics = {} \/ EpicOf(i, byId) \in f.epics
      /\ f.text => issue.named

(* deriveFilterOptions: None stands for "Unassigned" and "Issues without epic". *)
Options(board) ==
  [assignees |-> {board.byId[i].assignee : i \in board.issues},
   epics |-> {EpicOf(i, board.byId) : i \in board.issues},
   hasSubtasks |-> \E i \in board.issues : board.byId[i].type = "subtask"]

(* Mutant: people who left the board stay in the filter. *)
PruneEpics(f, options) == [f EXCEPT !.epics = @ \cap options.epics]

(* pruneFilters: without the values that are no longer on the board. *)
PruneFilters(f, options) ==
  [f EXCEPT !.epics = @ \cap options.epics, !.assignees = @ \cap options.assignees]

(* useBoardView *)
Effective(board) == PruneFilters(filters, Options(board))
Visible(board) == {i \in board.issues : Matches(Effective(board), i, board.byId)}

-----------------------------------------------------------------------------
Init == onBoard \in Contents /\ filters = EmptyFilters

(* The board is loaded again. *)
Reload(board) ==
  /\ onBoard # board
  /\ onBoard' = board
  /\ UNCHANGED filters

(* BoardToolbar.tsx: a choice is toggled among those still offered, or all are cleared. *)
Toggled(set, value) == IF value \in set THEN set \ {value} ELSE set \cup {value}

Choose(f) == filters' = f /\ UNCHANGED onBoard

ToggleFilter ==
  LET options == Options(onBoard)
      pruned == Effective(onBoard)
  IN  \/ Choose([filters EXCEPT !.text = ~@])
      \/ Choose([filters EXCEPT !.onlyMine = ~@])
      \/ \E a \in options.assignees : Choose([filters EXCEPT !.assignees = Toggled(pruned.assignees, a)])
      \/ \E e \in options.epics : Choose([filters EXCEPT !.epics = Toggled(pruned.epics, e)])
      \/ \E t \in {"story", "subtask"} : Choose([filters EXCEPT !.types = Toggled(@, t)])
      \/ (options.hasSubtasks \/ filters.hideSubtasks) /\ Choose([filters EXCEPT !.hideSubtasks = ~@])

ClearFilters == HasActiveFilters(Effective(onBoard)) /\ Choose(EmptyFilters)

Next == (\E board \in Contents : Reload(board)) \/ ToggleFilter \/ ClearFilters

Spec == Init /\ [][Next]_vars

-----------------------------------------------------------------------------
(* Properties *)

(* When an issue of the board is hidden, a control of the toolbar is on that hides it: the
   values of people and epics that left the board do not go on narrowing it unseen
   (pruneFilters: they "would narrow the board with no visible control to turn them off"). *)
ControlsOn(board, i) ==
  LET issue == board.byId[i]
      offered == Options(board)
  IN  \/ filters.text /\ ~issue.named
      \/ filters.onlyMine /\ issue.assignee # Me
      \/ filters.hideSubtasks /\ issue.type = "subtask"
      \/ filters.types # {} /\ issue.type \notin filters.types
      \/ \E a \in filters.assignees \cap offered.assignees : a # issue.assignee
      \/ \E e \in filters.epics \cap offered.epics : e # EpicOf(i, board.byId)

HiddenByAControl == \A i \in onBoard.issues \ Visible(onBoard) : ControlsOn(onBoard, i)
=============================================================================
