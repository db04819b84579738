------------------------------- MODULE Pages -------------------------------
(***************************************************************************)
(* The pages, dialogs and controls of the user interface: one of those in  *)
(* Screens is on screen, and its module runs in the slots v1 to v11.  What *)
(* interacts is modelled within one of these modules; between them nothing *)
(* does, so a behaviour shows one of them.                                 *)
(***************************************************************************)
EXTENDS Integers, Sequences, FiniteSets

CONSTANTS
  Screens, Unused,                           \* the pages; the value of a slot the page does not need
  None, Nobody, All, Empty, Me, Lost,        \* sentinels of the modules
  Unparsed, New, Custom, Keep,
  Projects, Scrum, Sprints, Epics,           \* projects, those that are Scrum, sprints, epics
  Statuses, BoardScenes, Gap, Top, Contents, \* Board, BoardFilters
  BacklogScenes, Titles, Creations,          \* Backlog, QuickCreate
  FieldKinds, FieldTexts,                    \* InlineEdit
  Paths, Keys, MaxHistory,                   \* IssueModal
  Openings,                                  \* CreateIssue
  SearchTexts, MaxSearches,                  \* Search
  Issues, StatusOf, CategoryOf, Menus,       \* SearchResults
  PageSize, ApiLimit, SortCap, LastPage,
  Lists,                                     \* Picker
  ListedSprints, Names, Goals, Dates, Today, \* SprintForms
  Presets, Default, MaxEntries,
  Columns, ColumnOrders, ColumnCategories,   \* Columns, DeleteColumn
  MaxDrags, MaxEdits,
  DetailValues, MaxSaves                     \* ProjectDetails

-----------------------------------------------------------------------------
VARIABLES shown, v1, v2, v3, v4, v5, v6, v7, v8, v9, v10, v11

vars == <<shown, v1, v2, v3, v4, v5, v6, v7, v8, v9, v10, v11>>

Bd == INSTANCE Board
  WITH Columns <- Statuses, Scenes <- BoardScenes, Gap <- Gap, Top <- Top, Nobody <- Nobody,
       server <- v1, cache <- v2, fetching <- v3, move <- v4, refresh <- v5, hidden <- v6,
       drag <- v7, history <- v8
Bf == INSTANCE BoardFilters
  WITH Contents <- Contents, Me <- Me, None <- None, onBoard <- v1, filters <- v2
Bp == INSTANCE BoardPage
  WITH Sprints <- Sprints, None <- None, sprintState <- v1, page <- v2, role <- v3,
       asked <- v4, requested <- v5, plannedList <- v6, choice <- v7, completing <- v8,
       clicked <- v9
Bl == INSTANCE Backlog
  WITH Sprints <- Sprints, NoSprint <- None, All <- All, Scenes <- BacklogScenes,
       Nobody <- Nobody, stored <- v1, loaded <- v2, loading <- v3, strangers <- v4, due <- v5,
       pending <- v6, concealed <- v7, flat <- v8, lifted <- v9, past <- v10
Qc == INSTANCE QuickCreate
  WITH Epics <- Epics, Texts <- Titles, Empty <- Empty, NoEpic <- None, All <- All,
       Requests <- Creations, epics <- v1, listed <- v2, filter <- v3, open <- v4, box <- v5,
       inFlight <- v6
Ie == INSTANCE InlineEdit
  WITH Kinds <- FieldKinds, Texts <- FieldTexts, Empty <- Empty, Unparsed <- Unparsed,
       None <- None, kind <- v1, saved <- v2, value <- v3, edit <- v4, request <- v5,
       typed <- v6, known <- v7
Im == INSTANCE IssueModal
  WITH Paths <- Paths, Keys <- Keys, None <- None, MaxEntries <- MaxHistory, history <- v1,
       at <- v2, unsaved <- v3, saving <- v4, deletion <- v5, deleting <- v6, leaving <- v7,
       asking <- v8
Ci == INSTANCE CreateIssue
  WITH Projects <- Projects, Scrum <- Scrum, Openings <- Openings, None <- None, defaults <- v1,
       roles <- v2, listed <- v3, chosenKey <- v4, typeChoice <- v5, scoped <- v6, lookup <- v7,
       summary <- v8, create <- v9, open <- v10
Se == INSTANCE Search
  WITH Texts <- SearchTexts, Empty <- Empty, Projects <- Projects, Kanban <- Projects \ Scrum, None <- None,
       Lost <- Lost, MaxEntries <- MaxSearches, entries <- v1, here <- v2, draft <- v3, timer <- v4,
       pushed <- v5, focused <- v6, before <- v7, resumed <- v8
Sr == INSTANCE SearchResults
  WITH Issues <- Issues, StatusOf <- StatusOf, CategoryOf <- CategoryOf, Menus <- Menus,
       PageSize <- PageSize, ApiLimit <- ApiLimit, SortCap <- SortCap, LastPage <- LastPage, None <- None, matches <- v1,
       filters <- v2, statuses <- v3, paged <- v4, all <- v5, scan <- v6
Pi == INSTANCE Picker
  WITH Kinds <- DOMAIN Lists, Listing <- Lists, Me <- Me, Blank <- Empty, Create <- New,
       None <- None, kind <- v1, saved <- v2, value <- v3, request <- v4, listed <- v5,
       open <- v6, query <- v7, active <- v8, picks <- v9, creating <- v10, toggled <- v11
Sf == INSTANCE SprintForms
  WITH Sprints <- ListedSprints, Names <- Names, Goals <- Goals, Dates <- Dates,
       Today <- Today, NoDate <- None, Presets <- Presets, Default <- Default, Custom <- Custom,
       None <- None, MaxEntries <- MaxEntries, MaxEdits <- MaxEdits, sprint <- v1, other <- v2, cached <- v3,
       dialog <- v4, request <- v5, entered <- v6, entries <- v7, edits <- v8
Co == INSTANCE Columns
  WITH Columns <- Columns, Orders <- ColumnOrders, None <- None, MaxDrags <- MaxDrags,
       MaxEdits <- MaxEdits, order <- v1, cached <- v2, override <- v3, run <- v4, drags <- v5,
       adding <- v6, edits <- v7
Dc == INSTANCE DeleteColumn
  WITH Columns <- Columns, Orders <- ColumnOrders, CategoryOf <- ColumnCategories,
       None <- None, MaxEdits <- MaxEdits, order <- v1, holding <- v2, cached <- v3, dialog <- v4,
       count <- v5, removal <- v6, asked <- v7, edits <- v8
Pd == INSTANCE ProjectDetails
  WITH Values <- DetailValues, Empty <- "", Keep <- Keep, None <- None, MaxEdits <- MaxSaves,
       saved <- v1, project <- v2, draft <- v3, lookup <- v4, switch <- v5, request <- v6,
       entered <- v7, edits <- v8

ASSUME PagesAssumption ==
  /\ Bd!BoardAssumption
  /\ Bf!BoardFiltersAssumption
  /\ Bp!BoardPageAssumption
  /\ Bl!BacklogAssumption
  /\ Qc!QuickCreateAssumption
  /\ Ie!InlineEditAssumption
  /\ Im!IssueModalAssumption
  /\ Ci!CreateIssueAssumption
  /\ Se!SearchAssumption
  /\ Sr!SearchResultsAssumption
  /\ Pi!PickerAssumption
  /\ Sf!SprintFormsAssumption
  /\ Co!ColumnsAssumption
  /\ Dc!DeleteColumnAssumption
  /\ Pd!ProjectDetailsAssumption

-----------------------------------------------------------------------------
(* The slots a page does not need. *)
UnusedFrom11 == v11 = Unused
UnusedFrom10 == v10 = Unused /\ UnusedFrom11
UnusedFrom9 == v9 = Unused /\ UnusedFrom10
UnusedFrom8 == v8 = Unused /\ UnusedFrom9
UnusedFrom7 == v7 = Unused /\ UnusedFrom8
UnusedFrom6 == v6 = Unused /\ UnusedFrom7
UnusedFrom5 == v5 = Unused /\ UnusedFrom6
UnusedFrom4 == v4 = Unused /\ UnusedFrom5
UnusedFrom3 == v3 = Unused /\ UnusedFrom4

Init ==
  /\ shown \in Screens
  /\ \/ shown = "board" /\ Bd!Init /\ UnusedFrom9
     \/ shown = "boardFilters" /\ Bf!Init /\ UnusedFrom3
     \/ shown = "boardPage" /\ Bp!Init /\ UnusedFrom10
     \/ shown = "backlog" /\ Bl!Init /\ UnusedFrom11
     \/ shown = "quickCreate" /\ Qc!Init /\ UnusedFrom7
     \/ shown = "inlineEdit" /\ Ie!Init /\ UnusedFrom8
     \/ shown = "issueModal" /\ Im!Init /\ UnusedFrom9
     \/ shown = "createIssue" /\ Ci!Init /\ UnusedFrom11
     \/ shown = "search" /\ Se!Init /\ UnusedFrom9
     \/ shown = "searchResults" /\ Sr!Init /\ UnusedFrom7
     \/ shown = "picker" /\ Pi!Init
     \/ shown = "sprintForms" /\ Sf!Init /\ UnusedFrom9
     \/ shown = "columns" /\ Co!Init /\ UnusedFrom8
     \/ shown = "deleteColumn" /\ Dc!Init /\ UnusedFrom9
     \/ shown = "projectDetails" /\ Pd!Init /\ UnusedFrom9

Next ==
  \/ shown = "board" /\ Bd!Next /\ UNCHANGED <<shown, v9, v10, v11>>
  \/ shown = "boardFilters" /\ Bf!Next /\ UNCHANGED <<shown, v3, v4, v5, v6, v7, v8, v9, v10, v11>>
  \/ shown = "boardPage" /\ Bp!Next /\ UNCHANGED <<shown, v10, v11>>
  \/ shown = "backlog" /\ Bl!Next /\ UNCHANGED <<shown, v11>>
  \/ shown = "quickCreate" /\ Qc!Next /\ UNCHANGED <<shown, v7, v8, v9, v10, v11>>
  \/ shown = "inlineEdit" /\ Ie!Next /\ UNCHANGED <<shown, v8, v9, v10, v11>>
  \/ shown = "issueModal" /\ Im!Next /\ UNCHANGED <<shown, v9, v10, v11>>
  \/ shown = "createIssue" /\ Ci!Next /\ UNCHANGED <<shown, v11>>
  \/ shown = "search" /\ Se!Next /\ UNCHANGED <<shown, v9, v10, v11>>
  \/ shown = "searchResults" /\ Sr!Next /\ UNCHANGED <<shown, v7, v8, v9, v10, v11>>
  \/ shown = "picker" /\ Pi!Next /\ UNCHANGED shown
  \/ shown = "sprintForms" /\ Sf!Next /\ UNCHANGED <<shown, v9, v10, v11>>
  \/ shown = "columns" /\ Co!Next /\ UNCHANGED <<shown, v8, v9, v10, v11>>
  \/ shown = "deleteColumn" /\ Dc!Next /\ UNCHANGED <<shown, v9, v10, v11>>
  \/ shown = "projectDetails" /\ Pd!Next /\ UNCHANGED <<shown, v9, v10, v11>>

Spec == Init /\ [][Next]_vars

-----------------------------------------------------------------------------
(* Properties: what each module promises of its page, put together by kind. *)

(* When nothing is under way, the board and the backlog show what the server holds
   (useOptimisticBoard, applyPendingMoves). *)
OptimismSettles ==
  /\ shown = "board" => Bd!SettledIsServer
  /\ shown = "backlog" => Bl!ListsSettle

(* Cards move from column to column only as they are dropped, whatever refetch or answer arrives
   while a drop is saved (useOptimisticBoard). *)
CardsStay == [][shown = "board" => Bd!CardStays]_vars

(* A card or a row appears exactly where it was dropped, though the lists changed while it was
   dragged (computeAnchors, resolveNeighbours); rows and columns stay there, whatever refetch or
   answer arrives while they are saved (PendingMove, ColumnsTab). *)
DropsHold ==
  [][/\ shown = "board" => Bd!LandsWhereDropped
     /\ shown = "backlog" => Bl!RowLands /\ Bl!RowsStay
     /\ shown = "columns" => Co!LatestDragShows]_vars

(* The dialog that completes a sprint is open for the sprint that was asked for, and sends a
   target it offers; the one that deletes a column moves issues only where it showed (BoardPage,
   CompleteSprintDialog, DeleteColumnDialog). *)
DialogsDoAsShown ==
  [][/\ shown = "boardPage" => Bp!OnlyForAskedSprint /\ Bp!SendsAnOption
     /\ shown = "deleteColumn" => Dc!MovesAreShown]_vars

(* What the filters of the board hide, a control shows; what is created in a backlog filtered by
   epic, that filter does not hide (pruneFilters, effectiveFilters). *)
FiltersShowThemselves ==
  /\ shown = "boardFilters" => Bf!HiddenByAControl
  /\ shown = "quickCreate" => Qc!NewIssuePassesEpicFilter

(* An inline editor and the details form send only what their user entered; a sprint dialog
   undoes nothing teammates did to the fields its user left alone, but for the dates it sends of
   its own (useEditDraft, DetailsTab, SprintDialogs; Sf!TeammatesEditsKept says which). *)
SendsOwnEdits ==
  [][/\ shown = "inlineEdit" => Ie!SavesAreEdits
     /\ shown = "sprintForms" => Sf!TeammatesEditsKept
     /\ shown = "projectDetails" => Pd!SendsOwnEdits]_vars

(* The duration a sprint form shows is that of its dates (SprintDialogs). *)
PresetIsTheLength == shown = "sprintForms" => Sf!PresetIsTheLength

(* A picker saves one of the options it lists or, of labels, what its user's clicks make of the
   live ones (the single-value pickers, LabelMultiSelect, useIssueSave). *)
SendsTheChoice == [][shown = "picker" => Pi!SendsTheChoice]_vars

(* Typed text goes only when it is saved, discarded, or without its issue; the answers to earlier
   creations never change it (useDiscardGuard, QuickCreate). *)
DraftsAreKept ==
  [][/\ shown = "issueModal" => Im!DraftsAreKept
     /\ shown = "quickCreate" => Qc!TypedIsKept]_vars

(* The create dialog sends an assignee, labels, a parent, a sprint and a status of one project
   (CreateIssueModal). *)
CreatesInOneProject == [][shown = "createIssue" => Ci!CreatesInOneProject]_vars

(* The search box, the URL and the browser's history agree, and the rows of a settled table are
   those of the search on screen (IssueFilterBar, issueFilters, useIssueResults). *)
SearchIsShown ==
  /\ shown = "search" => Se!BoxShowsSearch /\ Se!BackRestoresSearch /\ Se!IdsAreOfProject
  /\ shown = "searchResults" => Sr!RowsAreMatches

(* Closing the issue's modal shows the page it was opened over, and a page of the search past
   its end gives way to the last one of the same search (ModalsProvider, IssuesPage). *)
NavigatesAsMeant ==
  [][/\ shown = "issueModal" => Im!ClosesToPage
     /\ shown = "searchResults" => Sr!SnapsToOwnLastPage]_vars

-----------------------------------------------------------------------------
(* What the code does not do *)

(* "... so a refetch that races the request (realtime invalidation, window focus, a cancelled
   fetch reverting its state) can never make the card jump back and forth"
   (useOptimisticBoard.ts): with one page only, the board. *)
CardNeverJumpsBack == [][shown = "board" => Bd!CardNeverJumpsBack]_vars

(* "Edit sprint: sends only the fields that changed" (SprintDialogs.tsx): with one page only,
   the sprint dialogs. *)
EditSendsOnlyChanges == [][shown = "sprintForms" => Sf!EditSendsOnlyChanges]_vars
=============================================================================
