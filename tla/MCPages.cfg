SPECIFICATION Spec
CONSTANTS
  Screens = {"board", "boardFilters", "boardPage", "backlog", "quickCreate", "inlineEdit", "issueModal",
           "createIssue", "search", "searchResults", "picker", "sprintForms", "columns",
           "deleteColumn", "projectDetails"}
  Unused = Unused
  None = None
  Nobody = Nobody
  All = All
  Empty = Empty
  Me = Me
  Lost = Lost
  Unparsed = Unparsed
  New = New
  Custom = Custom
  Keep = Keep
  todo = todo
  done = done
  s1 = s1
  s2 = s2
  a = a
  b = b
  c = c
  p1 = p1
  p2 = p2
  bob = bob
  Projects = {p1, p2}
  Scrum = {p1}
  Sprints = {s1, s2}
  Epics = {e1, e2}
  Statuses = {todo, done}
  BoardScenes <- SomeBoardScenes
  Gap = 64
  Top = 1024
  Contents <- SomeContents
  BacklogScenes <- SomeBacklogScenes
  Titles = {a, b}
  Creations = {r1, r2}
  FieldKinds = {"summary", "description", "points", "dueDate", "name", "limit"}
  FieldTexts = {a, b, c, Empty}
  Paths = {p1, p2}
  Keys = {k1, k2}
  MaxHistory = 4
  Openings <- SomeOpenings
  SearchTexts = {a, Empty}
  MaxSearches = 3
  Issues = {1, 2, 3}
  StatusOf <- IssueStatuses
  CategoryOf <- StatusCategories
  Menus <- SomeMenus
  PageSize = 1
  ApiLimit = 1
  SortCap = 2
  LastPage = 2
  Lists <- PickerLists
  ListedSprints <- SomeSprints
  Names = {"n1", "n2"}
  Goals = {"g1"}
  Dates = {2}
  Today = 2
  Presets = {2}
  Default = 2
  MaxEntries = 2
  Columns = {"c1", "c2", "c3"}
  ColumnOrders <- SomeOrders
  ColumnCategories <- CategoriesOfColumns
  MaxDrags = 2
  MaxEdits = 1
  DetailValues <- SomeDetails
  MaxSaves = 2
INVARIANTS
  OptimismSettles
  FiltersShowThemselves
  PresetIsTheLength
  SearchIsShown
PROPERTIES
  DropsHold
  CardsStay
  DialogsDoAsShown
  SendsOwnEdits
  SendsTheChoice
  DraftsAreKept
  CreatesInOneProject
  NavigatesAsMeant
CHECK_DEADLOCK FALSE
