CONSTANTS
    todo = todo  done = done
    Issue = {i1, i2, i3}
    Sprint = {s1, s2}
    Status = {todo, done}
    StandardTypes = {"story"}
    OpenCategories = {"todo"}
    DefaultCategory <- MCDefaultCategory
    Time = {n1, n2}
    NULL = NULL
SYMMETRY Symmetry
SPECIFICATION Spec
INVARIANTS
    WellFormed
    SubtasksShareSprint
    HistoryReplays
PROPERTIES
    CompletedSprintsGainNothing
    CompletionSplitsSprint
    DoneKeepsResolvedAt
    DeletionIsContained
    ImplementsLifecycle
