CONSTANTS
    todo = todo  done = done
    Issue = {i1, i2}
    Sprint = {s1, s2}
    Status = {todo, done}
    StandardTypes = {"story"}
    OpenCategories = {"todo"}
    DefaultCategory <- MCDefaultCategory
    Time = {n1}
    NULL = NULL
SYMMETRY Symmetry
SPECIFICATION Spec
PROPERTIES
    KanbanIssuesJoinNoSprint
