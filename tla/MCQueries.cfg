CONSTANTS
    Calls = {c1, c2}
    Here = "GB"
    There = "OPS"
    Absent = Absent
SYMMETRY Symmetry
SPECIFICATION Spec
INVARIANTS
    ScreenIsCurrent
    UnmarkedIsCurrent
    CacheIsSound
