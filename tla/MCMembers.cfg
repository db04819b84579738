CONSTANTS
    User = {alice, bob}
    Creator = alice
    Issue = {i1}
    Call = {c1, c2}
    NULL = NULL
SPECIFICATION FairSpec
INVARIANTS
    RosterHolds
PROPERTIES
    ImplementsRoster
    EveryCallEnds
CHECK_DEADLOCK FALSE
