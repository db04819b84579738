CONSTANTS
    Subscriber = {page}
    Event = {"issue.updated", "project.changed"}
    Buffer = 1
    MaxVersion = 2
SPECIFICATION FairSpec
INVARIANTS
    NothingIsLost
PROPERTIES
    CatchesUp
    RemovedStreamEnds
    EndedSessionSignsOut
