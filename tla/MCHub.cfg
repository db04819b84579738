CONSTANTS
    Subscription = {s1, s2}
    Publisher = {p1, p2}
    Event = {e1, e2}
    Buffer = 2
    None = None
SPECIFICATION FairSpec
INVARIANTS
    ChannelsAreSafe
PROPERTIES
    ImplementsFanout
    FullIsCutOff
    PublishReturns
