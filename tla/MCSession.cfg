CONSTANTS
    main = main
    other = other
    Tabs = {main, other}
    Users = {ann, ben}
    Slots = {s1, s2}
    Kinds <- MainAndOther
    NoToken = NoToken
    Unset = Unset
    Readable = TRUE
    MaxTokens = 2
    MaxFaults = 1
SYMMETRY Symmetry
SPECIFICATION Spec
INVARIANTS
    SessionsAgree
    CacheIsOwn
    WaitsEnd
PROPERTIES
    ExpiresOnlyRevoked
    OwnChangeKeepsSession
    OneWinner
