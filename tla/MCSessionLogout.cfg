CONSTANTS
    main = main
    other = other
    Tabs = {main}
    Users = {ann, ben}
    Slots = {s1, s2}
    Kinds <- Everything
    NoToken = NoToken
    Unset = Unset
    Readable = TRUE
    MaxTokens = 2
    MaxFaults = 0
SPECIFICATION Spec
PROPERTIES
    LogoutEndsSession
