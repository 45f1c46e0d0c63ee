SPECIFICATION FairSpec
CONSTANTS
    Servers <- TwoServers
    Conn = {c1, c2}
    Stream = {s1, s2}
    None = None
INVARIANTS TypeOK HandlesNested ContextMatchesStream ServerOutlivesCallbacks CleanExit
PROPERTIES Exits
CHECK_DEADLOCK FALSE
