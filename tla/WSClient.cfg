\* One goroutine connects whenever it likes, also beside a reconnection, and any
\* other closes the client at any time.
CONSTANTS
    s1 = s1
    s2 = s2
    p1 = p1
    p2 = p2
    None = None
    Callers <- OneCaller
    Sessions <- TwoSessions
    MaxReconnectAttempts = 1
    MaxConnects = 2
SPECIFICATION FairSpec
INVARIANTS TypeOK FlagHeld OneReconnect NoOverlap NoLeak Attended
PROPERTIES Recovers Drains ImplementsService
CHECK_DEADLOCK FALSE
