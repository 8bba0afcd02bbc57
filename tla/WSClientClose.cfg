\* Close while a dial or a triggerReconnect is under way.
CONSTANTS
    s1 = s1
    s2 = s2
    p1 = p1
    p2 = p2
    None = None
    Callers <- OneCaller
    Sessions <- TwoSessions
    MaxReconnectAttempts = 1
    MaxConnects = 1
SPECIFICATION Spec
INVARIANT ClosedIsPermanent
CHECK_DEADLOCK FALSE
