\* Two prices, sizes 0 and 1, a channel of one slot: it is full at once.
CONSTANTS
    One = 1
    MaxSize = 1
    Absent = Absent
    Capacity = 1
SPECIFICATION Spec
INVARIANTS TypeOK UninitializedIsEmpty NoMissedUpdate QuotesMirror QueriesAgree ValidMeansEqual HealthAgrees
PROPERTIES DiffKeepsMirror NewestIsSent
CHECK_DEADLOCK FALSE
