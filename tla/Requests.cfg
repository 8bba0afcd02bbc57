\* Two calls, each of any method; two pre-signed orders, batches of two, one retry.
CONSTANTS
    Calls = {a, b}
    PreSigned = {p, q}
    BatchSize = 2
    MaxRetries = 1
    Dedupes = TRUE
    Filters <- SomeFilters
SPECIFICATION FairSpec
INVARIANTS AcceptedOnce FirstAnswerIsDefinite CancelSticks
PROPERTY Returns
CHECK_DEADLOCK FALSE
