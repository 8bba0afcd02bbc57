\* Two goroutines, two contexts, two validations.
CONSTANTS
    Callers = {p1, p2}
    MaxContexts = 2
    MaxValidations = 2
SPECIFICATION FairSpec
INVARIANTS OneValidation StoppedIsQuiet SomebodyWasTold
PROPERTY ValidationEnds
CHECK_DEADLOCK FALSE
