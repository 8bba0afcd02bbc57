CONSTANTS
    Levels = {l}
    Sizes = {none, some}
    Unset = Unset
    Refreshers = {f1}
    Validation = TRUE
    MaxEvents = 3
SPECIFICATION FairSpec
INVARIANT TypeOK
PROPERTIES StreamKeepsStep RepairedInTheEnd
CHECK_DEADLOCK FALSE
