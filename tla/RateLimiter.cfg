\* Three units to a token, two tokens at once, two units per tick: neither the
\* wait nor the refill is a whole number of tokens.
CONSTANTS
    Callers = {c1, c2}
    Unit = 3
    Burst = 6
    Rate = 2
    Horizon = 4
SPECIFICATION FairSpec
INVARIANTS TypeOK WindowBound
PROPERTY Progress
