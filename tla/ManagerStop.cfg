\* Stop while handlers are at work.
CONSTANTS
    One = 1
    MaxSize = 1
    Absent = Absent
    Capacity = 1
SPECIFICATION Spec
INVARIANT NoPanic
CHECK_DEADLOCK FALSE
