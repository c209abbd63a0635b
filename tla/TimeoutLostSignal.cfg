CONSTANTS
    Procs = {p1, p2, p3}
    Slots = 1
SPECIFICATION Spec
CHECK_DEADLOCK FALSE
PROPERTY TimeoutOnlyWhenFull
