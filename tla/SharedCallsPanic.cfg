\* A panicking fn: does a follower ever get neither a value nor an error?
CONSTANTS
    Procs = {p1, p2, p3}
    Keys = {k1, k2}
    MaxCalls = 3
SPECIFICATION Spec
CHECK_DEADLOCK FALSE
SYMMETRY CallerKeySymmetry
INVARIANT NilErrorHasValue
