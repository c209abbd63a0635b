\* Shared round-robin subscription: does a deleted key's entry outlive
\* the connection it shares?
CONSTANTS
    Keys = {k1, k2, k3}
    Values = {v1, v2}
    NoServer = NoServer
    Exclusive = FALSE
    FixedIds = FALSE
    DialCanFail = FALSE
    MaxEvents = 5
SPECIFICATION Spec
CHECK_DEADLOCK FALSE
SYMMETRY KeyValueSymmetry
INVARIANT ConnsOpen
