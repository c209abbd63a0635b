\* Exclusive subscription whose publishers use WithId: a key is put again,
\* with the same address (a retry) or another one (a move).  Does the
\* table keep one entry per bound key and none for the others?
CONSTANTS
    Keys = {k1, k2, k3}
    Values = {v1, v2}
    NoServer = NoServer
    Exclusive = TRUE
    FixedIds = TRUE
    DialCanFail = FALSE
    MaxEvents = 5
SPECIFICATION Spec
CHECK_DEADLOCK FALSE
SYMMETRY KeyValueSymmetry
INVARIANT OneEntryPerBinding
