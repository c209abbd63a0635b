\* Shared subscription with dials that succeed: once the watch has
\* delivered everything, does the balancer hold the store's bindings?
CONSTANTS
    Keys = {k1, k2, k3}
    Values = {v1, v2}
    NoServer = NoServer
    Exclusive = FALSE
    FixedIds = FALSE
    DialCanFail = FALSE
    MaxEvents = 4
SPECIFICATION Spec
CHECK_DEADLOCK FALSE
SYMMETRY KeyValueSymmetry
INVARIANT Converged
