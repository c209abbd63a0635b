\* Exclusive subscription (rpcx), failing dials: does WaitForServers
\* return only once the balancer has a connection?
CONSTANTS
    Keys = {k1, k2, k3}
    Values = {v1, v2}
    NoServer = NoServer
    Exclusive = TRUE
    FixedIds = FALSE
    DialCanFail = TRUE
    MaxEvents = 4
SPECIFICATION Spec
CHECK_DEADLOCK FALSE
SYMMETRY KeyValueSymmetry
PROPERTY WaitReturnsNonEmpty
