\* Two leases of the rpcx consistent client (value keyer) carry one address,
\* as after a publisher restart, and one lease goes: is the other still routable?
CONSTANTS
    Keys = {k1, k2, k3}
    v1 = v1
    v2 = v2
    v3 = v3
    p1 = p1
    p2 = p2
    p3 = p3
    p4 = p4
    Values <- MCValues
    Probes <- MCProbes
    ReplicaHash <- MCReplicaHash
    ProbeHash <- MCProbeHash
    InnerHash <- MCInnerHash
    Replicas = 2
    NoServer = NoServer
    NoNode = NoServer
    Exclusive = FALSE
    DialCanFail = FALSE
    MaxEvents = 5
SPECIFICATION Spec
CHECK_DEADLOCK FALSE
SYMMETRY KeySymmetry
INVARIANT BoundKeysRoutable
