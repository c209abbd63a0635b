\* The exclusive round-robin client (two interchangeable addresses) and the
\* consistent-hash client (three hashed addresses), each over a store of
\* three lease keys with five changes, dials that may fail; an exclusive
\* subscriber over the same keys and round-robin values; the keyword
\* trie over two runes, with words of up to three runes and texts of up
\* to four; the package state of logx with two goroutines; the redis
\* connection manager with three callers and the sql one with two, over
\* two servers; the traffic metrics container with up to three tasks of
\* 1 to 3 ms, and Execute tried on every mix of three durations in counts
\* around each percentile's boundary (10, 100, 1000 tasks and more).
CONSTANTS
    Keys = {k1, k2, k3}
    RRValues = {r1, r2}
    NoServer = NoServer
    MaxEvents = 5
    Replicas = 2
    v1 = v1
    v2 = v2
    v3 = v3
    p1 = p1
    p2 = p2
    p3 = p3
    p4 = p4
    Runes = {ra, rb}
    Star = Star
    MaxWord = 3
    MaxText = 4
    LogProcs = {g1, g2}
    RedisProcs = {c1, c2, c3}
    SqlProcs = {d1, d2}
    Servers = {s1, s2}
    MaxConns = 3
    MaxCalls = 3
    Durations = {1, 2, 3}
    MetricNames = {n1, n2}
    MetricTasks = 3
    Sizes = {0, 1, 2, 9, 10, 11, 19, 20, 99, 100, 101, 999, 1000, 1001, 1999, 2000}
SPECIFICATION Spec
\* Each subscription idles once its store stops changing (and a
\* WaitForServers caller may block for good): quiescence is legitimate.
CHECK_DEADLOCK FALSE
SYMMETRY Symmetry
INVARIANTS
    TypeOK
    ConnsOpen
    OneEntryPerBinding
    MappingServersAgree
    RingIndexesAgree
    NextReachesOpenConn
    FilterMatchesReference
    ContainerIndexesAgree
    InitializedWritersOpen
    OneConnPerServer
    ReportMatchesPercentiles

    
