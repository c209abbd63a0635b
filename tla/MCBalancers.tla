----------------------------- MODULE MCBalancers -----------------------------
(***************************************************************************)
(* The two subscription clients rpcx builds, side by side in one model:    *)
(* the exclusive round-robin client of NewRpcClient (SubClient) and the    *)
(* consistent-hash client of NewConsistentRpcClient (ConsistentSubClient), *)
(* each over its own store, an exclusive etcd Subscriber over a third,    *)
(* the keyword trie of stringx, whose words are added one at a time, the  *)
(* package state of logx, the redis and sql connection managers, and the *)
(* traffic metrics container.  The initial state picks one of the eight   *)
(* and only that one moves, so the reachable states are those of the      *)
(* eight models checked one after the other, and each property speaks of  *)
(* its own part.                                                           *)
(***************************************************************************)
EXTENDS Naturals, TLC

CONSTANTS
    Keys,       \* registry keys, shared by both stores
    RRValues,   \* server values of the round-robin client (interchangeable)
    NoServer,
    MaxEvents,
    Replicas,
    v1, v2, v3, p1, p2, p3, p4,
    Runes, Star, MaxWord, MaxText,  \* KeywordTrie
    LogProcs,                       \* Logx
    RedisProcs, SqlProcs, Servers,  \* ConnManager
    MaxConns, MaxCalls,
    Durations, MetricNames, MetricTasks, Sizes   \* TrafficMetrics

VARIABLES
    comp,
    rrRegistry, rrUsed, rrLog, rrPhase, rrCursor, rrBal, rrWaiter,
    chRegistry, chUsed, chLog, chPhase, chCursor, chBal,
    kNodes, kEnds, kAdded,
    sbRegistry, sbUsed, sbLog, sbPhase, sbCursor, sbItems,
    lWriteConsole, lOnce, lInitialized, lWriters, lStackLog, lPc, lStage, lTarget, lRet,
    crM, crCalls, crStores, crConns, crOnce, crPc, crKey, crJoined, crRet, crCrashed,
    csM, csCalls, csStores, csConns, csOnce, csPc, csKey, csJoined, csRet, csCrashed,
    tmTasks, tmDuration, tmName, tmPair, tmReport

rrVars == <<rrRegistry, rrUsed, rrLog, rrPhase, rrCursor, rrBal, rrWaiter>>
chVars == <<chRegistry, chUsed, chLog, chPhase, chCursor, chBal>>
kVars == <<kNodes, kEnds, kAdded>>
sbVars == <<sbRegistry, sbUsed, sbLog, sbPhase, sbCursor, sbItems>>
lVars == <<lWriteConsole, lOnce, lInitialized, lWriters, lStackLog, lPc, lStage, lTarget, lRet>>
crVars == <<crM, crCalls, crStores, crConns, crOnce, crPc, crKey, crJoined, crRet, crCrashed>>
csVars == <<csM, csCalls, csStores, csConns, csOnce, csPc, csKey, csJoined, csRet, csCrashed>>
tmVars == <<tmTasks, tmDuration, tmName, tmPair, tmReport>>

CHValues == {v1, v2, v3}
CHProbes == {p1, p2, p3, p4}

\* The hash table of MCConsistentSubClient: v1 and v2 share slot 6, p3
\* wraps round past the last slot.
CHReplicaHash ==
    [x \in CHValues \X {0, 1} |->
        CASE x = <<v1, 0>> -> 2 [] x = <<v1, 1>> -> 6
          [] x = <<v2, 0>> -> 4 [] x = <<v2, 1>> -> 6
          [] x = <<v3, 0>> -> 1 [] x = <<v3, 1>> -> 8]
CHProbeHash == (p1 :> 3) @@ (p2 :> 6) @@ (p3 :> 9) @@ (p4 :> 5)
CHInnerHash == (p1 :> 0) @@ (p2 :> 1) @@ (p3 :> 0) @@ (p4 :> 0)

RR == INSTANCE SubClient WITH
        Values <- RRValues, Exclusive <- TRUE, FixedIds <- FALSE, DialCanFail <- TRUE,
        registry <- rrRegistry, used <- rrUsed, log <- rrLog, phase <- rrPhase,
        cursor <- rrCursor, bal <- rrBal, waiter <- rrWaiter

CH == INSTANCE ConsistentSubClient WITH
        Values <- CHValues, Exclusive <- FALSE, DialCanFail <- TRUE,
        Probes <- CHProbes, ReplicaHash <- CHReplicaHash, ProbeHash <- CHProbeHash,
        InnerHash <- CHInnerHash, NoNode <- NoServer,
        registry <- chRegistry, used <- chUsed, log <- chLog, phase <- chPhase,
        cursor <- chCursor, bal <- chBal

K == INSTANCE KeywordTrie WITH nodes <- kNodes, ends <- kEnds, added <- kAdded

SB == INSTANCE Subscriber WITH
        Values <- RRValues, Exclusive <- TRUE,
        registry <- sbRegistry, used <- sbUsed, log <- sbLog, phase <- sbPhase,
        cursor <- sbCursor, items <- sbItems

LX == INSTANCE Logx WITH
        Procs <- LogProcs, writeConsole <- lWriteConsole, once <- lOnce,
        initialized <- lInitialized, writers <- lWriters, stackLog <- lStackLog,
        pc <- lPc, stage <- lStage, target <- lTarget, ret <- lRet

CR == INSTANCE ConnManager WITH Procs <- RedisProcs, Kind <- "redis",
        m <- crM,
        calls <- crCalls,
        stores <- crStores,
        conns <- crConns,
        once <- crOnce,
        pc <- crPc,
        key <- crKey,
        joined <- crJoined,
        ret <- crRet,
        crashed <- crCrashed

CS == INSTANCE ConnManager WITH Procs <- SqlProcs, Kind <- "sql",
        m <- csM,
        calls <- csCalls,
        stores <- csStores,
        conns <- csConns,
        once <- csOnce,
        pc <- csPc,
        key <- csKey,
        joined <- csJoined,
        ret <- csRet,
        crashed <- csCrashed

TM == INSTANCE TrafficMetrics WITH Names <- MetricNames, MaxTasks <- MetricTasks,
        tasks <- tmTasks, duration <- tmDuration, name <- tmName, pair <- tmPair,
        report <- tmReport

Init ==
    /\ comp \in {"roundRobin", "consistent", "trie", "subscriber", "logx",
                 "redisConns", "sqlConns", "metrics"}
    /\ RR!Init /\ CH!Init /\ K!Init /\ SB!Init /\ LX!Init /\ CR!Init /\ CS!Init /\ TM!Init

Next ==
    \/ comp = "roundRobin" /\ RR!Next /\ UNCHANGED <<comp, chVars, kVars, sbVars, lVars, crVars, csVars, tmVars>>
    \/ comp = "consistent" /\ CH!Next /\ UNCHANGED <<comp, rrVars, kVars, sbVars, lVars, crVars, csVars, tmVars>>
    \/ comp = "trie" /\ K!Next /\ UNCHANGED <<comp, rrVars, chVars, sbVars, lVars, crVars, csVars, tmVars>>
    \/ comp = "subscriber" /\ SB!Next /\ UNCHANGED <<comp, rrVars, chVars, kVars, lVars, crVars, csVars, tmVars>>
    \/ comp = "logx" /\ LX!Next /\ UNCHANGED <<comp, rrVars, chVars, kVars, sbVars, crVars, csVars, tmVars>>
    \/ comp = "redisConns" /\ CR!Next /\ UNCHANGED <<comp, rrVars, chVars, kVars, sbVars, lVars, csVars, tmVars>>
    \/ comp = "sqlConns" /\ CS!Next /\ UNCHANGED <<comp, rrVars, chVars, kVars, sbVars, lVars, crVars, tmVars>>
    \/ comp = "metrics" /\ TM!Next /\ UNCHANGED <<comp, rrVars, chVars, kVars, sbVars, lVars, crVars, csVars>>

Spec == Init /\ [][Next]_<<comp, rrVars, chVars, kVars, sbVars, lVars, crVars, csVars, tmVars>>

\* Keys are model values in every store; round-robin (and subscriber)
\* values are too, and so are the goroutines calling logx and the metric
\* names.  The connection managers' small models are checked without
\* symmetry.
Symmetry == Permutations(Keys) \cup Permutations(RRValues) \cup Permutations(LogProcs)
            \cup Permutations(MetricNames)

-----------------------------------------------------------------------------
\* Type invariant of the eight parts.
TypeOK ==
    /\ RR!TypeOK /\ CH!TypeOK /\ K!TypeOK /\ SB!TypeOK /\ LX!TypeOK /\ CR!TypeOK
    /\ CS!TypeOK /\ TM!TypeOK

\* Round robin, exclusive (rpcx): every connection in the balancer's
\* table is open; removeKv's report closes exactly the unused ones.
ConnsOpen == RR!ConnsOpen

\* Round robin, exclusive: one table entry per bound key, none for
\* unbound keys, whatever order the adds, deletes and failed dials take.
OneEntryPerBinding == RR!OneEntryPerBinding

\* Round robin: the key -> server mapping and the server -> keys index of
\* baseBalancer stay inverse of each other.
MappingServersAgree == RR!MappingServersAgree

\* Consistent hash: the ring's sorted slots, hash map and node set agree
\* after any sequence of Add and Remove.
RingIndexesAgree == CH!RingIndexesAgree

\* Consistent hash: Next(key) answers every key with an open connection
\* while the balancer has any.
NextReachesOpenConn == CH!NextReachesOpenConn

FilterMatchesReference == comp = "trie" => K!FilterMatchesReference

\* Subscriber, exclusive: whatever order the snapshot and the watch events
\* come in, the container's values and mapping agree, Values() is the set
\* of mapped values, and no value has two keys.
ContainerIndexesAgree == SB!ContainerIndexesAgree

\* Logx: whatever SetUp, Close and log calls interleave, while
\* initialized is 1 every writer is set and open, and a log call that
\* picked a package writer found it set.
InitializedWritersOpen == LX!InitializedWritersOpen

\* Connection managers: however the callers of two servers interleave,
\* and after failed opens, each server gets at most one connection, and
\* a caller given a connection without an error got its server's stored
\* one (for sql, after its Ping ran).
OneConnPerServer == CR!OneConnPerServer /\ CS!OneConnPerServer

\* Traffic metrics: for collections of one to thousands of tasks,
\* Execute's chain of topK calls reports as median, 90th, 99th and 99.9th
\* percentile the durations those percentiles name.  (The check does not
\* depend on the state; it is evaluated in the metrics part's states.)
ReportMatchesPercentiles == comp = "metrics" => TM!ReportMatchesPercentiles
=============================================================================
