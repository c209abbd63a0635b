----------------------------- MODULE ConnManager -----------------------------
(***************************************************************************)
(* The connection caches of the storage drivers: GetRedisClient of         *)
(* stores/redis/redisclientmanager.go (Kind = "redis"; GetRedisCluster of  *)
(* redisclustermanager.go is the same code over ClusterClients) and        *)
(* getSqlConn/getCachedSqlConn of stores/sqlx/sqlmanager.go (Kind =        *)
(* "sql").  Callers of one server go through exclusiveCalls.Do, whose fn   *)
(* looks the server up in the manager's map and creates and stores a      *)
(* connection on a miss.  The redis manager takes its mutex around each   *)
(* map access; the sql manager takes none, so the fns of two servers touch *)
(* the map concurrently, which the Go runtime may detect and answer with  *)
(* a fatal error (crashed).  getSqlConn then pings the connection once     *)
(* per pingedDB through its sync.Once.  Connection n is the n-th created. *)
(***************************************************************************)
EXTENDS Integers, Sequences, FiniteSets

CONSTANTS
    Procs,     \* goroutines asking for connections
    Servers,   \* the servers (datasources) they ask for
    Kind,      \* "redis" or "sql"
    MaxConns,  \* bound: connections created
    MaxCalls   \* bound: calls of exclusiveCalls.Do that run fn

ASSUME Kind \in {"redis", "sql"} /\ MaxConns \in Nat \ {0} /\ MaxCalls \in Nat \ {0}

Nil == 0

VARIABLES
    m,        \* exclusiveCalls' eg.m: server -> call number, Nil when absent
    calls,    \* calls[c]: [server, wg, val (a connection or Nil), err]
    stores,   \* the manager's map: server -> connection, Nil when absent
    conns,    \* conns[n]: the server connection n was created for
    once,     \* once[n]: pingedDB n's Once, "fresh", "running" or "done"
    pc,       \* pc[p]: "idle", "lookup", "create", "store", "defer",
              \*        "release", "wait", "ping", "pinging"
    key,      \* key[p]: the server p asked for
    joined,   \* joined[p]: the call p leads or waits on
    ret,      \* ret[p]: [conn, err] of p's last return
    crashed   \* a concurrent map access was detected: the process is dead

vars == <<m, calls, stores, conns, once, pc, key, joined, ret, crashed>>

NoReturn == [conn |-> Nil, err |-> "none"]

\* The steps of fn that touch the manager's map.
MapSteps == {"lookup", "store"}

-----------------------------------------------------------------------------
Init ==
    /\ m = [s \in Servers |-> Nil]
    /\ calls = <<>>
    /\ stores = [s \in Servers |-> Nil]
    /\ conns = <<>>
    /\ once = <<>>
    /\ pc = [p \in Procs |-> "idle"]
    /\ key = [p \in Procs |-> CHOOSE s \in Servers : TRUE]
    /\ joined = [p \in Procs |-> Nil]
    /\ ret = [p \in Procs |-> NoReturn]
    /\ crashed = FALSE

\* exclusiveGroup.Do(server, fn) under eg.mu: join the call in flight, or
\* makeCall a new one (wg.Add(1), eg.m[server] = c) and run fn.
get(p, s) ==
    /\ ~crashed
    /\ pc[p] = "idle"
    /\ IF m[s] # Nil
       THEN /\ pc' = [pc EXCEPT ![p] = "wait"]
            /\ joined' = [joined EXCEPT ![p] = m[s]]
            /\ UNCHANGED <<m, calls>>
       ELSE LET c == Len(calls) + 1 IN
            /\ Len(calls) < MaxCalls
            /\ calls' = Append(calls, [server |-> s, wg |-> 1, val |-> Nil, err |-> "nil"])
            /\ m' = [m EXCEPT ![s] = c]
            /\ pc' = [pc EXCEPT ![p] = "lookup"]
            /\ joined' = [joined EXCEPT ![p] = c]
    /\ key' = [key EXCEPT ![p] = s]
    /\ ret' = [ret EXCEPT ![p] = NoReturn]
    /\ UNCHANGED <<stores, conns, once, crashed>>

\* A mutant of fn's map lookup that never finds the stored connection.
cachedMiss(s) == Nil

\* The connection stored for server s, Nil on a miss.
cached(s) == stores[s]

\* fn's lookup of stores[server] (under the manager's lock for redis): a
\* hit is fn's result.
lookup(p) ==
    LET hit == cached(key[p]) IN
    /\ ~crashed
    /\ pc[p] = "lookup"
    /\ IF hit # Nil
       THEN /\ calls' = [calls EXCEPT ![joined[p]].val = hit]
            /\ pc' = [pc EXCEPT ![p] = "defer"]
       ELSE /\ pc' = [pc EXCEPT ![p] = "create"]
            /\ UNCHANGED calls
    /\ UNCHANGED <<m, stores, conns, once, key, joined, ret, crashed>>

\* red.NewClient (never fails) or newDBConnection (sql.Open may fail,
\* and fn returns its error).
create(p, ok) ==
    /\ ~crashed
    /\ pc[p] = "create"
    /\ ok \/ Kind = "sql"
    /\ IF ok
       THEN /\ Len(conns) < MaxConns
            /\ conns' = Append(conns, key[p])
            /\ once' = Append(once, "fresh")
            /\ calls' = [calls EXCEPT ![joined[p]].val = Len(conns) + 1]
            /\ pc' = [pc EXCEPT ![p] = "store"]
       ELSE /\ calls' = [calls EXCEPT ![joined[p]].err = "error"]
            /\ pc' = [pc EXCEPT ![p] = "defer"]
            /\ UNCHANGED <<conns, once>>
    /\ UNCHANGED <<m, stores, key, joined, ret, crashed>>

\* stores[server] = the new connection (under the lock for redis); fn
\* returns it.
store(p) ==
    /\ ~crashed
    /\ pc[p] = "store"
    /\ stores' = [stores EXCEPT ![key[p]] = calls[joined[p]].val]
    /\ pc' = [pc EXCEPT ![p] = "defer"]
    /\ UNCHANGED <<m, calls, conns, once, key, joined, ret, crashed>>

\* sql only: while the fn of another server is at a map access too, the
\* runtime may detect the concurrent map read and write and throw.
mapConflict(p) ==
    /\ ~crashed
    /\ Kind = "sql"
    /\ pc[p] = "store"
    /\ \E q \in Procs \ {p} : pc[q] \in MapSteps /\ key[q] # key[p]
    /\ crashed' = TRUE
    /\ UNCHANGED <<m, calls, stores, conns, once, pc, key, joined, ret>>

\* makeCall's deferred cleanup, first half: delete(eg.m, server).
deferDelete(p) ==
    /\ ~crashed
    /\ pc[p] = "defer"
    /\ m' = [m EXCEPT ![key[p]] = Nil]
    /\ pc' = [pc EXCEPT ![p] = "release"]
    /\ UNCHANGED <<calls, stores, conns, once, key, joined, ret, crashed>>

\* The result of the manager's call: an error returns at once; a redis
\* client is returned; a pingedDB goes on to its Once.
afterDo(p, c) ==
    IF calls[c].err # "nil" \/ Kind = "redis"
    THEN /\ pc' = [pc EXCEPT ![p] = "idle"]
         /\ ret' = [ret EXCEPT ![p] = [conn |-> calls[c].val, err |-> calls[c].err]]
    ELSE /\ pc' = [pc EXCEPT ![p] = "ping"]
         /\ UNCHANGED ret

\* The cleanup's second half: c.wg.Done(); Do returns c.val, c.err.
deferDone(p) ==
    /\ ~crashed
    /\ pc[p] = "release"
    /\ calls' = [calls EXCEPT ![joined[p]].wg = 0]
    /\ afterDo(p, joined[p])
    /\ UNCHANGED <<m, stores, conns, once, key, joined, crashed>>

\* A follower's c.wg.Wait() returns once the leader is done.
waitReturns(p) ==
    /\ ~crashed
    /\ pc[p] = "wait"
    /\ calls[joined[p]].wg = 0
    /\ afterDo(p, joined[p])
    /\ UNCHANGED <<m, calls, stores, conns, once, key, joined, crashed>>

\* pdb.once.Do(Ping): blocks while another goroutine pings; a used Once
\* returns at once and getSqlConn returns the db with its own nil err.
pingOnce(p) ==
    LET n == calls[joined[p]].val IN
    /\ ~crashed
    /\ pc[p] = "ping"
    /\ once[n] # "running"
    /\ IF once[n] = "done"
       THEN /\ pc' = [pc EXCEPT ![p] = "idle"]
            /\ ret' = [ret EXCEPT ![p] = [conn |-> n, err |-> "nil"]]
            /\ UNCHANGED once
       ELSE /\ once' = [once EXCEPT ![n] = "running"]
            /\ pc' = [pc EXCEPT ![p] = "pinging"]
            /\ UNCHANGED ret
    /\ UNCHANGED <<m, calls, stores, conns, key, joined, crashed>>

\* A mutant of Ping's return that leaves the Once running, as a Once that
\* did not record its body's end.
pingReturnsKeepRunning(p, ok) ==
    LET n == calls[joined[p]].val IN
    /\ ~crashed
    /\ pc[p] = "pinging"
    /\ pc' = [pc EXCEPT ![p] = "idle"]
    /\ ret' = [ret EXCEPT ![p] = IF ok THEN [conn |-> n, err |-> "nil"]
                                  ELSE [conn |-> Nil, err |-> "ping"]]
    /\ UNCHANGED <<m, calls, stores, conns, once, key, joined, crashed>>

\* Ping returns; the caller that ran it returns nil and its error.
pingReturns(p, ok) ==
    LET n == calls[joined[p]].val IN
    /\ ~crashed
    /\ pc[p] = "pinging"
    /\ once' = [once EXCEPT ![n] = "done"]
    /\ pc' = [pc EXCEPT ![p] = "idle"]
    /\ ret' = [ret EXCEPT ![p] = IF ok THEN [conn |-> n, err |-> "nil"]
                                  ELSE [conn |-> Nil, err |-> "ping"]]
    /\ UNCHANGED <<m, calls, stores, conns, key, joined, crashed>>

Next ==
    \E p \in Procs :
        \/ \E s \in Servers : get(p, s)
        \/ lookup(p) \/ store(p) \/ mapConflict(p)
        \/ \E ok \in BOOLEAN : create(p, ok) \/ pingReturns(p, ok)
        \/ deferDelete(p) \/ deferDone(p) \/ waitReturns(p) \/ pingOnce(p)

Spec == Init /\ [][Next]_vars

\* Every step of a call in progress is taken once it is possible: fn's map
\* accesses, sql.Open and the deferred cleanup return, a goroutine waiting
\* on wg or on the Once wakes once released, and Ping returns (the driver
\* dials with a timeout).  Nothing obliges a goroutine to ask for a
\* connection, and the runtime's detection of a map race is never forced.
Fairness ==
    \A p \in Procs :
        /\ WF_vars(lookup(p)) /\ WF_vars(\E ok \in BOOLEAN : create(p, ok))
        /\ WF_vars(store(p)) /\ WF_vars(deferDelete(p)) /\ WF_vars(deferDone(p))
        /\ WF_vars(waitReturns(p)) /\ WF_vars(pingOnce(p))
        /\ WF_vars(\E ok \in BOOLEAN : pingReturns(p, ok))

FairSpec == Spec /\ Fairness

-----------------------------------------------------------------------------
\* Type invariant.
TypeOK ==
    /\ m \in [Servers -> 0..Len(calls)] /\ Len(calls) <= MaxCalls
    /\ stores \in [Servers -> 0..Len(conns)]
    /\ conns \in Seq(Servers) /\ Len(conns) <= MaxConns
    /\ once \in Seq({"fresh", "running", "done"}) /\ Len(once) = Len(conns)
    /\ pc \in [Procs -> {"idle", "lookup", "create", "store", "defer",
                         "release", "wait", "ping", "pinging"}]
    /\ key \in [Procs -> Servers]
    /\ ret \in [Procs -> [conn : 0..Len(conns), err : {"none", "nil", "error", "ping"}]]
    /\ crashed \in BOOLEAN

\* However the callers of the servers interleave, and after failed opens,
\* each server gets at most one connection, the one stored for it, and
\* every caller that got a connection with a nil error got its server's
\* stored connection, pinged (for sql) by itself or by a caller it waited
\* on.
OneConnPerServer ==
    /\ \A s \in Servers : Cardinality({n \in DOMAIN conns : conns[n] = s}) <= 1
    /\ \A p \in Procs : ret[p].err = "nil" =>
          /\ ret[p].conn = stores[key[p]] /\ ret[p].conn # Nil
          /\ Kind = "sql" => once[ret[p].conn] = "done"

\* Every goroutine that asks for a connection returns, unless the process
\* died of the map race: a follower of exclusiveCalls.Do is released by the
\* leader's deferred wg.Done, and a caller blocked in pdb.once.Do by the
\* caller whose Ping returns, whatever order they reach them in.
EveryGetReturns ==
    \A p \in Procs : pc[p] # "idle" ~> (pc[p] = "idle" \/ crashed)
=============================================================================
