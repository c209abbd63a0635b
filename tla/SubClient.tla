------------------------------ MODULE SubClient ------------------------------
(***************************************************************************)
(* RoundRobinSubClient of lib/etcd/subclient.go with its monitor           *)
(* (lib/etcd/monitor.go) and the etcd store it watches.                    *)
(*                                                                         *)
(* The store is the environment: publishers Put a key under a lease and    *)
(* Delete it on revoke or lease expiry; every change is an event of the    *)
(* store's history `log`.  subscribe() runs load() (one prefix GET whose   *)
(* result goes to fullCallback) and then watch(), which opens a watch at   *)
(* the store's then current revision; the watch goroutine delivers the     *)
(* later events one by one to changeCallback.  WaitForServers is called by *)
(* one client goroutine.                                                   *)
(***************************************************************************)
EXTENDS RoundRobinBalancer

CONSTANTS
    FixedIds,     \* publishers use WithId: a key can be put again, with any value
    DialCanFail,  \* dialFn may return an error
    MaxEvents     \* bound: changes of the store

ASSUME FixedIds \in BOOLEAN /\ DialCanFail \in BOOLEAN /\ MaxEvents \in Nat

VARIABLES
    registry,  \* the store: key -> value, NoServer when absent
    used,      \* keys ever put (a lease id is never granted twice)
    log,       \* the store's change history: [type, key, value] events
    phase,     \* subscribe(): "init", "loaded" (after load), "watching"
    cursor,    \* events of log the watch has delivered or skipped
    bal,       \* the roundRobinBalancer
    waiter     \* WaitForServers caller: "idle", "waiting", "woken", "done"

vars == <<registry, used, log, phase, cursor, bal, waiter>>

DialOutcomes == IF DialCanFail THEN BOOLEAN ELSE {TRUE}

\* cond.Broadcast: wake the caller blocked in cond.Wait.
broadcast(w) == IF w = "waiting" THEN "woken" ELSE w

\* fullCallback's loop: addConn for every key-value of the snapshot in
\* order, the i-th dial succeeding iff oks[i]; errors are ignored.
addAll(b, kvs, oks) ==
    FoldLeft(LAMBDA acc, i : addConn(acc, kvs[i].key, kvs[i].value, oks[i]),
             b, [i \in DOMAIN kvs |-> i])

-----------------------------------------------------------------------------
Init ==
    /\ registry = [k \in Keys |-> NoServer]
    /\ used = {}
    /\ log = <<>>
    /\ phase = "init"
    /\ cursor = 0
    /\ bal = emptyBalancer
    /\ waiter = "idle"

\* A publisher's register: Put(prefix/lease, listenOn) under a new lease,
\* or, with WithId, a Put of its fixed key, which may still be present
\* (the revoke before a retry failed) with the same or another value.
Put(k, v) ==
    /\ Len(log) < MaxEvents
    /\ FixedIds \/ k \notin used
    /\ registry' = [registry EXCEPT ![k] = v]
    /\ used' = used \cup {k}
    /\ log' = Append(log, [type |-> "ADD", key |-> k, value |-> v])
    /\ UNCHANGED <<phase, cursor, bal, waiter>>

\* Revoke of the lease (publisher stop, pause, renewal lost) or its expiry.
Delete(k) ==
    /\ Len(log) < MaxEvents
    /\ registry[k] # NoServer
    /\ registry' = [registry EXCEPT ![k] = NoServer]
    /\ log' = Append(log, [type |-> "DELETE", key |-> k, value |-> NoServer])
    /\ UNCHANGED <<used, phase, cursor, bal, waiter>>

\* load(): the prefix GET (keys in the store's order, any order of lease
\* ids) and fullCallback under client.lock: addConn for each, then, if the
\* snapshot is not empty, initialize, Broadcast and addListener.
load ==
    /\ phase = "init"
    /\ \E order \in SetToSeqs({k \in Keys : registry[k] # NoServer}) :
       \E oks \in [DOMAIN order -> DialOutcomes] :
          LET kvs == [i \in DOMAIN order |-> [key |-> order[i], value |-> registry[order[i]]]]
              b1  == addAll(bal, kvs, oks)
          IN  IF kvs = <<>>
              THEN UNCHANGED <<bal, waiter>>
              ELSE /\ \E i \in 0..(IF b1.conns = <<>> THEN 0 ELSE Len(b1.conns) - 1) :
                        bal' = initialize(b1, i)
                   /\ waiter' = broadcast(waiter)
    /\ phase' = "loaded"
    /\ UNCHANGED <<registry, used, log, cursor>>

\* watch(): the watch is opened at the store's current revision; changes
\* made since the GET are never delivered.
watch ==
    /\ phase = "loaded"
    /\ phase' = "watching"
    /\ cursor' = Len(log)
    /\ UNCHANGED <<registry, used, log, bal, waiter>>

\* changeCallback(ADD): under client.lock, addConn; Broadcast unless it
\* returned an error (which is logged).
changeAdd ==
    /\ phase = "watching"
    /\ cursor < Len(log)
    /\ log[cursor + 1].type = "ADD"
    /\ LET ev == log[cursor + 1] IN
       \E ok \in DialOutcomes :
          /\ bal' = addConn(bal, ev.key, ev.value, ok)
          /\ waiter' = IF addConnFails(bal, ev.key, ev.value, ok) THEN waiter
                       ELSE broadcast(waiter)
    /\ cursor' = cursor + 1
    /\ UNCHANGED <<registry, used, log, phase>>

\* changeCallback(DELETE): removeConn, without client.lock.
changeDelete ==
    /\ phase = "watching"
    /\ cursor < Len(log)
    /\ log[cursor + 1].type = "DELETE"
    /\ bal' = removeConn(bal, log[cursor + 1].key)
    /\ cursor' = cursor + 1
    /\ UNCHANGED <<registry, used, log, phase, waiter>>

\* WaitForServers: under client.lock, return at once if the balancer is
\* not empty, else cond.Wait.  newSubClient returns the client only after
\* subscribe(), so no caller runs before the watch is started.
waitForServers ==
    /\ phase = "watching"
    /\ waiter = "idle"
    /\ waiter' = IF isEmpty(bal) THEN "waiting" ELSE "done"
    /\ UNCHANGED <<registry, used, log, phase, cursor, bal>>

\* The woken caller reacquires client.lock and returns.
waitReturns ==
    /\ waiter = "woken"
    /\ waiter' = "done"
    /\ UNCHANGED <<registry, used, log, phase, cursor, bal>>

\* RoundRobinSubClient.Next from any client goroutine.
pick ==
    /\ phase = "watching"
    /\ ~isEmpty(bal)
    /\ bal' = next(bal)
    /\ UNCHANGED <<registry, used, log, phase, cursor, waiter>>

Next ==
    \/ \E k \in Keys, v \in Values : Put(k, v)
    \/ \E k \in Keys : Delete(k)
    \/ load \/ watch \/ changeAdd \/ changeDelete
    \/ waitForServers \/ waitReturns \/ pick

Spec == Init /\ [][Next]_vars

-----------------------------------------------------------------------------
\* Type invariant; every entry holds a dialled (non-nil) connection.
TypeOK ==
    /\ registry \in [Keys -> Values \cup {NoServer}]
    /\ used \subseteq Keys
    /\ phase \in {"init", "loaded", "watching"}
    /\ cursor \in 0..Len(log)
    /\ bal.servers \in [Values -> Seq(Keys)]
    /\ bal.mapping \in [Keys -> Values \cup {NoServer}]
    /\ \A i \in DOMAIN bal.conns : bal.conns[i].key \in Keys
                                  /\ bal.conns[i].conn \in 1..bal.dials
    /\ bal.open \subseteq 1..bal.dials
    /\ bal.index \in Nat
    /\ waiter \in {"idle", "waiting", "woken", "done"}

\* The Go comment of next(): it returns a connection only while the table
\* is non-empty, and the spec closes a connection once the last key of
\* its server is removed: no closed connection is ever handed out.
ConnsOpen ==
    \A i \in DOMAIN bal.conns : bal.conns[i].conn \in bal.open

\* The table follows the bindings: a bound key has exactly one entry
\* (a failed dial leaves no binding, a replaced key no entry) and an
\* unbound key none (removeConn and handlePrevious drop what they unbind).
OneEntryPerBinding ==
    \A k \in Keys :
        Cardinality({i \in DOMAIN bal.conns : bal.conns[i].key = k}) =
            IF bal.mapping[k] # NoServer THEN 1 ELSE 0

\* The two indexes of baseBalancer agree: key k is listed under value v
\* exactly when k is mapped to v.
MappingServersAgree ==
    \A k \in Keys, v \in Values :
        (\E i \in DOMAIN bal.servers[v] : bal.servers[v][i] = k) <=> bal.mapping[k] = v

\* Once the watch has delivered every change, the balancer's bindings are
\* the store's (with dials that never fail, in shared mode).
Converged ==
    (phase = "watching" /\ cursor = Len(log)) =>
        \A k \in Keys : bal.mapping[k] = registry[k]

\* WaitForServers returns only when the balancer has a connection.
WaitReturnsNonEmpty ==
    [][waiter # "done" /\ waiter' = "done" => ~isEmpty(bal')]_vars
=============================================================================
