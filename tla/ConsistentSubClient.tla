-------------------------- MODULE ConsistentSubClient --------------------------
(***************************************************************************)
(* ConsistentSubClient of lib/etcd/subclient.go (the subClient of          *)
(* SubClient, with a consistentBalancer) fed by the etcd store, as         *)
(* rpcx.NewConsistentRpcClient builds it.  The store, load() and watch()   *)
(* are those of SubClient; ConsistentSubClient.Next(key) is the operator   *)
(* consistentNext, evaluated by the properties for every probe.            *)
(* WaitForServers is the subClient's and is checked in SubClient.          *)
(***************************************************************************)
EXTENDS ConsistentBalancer

CONSTANTS
    DialCanFail,  \* dialFn (grpc.Dial) may return an error
    MaxEvents     \* bound: changes of the store

ASSUME DialCanFail \in BOOLEAN /\ MaxEvents \in Nat

VARIABLES
    registry,  \* the store: key -> value, NoServer when absent
    used,      \* keys ever put (a lease id is never granted twice)
    log,       \* the store's change history: [type, key, value] events
    phase,     \* subscribe(): "init", "loaded" (after load), "watching"
    cursor,    \* events of log the watch has delivered or skipped
    bal        \* the consistentBalancer

vars == <<registry, used, log, phase, cursor, bal>>

DialOutcomes == IF DialCanFail THEN BOOLEAN ELSE {TRUE}

\* fullCallback's loop: addConn for every key-value of the snapshot.
consistentAddAll(b, kvs, oks) ==
    FoldLeft(LAMBDA acc, i : consistentAddConn(acc, kvs[i].key, kvs[i].value, oks[i]),
             b, [i \in DOMAIN kvs |-> i])

-----------------------------------------------------------------------------
Init ==
    /\ registry = [k \in Keys |-> NoServer]
    /\ used = {}
    /\ log = <<>>
    /\ phase = "init"
    /\ cursor = 0
    /\ bal = emptyConsistent

\* A publisher's register: Put(prefix/lease, listenOn) under a new lease.
Put(k, v) ==
    /\ Len(log) < MaxEvents
    /\ k \notin used
    /\ registry' = [registry EXCEPT ![k] = v]
    /\ used' = used \cup {k}
    /\ log' = Append(log, [type |-> "ADD", key |-> k, value |-> v])
    /\ UNCHANGED <<phase, cursor, bal>>

\* Revoke of the lease (publisher stop, pause, renewal lost) or its expiry.
Delete(k) ==
    /\ Len(log) < MaxEvents
    /\ registry[k] # NoServer
    /\ registry' = [registry EXCEPT ![k] = NoServer]
    /\ log' = Append(log, [type |-> "DELETE", key |-> k, value |-> NoServer])
    /\ UNCHANGED <<used, phase, cursor, bal>>

\* load(): the prefix GET and fullCallback (initialize is a no-op here;
\* the Broadcast wakes no one in this model).
load ==
    /\ phase = "init"
    /\ \E order \in SetToSeqs({k \in Keys : registry[k] # NoServer}) :
       \E oks \in [DOMAIN order -> DialOutcomes] :
          LET kvs == [i \in DOMAIN order |-> [key |-> order[i], value |-> registry[order[i]]]]
          IN  bal' = consistentAddAll(bal, kvs, oks)
    /\ phase' = "loaded"
    /\ UNCHANGED <<registry, used, log, cursor>>

\* watch(): opened at the store's current revision.
watch ==
    /\ phase = "loaded"
    /\ phase' = "watching"
    /\ cursor' = Len(log)
    /\ UNCHANGED <<registry, used, log, bal>>

\* changeCallback(ADD): addConn under client.lock.
changeAdd ==
    /\ phase = "watching"
    /\ cursor < Len(log)
    /\ log[cursor + 1].type = "ADD"
    /\ \E ok \in DialOutcomes :
          bal' = consistentAddConn(bal, log[cursor + 1].key, log[cursor + 1].value, ok)
    /\ cursor' = cursor + 1
    /\ UNCHANGED <<registry, used, log, phase>>

\* changeCallback(DELETE): removeConn.
changeDelete ==
    /\ phase = "watching"
    /\ cursor < Len(log)
    /\ log[cursor + 1].type = "DELETE"
    /\ bal' = consistentRemoveConn(bal, log[cursor + 1].key)
    /\ cursor' = cursor + 1
    /\ UNCHANGED <<registry, used, log, phase>>

Next ==
    \/ \E k \in Keys, v \in Values : Put(k, v)
    \/ \E k \in Keys : Delete(k)
    \/ load \/ watch \/ changeAdd \/ changeDelete

Spec == Init /\ [][Next]_vars

-----------------------------------------------------------------------------
\* Type invariant: buckets are server values, entries dialled connections.
TypeOK ==
    /\ registry \in [Keys -> Values \cup {NoServer}]
    /\ phase \in {"init", "loaded", "watching"}
    /\ cursor \in 0..Len(log)
    /\ bal.mapping \in [Keys -> Values \cup {NoServer}]
    /\ DOMAIN bal.conns \subseteq Values
    /\ \A bk \in DOMAIN bal.conns : bal.conns[bk] \in 1..bal.dials
    /\ bal.ring.nodes \subseteq Values
    /\ bal.open \subseteq 1..bal.dials

\* The occurrences of a hash among the ring's sorted slots.
slotCount(r, hash) == Cardinality({i \in DOMAIN r.keys : r.keys[i] = hash})

\* The ring's indexes agree after any sequence of Add and Remove: the
\* slots are sorted, each hash occurs in keys once per node recorded under
\* it in hashMap, and the nodes under the hashes are exactly h.nodes.
RingIndexesAgree ==
    LET r == bal.ring IN
    /\ \A i \in 1..(Len(r.keys) - 1) : r.keys[i] <= r.keys[i + 1]
    /\ \A i \in DOMAIN r.keys : r.keys[i] \in DOMAIN r.hashMap
    /\ \A hash \in DOMAIN r.hashMap : slotCount(r, hash) = Len(r.hashMap[hash])
    /\ r.nodes = UNION {ToSet(r.hashMap[hash]) : hash \in DOMAIN r.hashMap}

\* ConsistentSubClient.Next(key) answers every key with an open
\* connection while the balancer has any: the ring and conns hold the
\* same buckets, and no closed connection stays in conns.
NextReachesOpenConn ==
    ~consistentIsEmpty(bal) => \A p \in Probes : consistentNext(bal, p) \in bal.open

BoundKeysRoutable ==
    \A k \in Keys :
        bal.mapping[k] # NoServer => bucketKey(k, bal.mapping[k]) \in DOMAIN bal.conns
=============================================================================
