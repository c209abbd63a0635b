----------------------------- MODULE Subscriber -----------------------------
(***************************************************************************)
(* Subscriber of lib/etcd/subscriber.go: a monitor (monitor.go) over the   *)
(* etcd store feeding a container, which keeps the keys of every value     *)
(* (values) and the value of every key (mapping) under its own lock.      *)
(* Each container method is one step.  The store is the environment, as   *)
(* in SubClient: publishers Put a key under a new lease and Delete it on  *)
(* revoke or expiry, and `log` is its change history.  NewSubscriber runs *)
(* subscribe(): load() (one prefix GET handed to fullCallback), then      *)
(* watch(), which opens a watch at the store's then current revision and  *)
(* hands each later event to changeCallback.  All keys match the prefix.  *)
(* A Go map lookup of a missing value gives the empty slice, so a value   *)
(* deleted from values is the empty sequence here.                        *)
(***************************************************************************)
EXTENDS Integers, Sequences, FiniteSets, SequencesExt

CONSTANTS
    Keys,       \* registry keys (prefix/lease-id)
    Values,     \* server addresses stored under them
    NoServer,   \* model value: key not in mapping
    Exclusive,  \* subOptions.exclusive (the Exclusive() option)
    MaxEvents   \* bound: changes of the store

ASSUME NoServer \notin Values /\ Exclusive \in BOOLEAN /\ MaxEvents \in Nat

VARIABLES
    registry,  \* the store: key -> value, NoServer when absent
    used,      \* keys ever put (a lease id is never granted twice)
    log,       \* the store's change history: [type, key, value] events
    phase,     \* subscribe(): "init", "loaded" (after load), "watching"
    cursor,    \* events of log the watch has delivered or skipped
    items      \* the container: [values, mapping]

vars == <<registry, used, log, phase, cursor, items>>

\* A mutant of container.doRemoveKv that leaves the key in values.
doRemoveKvMappingOnly(c, key) ==
    IF c.mapping[key] = NoServer THEN c
    ELSE [c EXCEPT !.mapping[key] = NoServer]

\* container.doRemoveKv: an unmapped key is a no-op; otherwise delete it
\* from mapping and compact it out of its value's keys.
doRemoveKv(c, key) ==
    IF c.mapping[key] = NoServer THEN c
    ELSE [c EXCEPT !.mapping[key] = NoServer,
                   !.values[c.mapping[key]] = Remove(@, key)]

\* container.addKv: in exclusive mode first remove every key the value
\* already has, then append the key to the value's keys and map it.  (The
\* Go loop ranges over the slice doRemoveKv compacts in place; for at most
\* two keys per value, as here, that is this fold.)  The results are
\* ignored by both callbacks.
addKv(c, key, value) ==
    LET keys == c.values[value]
        c1   == IF Exclusive /\ keys # <<>>
                THEN FoldLeft(LAMBDA acc, k : doRemoveKv(acc, k), c, keys)
                ELSE c
    IN  [c1 EXCEPT !.values[value] = Append(@, key), !.mapping[key] = value]

\* container.removeKv: doRemoveKv under the lock.
removeKv(c, key) == doRemoveKv(c, key)

\* container.getValues (Subscriber.Values): the values with keys.
getValues(c) == {v \in Values : c.values[v] # <<>>}

\* fullCallback: addKv for every key-value of the snapshot, in order.
addAll(c, kvs) ==
    FoldLeft(LAMBDA acc, kv : addKv(acc, kv.key, kv.value), c, kvs)

-----------------------------------------------------------------------------
\* NewSubscriber with newContainer's empty maps.
Init ==
    /\ registry = [k \in Keys |-> NoServer]
    /\ used = {}
    /\ log = <<>>
    /\ phase = "init"
    /\ cursor = 0
    /\ items = [values |-> [v \in Values |-> <<>>], mapping |-> [k \in Keys |-> NoServer]]

\* A publisher's register: Put(prefix/lease, listenOn) under a new lease.
Put(k, v) ==
    /\ Len(log) < MaxEvents
    /\ k \notin used
    /\ registry' = [registry EXCEPT ![k] = v]
    /\ used' = used \cup {k}
    /\ log' = Append(log, [type |-> "ADD", key |-> k, value |-> v])
    /\ UNCHANGED <<phase, cursor, items>>

\* Revoke of the lease or its expiry.
Delete(k) ==
    /\ Len(log) < MaxEvents
    /\ registry[k] # NoServer
    /\ registry' = [registry EXCEPT ![k] = NoServer]
    /\ log' = Append(log, [type |-> "DELETE", key |-> k, value |-> NoServer])
    /\ UNCHANGED <<used, phase, cursor, items>>

\* load(): the prefix GET (keys in any order) and fullCallback.
load ==
    /\ phase = "init"
    /\ \E order \in SetToSeqs({k \in Keys : registry[k] # NoServer}) :
          items' = addAll(items, [i \in DOMAIN order |->
                                    [key |-> order[i], value |-> registry[order[i]]]])
    /\ phase' = "loaded"
    /\ UNCHANGED <<registry, used, log, cursor>>

\* watch(): the watch opens at the store's current revision.
watch ==
    /\ phase = "loaded"
    /\ phase' = "watching"
    /\ cursor' = Len(log)
    /\ UNCHANGED <<registry, used, log, items>>

\* changeCallback for the next event: ADD is addKv, DELETE is removeKv.
change ==
    /\ phase = "watching"
    /\ cursor < Len(log)
    /\ LET ev == log[cursor + 1]
       IN  items' = IF ev.type = "ADD" THEN addKv(items, ev.key, ev.value)
                    ELSE removeKv(items, ev.key)
    /\ cursor' = cursor + 1
    /\ UNCHANGED <<registry, used, log, phase>>

Next ==
    \/ \E k \in Keys, v \in Values : Put(k, v)
    \/ \E k \in Keys : Delete(k)
    \/ load \/ watch \/ change

Spec == Init /\ [][Next]_vars

-----------------------------------------------------------------------------
\* Type invariant.
TypeOK ==
    /\ registry \in [Keys -> Values \cup {NoServer}]
    /\ used \subseteq Keys
    /\ phase \in {"init", "loaded", "watching"}
    /\ cursor \in 0..Len(log)
    /\ items.values \in [Values -> Seq(Keys)]
    /\ items.mapping \in [Keys -> Values \cup {NoServer}]

\* Whatever order the snapshot and the events come in, the container's
\* two maps agree: a key is listed once, under the value it maps to and
\* under no other; Values() returns exactly the mapped values; and with
\* Exclusive no value has two keys.
ContainerIndexesAgree ==
    /\ \A k \in Keys, v \in Values :
          Cardinality({i \in DOMAIN items.values[v] : items.values[v][i] = k})
             = IF items.mapping[k] = v THEN 1 ELSE 0
    /\ getValues(items) = {items.mapping[k] : k \in {x \in Keys : items.mapping[x] # NoServer}}
    /\ Exclusive => \A v \in Values : Len(items.values[v]) <= 1
=============================================================================
