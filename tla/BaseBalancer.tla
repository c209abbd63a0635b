---------------------------- MODULE BaseBalancer ----------------------------
(***************************************************************************)
(* baseBalancer of lib/etcd/balancer.go: the registry bindings shared by   *)
(* both balancer variants, as pure operators on a balancer record b with   *)
(*   b.servers  value -> sequence of registry keys bound to it (servers)   *)
(*   b.mapping  registry key -> value, NoServer when unbound (mapping)     *)
(* A Go map lookup of a missing value gives the empty slice, so a value    *)
(* deleted from servers is the empty sequence here.                        *)
(***************************************************************************)
EXTENDS Integers, Sequences, SequencesExt

CONSTANTS
    Keys,       \* registry keys (prefix/lease-id) the model uses
    Values,     \* server addresses stored under those keys
    NoServer,   \* model value: key not in mapping
    Exclusive   \* subOptions.exclusive

ASSUME NoServer \notin Values
ASSUME Exclusive \in BOOLEAN

\* The empty bindings of newBaseBalancer.
emptyBindings == [servers |-> [v \in Values |-> <<>>],
                  mapping |-> [k \in Keys |-> NoServer]]

\* A mutant of doRemoveKv that forgets to drop the key from servers.
doRemoveKvMappingOnly(b, key) ==
    IF b.mapping[key] = NoServer THEN b
    ELSE [b EXCEPT !.mapping[key] = NoServer]

\* doRemoveKv: unbind key (no-op if unbound); the value keeps its other keys.
doRemoveKv(b, key) ==
    IF b.mapping[key] = NoServer THEN b
    ELSE [b EXCEPT !.mapping[key] = NoServer,
                   !.servers[b.mapping[key]] = Remove(@, key)]

\* The keepConn result of doRemoveKv/removeKv: true for an unbound key or
\* when other keys still reference the value.
removeKvKeep(b, key) ==
    \/ b.mapping[key] = NoServer
    \/ Remove(b.servers[b.mapping[key]], key) # <<>>

\* A mutant of addKv that never drops the previous keys of the value.
addKvNoExclusive(b, key, value) ==
    [b EXCEPT !.servers[value] = Append(@, key), !.mapping[key] = value]

\* addKv: in exclusive mode first unbind every key already bound to value,
\* then append key to the value's keys and bind it.  The caller reads the
\* previous keys as b.servers[value] before the call.  (The Go loop ranges
\* over the slice that doRemoveKv compacts in place; for at most two keys
\* per value, as in every model here, that is the same as this fold.)
addKv(b, key, value) ==
    LET keys == b.servers[value]
        b1   == IF Exclusive /\ keys # <<>>
                THEN FoldLeft(LAMBDA acc, k : doRemoveKv(acc, k), b, keys)
                ELSE b
    IN  [b1 EXCEPT !.servers[value] = Append(@, key), !.mapping[key] = value]
=============================================================================
