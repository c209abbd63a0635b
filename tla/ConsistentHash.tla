---------------------------- MODULE ConsistentHash ----------------------------
(***************************************************************************)
(* ConsistentHash of common/hash/consistenthash.go as pure operators on a  *)
(* ring record r with                                                      *)
(*   r.keys     the sorted slice of replica hashes (keys)                  *)
(*   r.hashMap  hash -> sequence of nodes; its domain is the map's keys    *)
(*   r.nodes    the set of nodes added and not removed (nodes)             *)
(* The hash function is a constant table: ReplicaHash[node, i] stands for  *)
(* hashFunc(repr(node) + strconv.Itoa(i)), ProbeHash[p] for               *)
(* hashFunc(repr(p)) and InnerHash[p] for hashFunc(innerRepr(p)).  The    *)
(* ring's lock makes every operation one step; AddWithReplicas is two     *)
(* (its Remove, then the insertion), which its callers here never overlap.*)
(***************************************************************************)
EXTENDS Integers, Sequences, SequencesExt, Functions, TLC

CONSTANTS
    Replicas,     \* h.replicas (minReplicas = 100 in the code)
    Probes,       \* keys passed to Get
    ReplicaHash,  \* [node, replica index] -> uint32 hash
    ProbeHash,    \* [probe] -> hash of repr(probe)
    InnerHash,    \* [probe] -> hash of innerRepr(probe)
    NoNode        \* model value: Get's (nil, false)

ASSUME Replicas \in Nat \ {0}

\* NewCustomConsistentHash: an empty ring.
emptyRing == [keys |-> <<>>, hashMap |-> [h \in {} |-> <<>>], nodes |-> {}]

\* sort.Search(len(keys), keys[i] >= hash), as a 1-based index; Len + 1
\* when every slot is below hash.
firstAtLeast(keys, hash) ==
    LET above == {i \in DOMAIN keys : keys[i] >= hash}
    IN  IF above = {} THEN Len(keys) + 1 ELSE Min(above)

\* h.hashMap[hash] = append(h.hashMap[hash], node)
appendNode(hm, hash, node) ==
    IF hash \in DOMAIN hm THEN [hm EXCEPT ![hash] = Append(@, node)]
    ELSE (hash :> <<node>>) @@ hm

\* A mutant of Remove's loop that forgets to drop the replica's slot.
removeReplicaKeepSlot(r, node, i) ==
    LET hash == ReplicaHash[node, i]
        hm   == r.hashMap
    IN  [r EXCEPT
           !.hashMap = CASE hash \notin DOMAIN hm -> hm
                         [] Len(hm[hash]) <= 1    -> Restrict(hm, DOMAIN hm \ {hash})
                         [] OTHER -> [hm EXCEPT ![hash] = SelectSeq(@, LAMBDA x : x # node)]]

\* One pass of Remove's loop, for replica i: drop the first slot >= the
\* replica's hash (whatever node it belongs to), then delete the hash's
\* entry if it has at most one node, else filter node out of it.
removeReplica(r, node, i) ==
    LET hash == ReplicaHash[node, i]
        idx  == firstAtLeast(r.keys, hash)
        hm   == r.hashMap
    IN  [r EXCEPT
           !.keys    = IF idx <= Len(r.keys) THEN RemoveAt(@, idx) ELSE @,
           !.hashMap = CASE hash \notin DOMAIN hm -> hm
                         [] Len(hm[hash]) <= 1    -> Restrict(hm, DOMAIN hm \ {hash})
                         [] OTHER -> [hm EXCEPT ![hash] = SelectSeq(@, LAMBDA x : x # node)]]

\* Remove: nothing for an unknown node; otherwise run the loop over all
\* h.replicas indexes and forget the node.
ringRemove(r, node) ==
    IF node \notin r.nodes THEN r
    ELSE LET r1 == FoldLeft(LAMBDA acc, i : removeReplica(acc, node, i), r,
                            [j \in 1..Replicas |-> j - 1])
         IN  [r1 EXCEPT !.nodes = @ \ {node}]

\* AddWithReplicas: Remove the node, cap the count at h.replicas, append
\* one slot per replica, record the node under each hash, sort the slots.
ringAddWithReplicas(r, node, replicas) ==
    LET r1 == ringRemove(r, node)
        n  == IF replicas > Replicas THEN Replicas ELSE replicas
        hs == [j \in 1..n |-> ReplicaHash[node, j - 1]]
    IN  [keys    |-> SortSeq(r1.keys \o hs, <),
         hashMap |-> FoldLeft(LAMBDA hm, hash : appendNode(hm, hash, node), r1.hashMap, hs),
         nodes   |-> r1.nodes \cup {node}]

\* Add: AddWithReplicas with h.replicas.
ringAdd(r, node) == ringAddWithReplicas(r, node, Replicas)

ringGet(r, p) ==
    IF DOMAIN r.hashMap = {} THEN NoNode
    ELSE LET idx   == ((firstAtLeast(r.keys, ProbeHash[p]) - 1) % Len(r.keys)) + 1
             nodes == IF r.keys[idx] \in DOMAIN r.hashMap
                      THEN r.hashMap[r.keys[idx]] ELSE <<>>
         IN  CASE Len(nodes) = 0 -> NoNode
               [] Len(nodes) = 1 -> nodes[1]
               [] OTHER          -> nodes[(InnerHash[p] % Len(nodes)) + 1]
=============================================================================
