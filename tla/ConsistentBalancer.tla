------------------------- MODULE ConsistentBalancer -------------------------
(***************************************************************************)
(* consistentBalancer of lib/etcd/balancer.go as pure operators on a       *)
(* record that extends the base bindings with                              *)
(*   b.conns  bucket key -> connection (conns), a function whose domain    *)
(*            is the map's keys                                            *)
(*   b.ring   the buckets ring (ConsistentHash) of bucket keys             *)
(*   b.open   connections dialled and not yet closed                       *)
(*   b.dials  number of dials so far; the n-th dial yields connection n    *)
(* The bucket key is the default keyer of NewConsistentSubClient, the      *)
(* server value, as used by rpcx.NewConsistentRpcClient.  The balancer is  *)
(* never exclusive: newConsistentBalancer passes exclusive = false.        *)
(***************************************************************************)
EXTENDS BaseBalancer, ConsistentHash, FiniteSets

ASSUME ~Exclusive

\* newConsistentBalancer
emptyConsistent ==
    [servers |-> emptyBindings.servers, mapping |-> emptyBindings.mapping,
     conns |-> [bk \in {} |-> 0], ring |-> emptyRing, open |-> {}, dials |-> 0]

\* The default keyer: func(kv keyValue) string { return kv.value }.
bucketKey(key, value) == value

\* handlePrevious, shared branch: the connection stored under a bucket key
\* equal to the first previous registry key, or 0 (nil) if there is none.
handlePrevious(b, prev) ==
    IF prev # <<>> /\ prev[1] \in DOMAIN b.conns THEN b.conns[prev[1]] ELSE 0

\* A mutant that stores the connection but never adds its bucket to the ring.
storeConnNoBucket(b, bk, conn) == [b EXCEPT !.conns = (bk :> conn) @@ @]

\* Under b.lock: b.conns[bucketKey] = conn; b.buckets.Add(bucketKey).
storeConn(b, bk, conn) ==
    [b EXCEPT !.conns = (bk :> conn) @@ @, !.ring = ringAdd(@, bk)]

\* A mutant of dialFn whose first connection is 0, which reads as nil.
consistentDialFnOffByOne(b) == b.dials

\* dialFn succeeded: the n-th dial returns connection n.
consistentDialFn(b) == b.dials + 1

\* addConn: addKv, handlePrevious if the value had keys, dial when no
\* connection came back (rolling the binding back if the dial fails),
\* then store the connection and add its bucket to the ring.
consistentAddConn(b, key, value, dialOk) ==
    LET b1   == addKv(b, key, value)
        conn == handlePrevious(b1, b.servers[value])
        n    == consistentDialFn(b1)
        bk   == bucketKey(key, value)
    IN  CASE conn # 0 -> storeConn(b1, bk, conn)
          [] dialOk    -> storeConn([b1 EXCEPT !.open = @ \cup {n}, !.dials = n], bk, n)
          [] OTHER     -> doRemoveKv(b1, key)

\* removeConn: removeKv; rebuild the bucket key from the value removeKv
\* returned; remove that bucket from the ring and its connection from
\* conns; close the connection only if removeKv said no key keeps it.
consistentRemoveConn(b, key) ==
    LET server == b.mapping[key]
        keep   == removeKvKeep(b, key)
        bk     == bucketKey(key, server)
        found  == bk \in DOMAIN b.conns
    IN  [doRemoveKv(b, key) EXCEPT
           !.ring  = ringRemove(@, bk),
           !.conns = Restrict(@, DOMAIN @ \ {bk}),
           !.open  = IF found /\ ~keep THEN @ \ {b.conns[bk]} ELSE @]

\* isEmpty
consistentIsEmpty(b) == DOMAIN b.conns = {}

\* next(key): the ring's node for the probe, then getConn; 0 for (nil, false).
consistentNext(b, p) ==
    LET node == ringGet(b.ring, p)
    IN  IF node # NoNode /\ node \in DOMAIN b.conns THEN b.conns[node] ELSE 0
=============================================================================
