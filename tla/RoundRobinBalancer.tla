------------------------- MODULE RoundRobinBalancer -------------------------
(***************************************************************************)
(* roundRobinBalancer of lib/etcd/balancer.go as pure operators on a       *)
(* record that extends the base bindings with                              *)
(*   b.conns  sequence of [key, conn] entries (serverConn), in order       *)
(*   b.index  the round-robin cursor                                       *)
(*   b.open   connections dialled and not yet closed                       *)
(*   b.dials  number of dials so far; the n-th dial yields connection n    *)
(* Each operation runs on the subscription's callback goroutine; its lock  *)
(* sections are contiguous in the model because the only concurrent user,  *)
(* next(), just reads conns and moves the cursor.                          *)
(***************************************************************************)
EXTENDS BaseBalancer, FiniteSets

\* newRoundRobinBalancer
emptyBalancer ==
    [servers |-> emptyBindings.servers, mapping |-> emptyBindings.mapping,
     conns |-> <<>>, index |-> 0, open |-> {}, dials |-> 0]

\* The connections of the entries of key.
connsOf(b, key) == {b.conns[i].conn : i \in {j \in DOMAIN b.conns : b.conns[j].key = key}}

\* A mutant of the filtering loop that closes the connections but never
\* stores the filtered slice back into b.conns.
closeConnsOfKeepEntries(b, key) == [b EXCEPT !.open = @ \ connsOf(b, key)]

\* The filtering loop shared by handlePrevious and removeConn: drop every
\* entry of key and closeFn its connection.
closeConnsOf(b, key) ==
    [b EXCEPT !.conns = SelectSeq(@, LAMBDA e : e.key # key),
              !.open  = @ \ connsOf(b, key)]

\* handlePrevious, exclusive branch: unbind each previous key (again) and
\* close its entries; no connection is reused.
exclusivePrevious(b, prev) ==
    FoldLeft(LAMBDA acc, item : closeConnsOf(doRemoveKv(acc, item), item), b, prev)

\* handlePrevious, shared branch: the connection of the first entry of the
\* first previous key, or 0 (nil) if it has none.
sharedPrevious(b, prev) ==
    LET i == SelectInSeq(b.conns, LAMBDA e : e.key = prev[1])
    IN  IF i = 0 THEN 0 ELSE b.conns[i].conn

\* The state after addConn(key, value) once addKv and handlePrevious ran,
\* and the connection handlePrevious returned (0 for nil).
afterPrevious(b, key, value) ==
    LET prev == b.servers[value]
        b1   == addKv(b, key, value)
    IN  CASE prev = <<>> -> [bal |-> b1, conn |-> 0]
          [] Exclusive   -> [bal |-> exclusivePrevious(b1, prev), conn |-> 0]
          [] OTHER       -> [bal |-> b1, conn |-> sharedPrevious(b1, prev)]

\* addConn dials the value when no connection is reused.
addConnDials(b, key, value) == afterPrevious(b, key, value).conn = 0

\* addConn returns an error: it dialled and the dial failed.
addConnFails(b, key, value, dialOk) == addConnDials(b, key, value) /\ ~dialOk

\* A mutant of dialFn whose first connection is 0, which reads as nil.
dialFnOffByOne(b) == b.dials

\* dialFn succeeded: the n-th dial returns connection n.
dialFn(b) == b.dials + 1

\* A mutant of dialFailed that keeps the binding of the failed dial.
dialFailedNoRollback(b, key) == b

\* The dial failed: removeKv(kv.key) rolls the binding back.
dialFailed(b, key) == doRemoveKv(b, key)

\* addConn: reuse or dial, roll the binding back if the dial fails,
\* otherwise append the entry (and notify listeners, which keep no state).
addConn(b, key, value, dialOk) ==
    LET r == afterPrevious(b, key, value)
        n == dialFn(r.bal)
    IN  CASE r.conn # 0 ->
               [r.bal EXCEPT !.conns = Append(@, [key |-> key, conn |-> r.conn])]
          [] dialOk ->
               [r.bal EXCEPT !.conns = Append(@, [key |-> key, conn |-> n]),
                             !.open = @ \cup {n}, !.dials = n]
          [] OTHER -> dialFailed(r.bal, key)

\* removeConn: unbind key; if no other key keeps the value, drop and close
\* the entries of key.
removeConn(b, key) ==
    IF removeKvKeep(b, key) THEN doRemoveKv(b, key)
    ELSE closeConnsOf(doRemoveKv(b, key), key)

\* isEmpty
isEmpty(b) == b.conns = <<>>

\* initialize: a random starting cursor once the table is non-empty.
initialize(b, i) == IF b.conns = <<>> THEN b ELSE [b EXCEPT !.index = i]

\* next: advance the cursor modulo the table size (the caller then uses
\* b.conns[index].conn); nothing when the table is empty.
next(b) ==
    IF b.conns = <<>> THEN b
    ELSE [b EXCEPT !.index = (@ + 1) % Len(b.conns)]
=============================================================================
