-------------------------------- MODULE Cache --------------------------------
(***************************************************************************)
(* The read-through cache of lib/stores/internal/cache.go (Cache.Take,    *)
(* SetCache, SetCacheWithNotFound, DelCache) as used by sqlc.CachedConn    *)
(* and mongoc.CachedCollection: readers call QueryRow/FindOne (Take under  *)
(* the package's shared ExclusiveCalls), writers call ExecDropCache (or    *)
(* one of the *DropCache methods), a plain write (Exec, Update...) or      *)
(* DelCache alone, all on one cache key.                                   *)
(*                                                                         *)
(* Each Redis command and each database statement is one atomic step.    *)
(* The database row holds the version of the write that last stored it,   *)
(* or 0 when there is no row.  The single-flight entry of the key is       *)
(* named by its leader: a leader runs one call at a time, and its Done     *)
(* hands the (immutable) result to every follower waiting on it.           *)
(***************************************************************************)
EXTENDS Integers, FiniteSets

CONSTANTS
    Readers,      \* goroutines calling Take on the key
    Writers,      \* goroutines writing the row or dropping the key
    MaxVersion,   \* bound: writes to the row
    WithExpiry,   \* the seconds argument of Take is > 0 (Setex, not Set)
    None          \* model value: no single-flight entry, no leader

ASSUME MaxVersion \in Nat /\ WithExpiry \in BOOLEAN /\ None \notin Readers

\* Cache values and results are integers: a version, or one of these.
Empty == -1        \* no key in Redis (a GET returns "")
Placeholder == 0   \* notFoundPlaceholder "*": the row is missing, like db = 0
Failure == -2      \* an error from Redis or the database

VARIABLES
    db,       \* the row: version of its last write, 0 when absent
    cache,    \* [val: Empty, Placeholder or a version, expires: TTL set]
    entry,    \* eg.m[key]: the leader of the in-flight call, or None
    rpc,      \* rpc[r]: where reader r is in Take
    val,      \* val[r]: what r's fn read (leader) or got (follower)
    leader,   \* leader[r]: the leader a follower r waits on
    loaded,   \* loaded[r]: r's current Take invoked the query (history)
    wpc,      \* wpc[w]: "idle", "exec" (cache deleted, exec pending)
    writes,   \* ExecDropCache calls started (bounded by MaxVersion)
    nextTake  \* history: "none", "pending" after a DelCache succeeded,
              \* or the first reader whose Take began after it

vars == <<db, cache, entry, rpc, val, leader, loaded, wpc, writes, nextTake>>

Versions == 1..MaxVersion

\* A mutant of SetCache's choice that always uses Set, without TTL.
setCacheEntryNoTTL(v) == [val |-> v, expires |-> FALSE]

\* SetCache: Setex(key, data, seconds) when seconds > 0, else Set.
setCacheEntry(v) == [val |-> v, expires |-> WithExpiry]

\* SetCacheWithNotFound: Setex(key, "*", notFoundExpiry).
placeholderEntry == [val |-> Placeholder, expires |-> TRUE]

\* The first Take to begin after a successful DelCache is r's.
beginTake(r) ==
    nextTake' = CASE nextTake = "pending" -> r
                  [] nextTake = r         -> "none"
                  [] OTHER                -> nextTake

-----------------------------------------------------------------------------
Init ==
    /\ db \in {0, 1}                 \* the row may or may not exist
    /\ cache = [val |-> Empty, expires |-> FALSE]
    /\ entry = None
    /\ rpc = [r \in Readers |-> "idle"]
    /\ val = [r \in Readers |-> Empty]
    /\ leader = [r \in Readers |-> None]
    /\ loaded = [r \in Readers |-> FALSE]
    /\ wpc = [w \in Writers |-> "idle"]
    /\ writes = IF db = 1 THEN 1 ELSE 0
    /\ nextTake = "none"

\* Take: DoEx finds the key's entry and waits on it.
takeJoin(r) ==
    /\ rpc[r] = "idle"
    /\ entry # None
    /\ rpc' = [rpc EXCEPT ![r] = "wait"]
    /\ leader' = [leader EXCEPT ![r] = entry]
    /\ loaded' = [loaded EXCEPT ![r] = FALSE]
    /\ beginTake(r)
    /\ UNCHANGED <<db, cache, entry, val, wpc, writes>>

\* Take: DoEx finds no entry, inserts one and runs fn.
takeLead(r) ==
    /\ rpc[r] = "idle"
    /\ entry = None
    /\ entry' = r
    /\ rpc' = [rpc EXCEPT ![r] = "get"]
    /\ loaded' = [loaded EXCEPT ![r] = FALSE]
    /\ beginTake(r)
    /\ UNCHANGED <<db, cache, val, leader, wpc, writes>>

\* Redis.Get: a missing key (red.Nil) reads as "", so a miss is Empty;
\* getRedis or the command may fail.
redisGet(c) == {c.val, Failure}

\* fn, queryCache: Redis GET.  A value or the placeholder is a hit and fn
\* returns; a Redis error returns at once (no fall-through to the
\* database); a miss goes on to query.
queryCache(r) ==
    /\ rpc[r] = "get"
    /\ \E got \in redisGet(cache) :
          \/ /\ got \notin {Empty, Failure}
             /\ val' = [val EXCEPT ![r] = got]
             /\ rpc' = [rpc EXCEPT ![r] = "defer"]
          \/ /\ got = Failure
             /\ val' = [val EXCEPT ![r] = Failure]
             /\ rpc' = [rpc EXCEPT ![r] = "defer"]
          \/ /\ got = Empty
             /\ rpc' = [rpc EXCEPT ![r] = "query"]
             /\ UNCHANGED val
    /\ UNCHANGED <<db, cache, entry, leader, loaded, wpc, writes, nextTake>>

\* The query fn that CachedConn.QueryRow and CachedCollection.FindOne,
\* FindOneId and FindAll hand to Take: the driver's no-row error
\* (sql.ErrNoRows, mgo.ErrNotFound) becomes ErrNotFound, here the row
\* value 0; any other error is returned as it is.
queryFnResults(d) == {d, Failure}

\* fn, query(v): the database read.  No row: SetCacheWithNotFound (its
\* error only logged) and ErrNotFound; a database error returns it; a row
\* goes on to SetCache.
query(r) ==
    /\ rpc[r] = "query"
    /\ loaded' = [loaded EXCEPT ![r] = TRUE]
    /\ \E res \in queryFnResults(db) :
          \/ /\ res = Placeholder
             /\ cache' \in {cache, placeholderEntry}
             /\ val' = [val EXCEPT ![r] = Placeholder]
             /\ rpc' = [rpc EXCEPT ![r] = "defer"]
          \/ /\ res = Failure
             /\ val' = [val EXCEPT ![r] = Failure]
             /\ rpc' = [rpc EXCEPT ![r] = "defer"]
             /\ UNCHANGED cache
          \/ /\ res \in Versions
             /\ val' = [val EXCEPT ![r] = res]
             /\ rpc' = [rpc EXCEPT ![r] = "set"]
             /\ UNCHANGED cache
    /\ UNCHANGED <<db, entry, leader, wpc, writes, nextTake>>

\* fn, SetCache(key, v, seconds) with what query read; an error is only
\* logged.  fn returns json.Marshal(v).
setCache(r) ==
    /\ rpc[r] = "set"
    /\ cache' \in {cache, setCacheEntry(val[r])}
    /\ rpc' = [rpc EXCEPT ![r] = "defer"]
    /\ UNCHANGED <<db, entry, val, leader, loaded, wpc, writes, nextTake>>

\* A mutant of the deferred delete that leaves the entry in place.
deleteEntryNot(e) == e

\* delete(eg.m, key)
deleteEntry(e) == None

\* makeCall's deferred delete(eg.m, key).
deferDelete(r) ==
    /\ rpc[r] = "defer"
    /\ entry' = deleteEntry(entry)
    /\ rpc' = [rpc EXCEPT ![r] = "release"]
    /\ UNCHANGED <<db, cache, val, leader, loaded, wpc, writes, nextTake>>

\* c.wg.Done(): the leader returns, and so may every follower of its call,
\* with the leader's result.
deferDone(r) ==
    /\ rpc[r] = "release"
    /\ rpc' = [q \in Readers |->
                 IF q = r \/ (rpc[q] = "wait" /\ leader[q] = r) THEN "idle" ELSE rpc[q]]
    /\ val' = [q \in Readers |->
                 IF rpc[q] = "wait" /\ leader[q] = r THEN val[r] ELSE val[q]]
    /\ UNCHANGED <<db, cache, entry, leader, loaded, wpc, writes, nextTake>>

\* Redis.Del behind Cache.DelCache: the key is gone.
DelCache == [val |-> Empty, expires |-> FALSE]

\* ExecDropCache: DelCache first; on a Redis error return it without
\* running exec.
dropCache(w) ==
    /\ wpc[w] = "idle"
    /\ writes < MaxVersion
    /\ writes' = writes + 1
    /\ \/ /\ cache' = DelCache
          /\ wpc' = [wpc EXCEPT ![w] = "exec"]
          /\ nextTake' = "pending"
       \/ UNCHANGED <<cache, wpc, nextTake>>
    /\ UNCHANGED <<db, entry, rpc, val, leader, loaded>>

\* The row after a write statement (sqlx exec, a collection write): an
\* error from the connection, from format or from the driver leaves it as
\* it was; otherwise it is deleted or holds the new value v.
statementResults(d, v) == {d, 0, v}

\* ExecDropCache: exec(cc.db) writes the row (a value no earlier write
\* stored: the count of writes started), deletes it, or fails.
exec(w) ==
    /\ wpc[w] = "exec"
    /\ db' \in statementResults(db, writes)
    /\ wpc' = [wpc EXCEPT ![w] = "idle"]
    /\ UNCHANGED <<cache, entry, rpc, val, leader, loaded, writes, nextTake>>

\* A write that leaves the cache alone: CachedCollection.Insert, Remove,
\* RemoveAll, RemoveId, Update, UpdateId, Upsert (and CachedConn.Exec,
\* Transact): one statement.
write(w) ==
    /\ wpc[w] = "idle"
    /\ writes < MaxVersion
    /\ writes' = writes + 1
    /\ db' \in statementResults(db, writes + 1)
    /\ UNCHANGED <<cache, entry, rpc, val, leader, loaded, wpc, nextTake>>

\* DelCache called on its own (CachedConn.DelCache, CachedCollection.
\* DelCache); a failed DEL changes nothing.
delCache(w) ==
    /\ wpc[w] = "idle"
    /\ cache' = DelCache
    /\ nextTake' = "pending"
    /\ UNCHANGED <<db, entry, rpc, val, leader, loaded, wpc, writes>>

\* Redis expires a key set with a TTL.
expire ==
    /\ cache.val # Empty
    /\ cache.expires
    /\ cache' = DelCache
    /\ UNCHANGED <<db, entry, rpc, val, leader, loaded, wpc, writes, nextTake>>

Next ==
    \/ \E r \in Readers :
          \/ takeJoin(r) \/ takeLead(r) \/ queryCache(r) \/ query(r)
          \/ setCache(r) \/ deferDelete(r) \/ deferDone(r)
    \/ \E w \in Writers : dropCache(w) \/ exec(w) \/ write(w) \/ delCache(w)
    \/ expire

\* Every Redis command and statement returns (each carries a timeout),
\* goroutines are scheduled, and a TTL runs out.  Nothing obliges a
\* reader to call Take or a writer to write.
Fairness ==
    /\ \A r \in Readers :
          /\ WF_vars(queryCache(r)) /\ WF_vars(query(r)) /\ WF_vars(setCache(r))
          /\ WF_vars(deferDelete(r)) /\ WF_vars(deferDone(r))
    /\ \A w \in Writers : WF_vars(exec(w))
    /\ WF_vars(expire)

Spec == Init /\ [][Next]_vars
FairSpec == Spec /\ Fairness

-----------------------------------------------------------------------------
CacheValues == {Empty, Placeholder} \cup Versions

\* Type invariant; the key's entry belongs to a leader still inside fn.
TypeOK ==
    /\ db \in 0..MaxVersion
    /\ entry # None => rpc[entry] \in {"get", "query", "set", "defer"}
    /\ cache \in [val : CacheValues, expires : BOOLEAN]
    /\ entry \in Readers \cup {None}
    /\ rpc \in [Readers -> {"idle", "get", "query", "set", "defer", "release", "wait"}]
    /\ val \in [Readers -> CacheValues \cup {Failure}]
    /\ wpc \in [Writers -> {"idle", "exec"}]
    /\ writes \in 0..MaxVersion

\* The cache says what the database says: nothing, the row's version, or
\* the placeholder (0) for a missing row.
CacheConsistent == cache.val \in {Empty, db}

\* Once the writes are over, the cache eventually agrees with the database
\* for good: a value set from a read that raced a write (the accepted race
\* of ExecDropCache) expires, and later fills read the final row.
CacheConverges == <>[]CacheConsistent

\* Spec 8: after DelCache(k) succeeds, the next Take(k) observes a miss and
\* invokes load (unless Redis or the database fails it).
NextTakeLoads ==
    \A r \in Readers :
        (nextTake = r /\ rpc[r] = "idle" /\ val[r] # Failure) => loaded[r]
=============================================================================
