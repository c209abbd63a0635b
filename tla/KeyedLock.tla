------------------------------ MODULE KeyedLock ------------------------------
(***************************************************************************)
(* What LockedCalls.Do promises (spec 4.4): a lock per key.  A caller of   *)
(* key k either takes k at once or first waits for it; it then runs its fn *)
(* alone among the callers of k, gives k up and returns.                   *)
(***************************************************************************)
CONSTANTS Procs, Keys, None

ASSUME None \notin Procs

VARIABLES
    owner,  \* owner[k]: the caller holding key k, or None
    apc,    \* apc[p]: "idle", "acquiring", "critical", "leaving", "done"
    akey    \* akey[p]: the key of p's call

avars == <<owner, apc, akey>>

AInit ==
    /\ owner = [k \in Keys |-> None]
    /\ apc = [p \in Procs |-> "idle"]
    /\ akey \in [Procs -> Keys]

\* The call finds k held and waits.
AWait(p, k) ==
    /\ apc[p] = "idle"
    /\ apc' = [apc EXCEPT ![p] = "acquiring"]
    /\ akey' = [akey EXCEPT ![p] = k]
    /\ UNCHANGED owner

\* The caller takes the free key, at once or after waiting.
AAcquire(p, k) ==
    /\ \/ apc[p] = "idle"
       \/ apc[p] = "acquiring" /\ akey[p] = k
    /\ owner[k] = None
    /\ owner' = [owner EXCEPT ![k] = p]
    /\ apc' = [apc EXCEPT ![p] = "critical"]
    /\ akey' = [akey EXCEPT ![p] = k]

\* fn is done: the key is given up.
ARelease(p) ==
    /\ apc[p] = "critical"
    /\ owner' = [owner EXCEPT ![akey[p]] = None]
    /\ apc' = [apc EXCEPT ![p] = "leaving"]
    /\ UNCHANGED akey

\* The call returns.
AReturn(p) ==
    /\ apc[p] = "leaving"
    /\ apc' = [apc EXCEPT ![p] = "done"]
    /\ UNCHANGED <<owner, akey>>

ANext ==
    \E p \in Procs :
        \/ \E k \in Keys : AWait(p, k) \/ AAcquire(p, k)
        \/ ARelease(p) \/ AReturn(p)

ASpec == AInit /\ [][ANext]_avars
=============================================================================
