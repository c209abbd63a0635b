----------------------------- MODULE LockedCalls -----------------------------
(***************************************************************************)
(* lockedGroup of lib/syncx/lockedcall.go (LockedCalls.Do): callers of one *)
(* key run their fn one at a time.  A caller that finds the key taken      *)
(* waits on the holder's WaitGroup and starts over (goto begin).  Each     *)
(* lg.mu section of the code is one step; wg.Wait and wg.Done are steps of *)
(* their own.  The n-th makeCall creates WaitGroup n.                      *)
(***************************************************************************)
EXTENDS Integers, Sequences

CONSTANTS
    Procs,  \* goroutines calling Do, once each
    Keys,   \* keys they use
    None    \* model value: no holder

VARIABLES
    m,     \* lg.m: key -> WaitGroup number, 0 when absent
    wgs,   \* wgs[n]: [leader, counter] of WaitGroup n
    pc,    \* pc[p]: "idle", "begin", "wait", "fn", "delete", "release", "done"
    key,   \* key[p]: the key of p's call
    wg     \* wg[p]: the WaitGroup p leads or waits on

vars == <<m, wgs, pc, key, wg>>

\* A mutant of the lock section that makes the call without looking the
\* key up.
lockSectionNoCheck(p, k) ==
    LET n == Len(wgs) + 1 IN
    /\ wgs' = Append(wgs, [leader |-> p, counter |-> 1])
    /\ m' = [m EXCEPT ![k] = n]
    /\ pc' = [pc EXCEPT ![p] = "fn"]
    /\ wg' = [wg EXCEPT ![p] = n]

\* The lock section at begin: wait on the key's WaitGroup if the key is
\* taken, else makeCall's first half: a new WaitGroup, Add(1), store it.
lockSection(p, k) ==
    IF m[k] # 0
    THEN /\ pc' = [pc EXCEPT ![p] = "wait"]
         /\ wg' = [wg EXCEPT ![p] = m[k]]
         /\ UNCHANGED <<m, wgs>>
    ELSE LET n == Len(wgs) + 1 IN
         /\ wgs' = Append(wgs, [leader |-> p, counter |-> 1])
         /\ m' = [m EXCEPT ![k] = n]
         /\ pc' = [pc EXCEPT ![p] = "fn"]
         /\ wg' = [wg EXCEPT ![p] = n]

-----------------------------------------------------------------------------
Init ==
    /\ m = [k \in Keys |-> 0]
    /\ wgs = <<>>
    /\ pc = [p \in Procs |-> "idle"]
    /\ key = [p \in Procs |-> CHOOSE k \in Keys : TRUE]
    /\ wg = [p \in Procs |-> 0]

\* Do(key, fn): the first pass of begin.
Do(p, k) ==
    /\ pc[p] = "idle"
    /\ key' = [key EXCEPT ![p] = k]
    /\ lockSection(p, k)

\* goto begin: another pass after the wait.
begin(p) ==
    /\ pc[p] = "begin"
    /\ lockSection(p, key[p])
    /\ UNCHANGED key

\* wg.Wait() returns once the holder's Done ran.
waitReturns(p) ==
    /\ pc[p] = "wait"
    /\ wgs[wg[p]].counter = 0
    /\ pc' = [pc EXCEPT ![p] = "begin"]
    /\ UNCHANGED <<m, wgs, key, wg>>

\* fn() returns; the deferred function starts.
fnReturns(p) ==
    /\ pc[p] = "fn"
    /\ pc' = [pc EXCEPT ![p] = "delete"]
    /\ UNCHANGED <<m, wgs, key, wg>>

\* A mutant of the deferred delete that leaves the key in lg.m.
deferDeleteNot(p) ==
    /\ pc[p] = "delete"
    /\ pc' = [pc EXCEPT ![p] = "release"]
    /\ UNCHANGED <<m, wgs, key, wg>>

\* The deferred lock section: delete(lg.m, key).
deferDelete(p) ==
    /\ pc[p] = "delete"
    /\ m' = [m EXCEPT ![key[p]] = 0]
    /\ pc' = [pc EXCEPT ![p] = "release"]
    /\ UNCHANGED <<wgs, key, wg>>

\* Then wg.Done(), and Do returns fn's result.
deferDone(p) ==
    /\ pc[p] = "release"
    /\ wgs' = [wgs EXCEPT ![wg[p]].counter = @ - 1]
    /\ pc' = [pc EXCEPT ![p] = "done"]
    /\ UNCHANGED <<m, key, wg>>

Next ==
    \E p \in Procs :
        \/ \E k \in Keys : Do(p, k)
        \/ begin(p) \/ waitReturns(p) \/ fnReturns(p)
        \/ deferDelete(p) \/ deferDone(p)

\* The goroutines are scheduled and fn ends: every step a caller can take
\* is eventually taken.
Fairness ==
    \A p \in Procs :
        /\ WF_vars(begin(p)) /\ WF_vars(waitReturns(p)) /\ WF_vars(fnReturns(p))
        /\ WF_vars(deferDelete(p)) /\ WF_vars(deferDone(p))

Spec == Init /\ [][Next]_vars
FairSpec == Spec /\ Fairness

-----------------------------------------------------------------------------
\* The refinement mapping: a caller in fn or in the deferred delete holds
\* its key; the key's holder is the leader of the WaitGroup stored in lg.m.


AbsPc ==
    [p \in Procs |->
        CASE pc[p] \in {"begin", "wait"}  -> "acquiring"
          [] pc[p] \in {"fn", "delete"}   -> "critical"
          [] pc[p] = "release"            -> "leaving"
          [] OTHER                        -> pc[p]]

Abs == INSTANCE KeyedLock WITH
          owner <- [k \in Keys |-> IF m[k] = 0 THEN None ELSE wgs[m[k]].leader],
          apc <- AbsPc, akey <- key

\* Type invariant.
TypeOK ==
    /\ m \in [Keys -> 0..Len(wgs)]
    /\ \A n \in DOMAIN wgs : wgs[n].leader \in Procs /\ wgs[n].counter \in 0..1
    /\ pc \in [Procs -> {"idle", "begin", "wait", "fn", "delete", "release", "done"}]
    /\ key \in [Procs -> Keys]
    /\ wg \in [Procs -> 0..Len(wgs)]

\* Do serialises the callers of a key (spec 4.4): lockedGroup implements
\* a lock per key, whatever order the lock sections, waits and deferred
\* delete and Done of the callers take.
RefinesKeyedLock == Abs!ASpec

\* Every call of Do returns: the holder's deferred delete and Done let
\* each waiter start over, and one of them takes the key.
EveryLockedCallReturns == \A p \in Procs : pc[p] # "idle" ~> pc[p] = "done"
=============================================================================
