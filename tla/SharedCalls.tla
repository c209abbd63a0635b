----------------------------- MODULE SharedCalls -----------------------------
(***************************************************************************)
(* exclusiveGroup of lib/syncx/exclusivecall.go (ExclusiveCalls.Do/DoEx): *)
(* concurrent callers of one group, each with a key, share the result of   *)
(* the fn of the first caller that found no entry for the key.             *)
(*                                                                         *)
(* The n-th invocation of fn is call n; its result value is n itself, so   *)
(* a caller's result names the invocation it came from (0 is nil).  fn     *)
(* returns a value, returns an error, or panics; a panic leaves c.val and  *)
(* c.err at their zero values, runs the deferred cleanup and propagates in *)
(* the leader.  Each lock section of the code is one step.                 *)
(***************************************************************************)
EXTENDS Integers, Sequences, FiniteSets

CONSTANTS
    Procs,     \* goroutines calling DoEx
    Keys,      \* keys they use
    MaxCalls   \* bound: invocations of fn

ASSUME MaxCalls \in Nat \ {0}

Nil == 0
Outcomes == {"ok", "error", "panic"}

VARIABLES
    m,       \* eg.m: key -> call number, Nil when absent
    calls,   \* calls[c]: [key, wg (WaitGroup counter), val, err, returned]
    pc,      \* pc[p]: "idle", "lead" (running fn), "defer" (fn returned),
             \*        "release" (key deleted), "wait" (in c.wg.Wait), "done"
    key,     \* key[p]: the key of p's current call
    joined,  \* joined[p]: the call p leads or waits on
    ret      \* ret[p]: [val, fresh, err] of p's last return

vars == <<m, calls, pc, key, joined, ret>>

NoReturn == [val |-> Nil, fresh |-> FALSE, err |-> "none"]

\* A mutant of the barrier of new(call) + c.wg.Add(1) that forgets the Add.
newCallBarrierNoAdd == 0

\* A mutant that adds to the barrier twice.
newCallBarrierTwice == 2

\* new(call) followed by c.wg.Add(1).
newCallBarrier == 1

\* A mutant of register that never stores the call in eg.m.
registerNot(g, k, c) == g

\* eg.m[key] = c
register(g, k, c) == [g EXCEPT ![k] = c]

\* The call's fields after `c.val, c.err = fn()`: the assignment does not
\* happen when fn panics, so val and err keep their zero values.
fnResult(c, outcome) ==
    [calls[c] EXCEPT !.val = IF outcome = "ok" THEN c ELSE Nil,
                     !.err = IF outcome = "error" THEN "error" ELSE "nil",
                     !.returned = TRUE]

\* A mutant of c.wg.Done() that a missed cleanup path never runs.
wgDoneNot(call) == call

\* c.wg.Done()
wgDone(call) == [call EXCEPT !.wg = @ - 1]

-----------------------------------------------------------------------------
Init ==
    /\ m = [k \in Keys |-> Nil]
    /\ calls = <<>>
    /\ pc = [p \in Procs |-> "idle"]
    /\ key = [p \in Procs |-> CHOOSE k \in Keys : TRUE]
    /\ joined = [p \in Procs |-> Nil]
    /\ ret = [p \in Procs |-> NoReturn]

\* DoEx(k, fn) under eg.mu: an entry exists, so unlock and wait on it.
doExJoin(p, k) ==
    /\ pc[p] \in {"idle", "done"}
    /\ m[k] # Nil
    /\ pc' = [pc EXCEPT ![p] = "wait"]
    /\ key' = [key EXCEPT ![p] = k]
    /\ joined' = [joined EXCEPT ![p] = m[k]]
    /\ UNCHANGED <<m, calls, ret>>

\* DoEx(k, fn) under eg.mu: no entry, so makeCall inserts a new call with
\* its barrier, unlocks and runs fn.
doExLead(p, k) ==
    LET c == Len(calls) + 1 IN
    /\ pc[p] \in {"idle", "done"}
    /\ m[k] = Nil
    /\ Len(calls) < MaxCalls
    /\ calls' = Append(calls, [key |-> k, wg |-> newCallBarrier, val |-> Nil,
                               err |-> "nil", returned |-> FALSE])
    /\ m' = register(m, k, c)
    /\ pc' = [pc EXCEPT ![p] = "lead"]
    /\ key' = [key EXCEPT ![p] = k]
    /\ joined' = [joined EXCEPT ![p] = c]
    /\ UNCHANGED ret

\* fn returns (or panics) and its results are stored in the call.
fnReturns(p, outcome) ==
    /\ pc[p] = "lead"
    /\ calls' = [calls EXCEPT ![joined[p]] = fnResult(joined[p], outcome)]
    /\ pc' = [pc EXCEPT ![p] = "defer"]
    /\ ret' = [ret EXCEPT ![p] = [val |-> Nil, fresh |-> TRUE,
                                  err |-> IF outcome = "panic" THEN "panic" ELSE "none"]]
    /\ UNCHANGED <<m, key, joined>>

\* The deferred cleanup, first half: delete(eg.m, key) under eg.mu.
deferDelete(p) ==
    /\ pc[p] = "defer"
    /\ m' = [m EXCEPT ![key[p]] = Nil]
    /\ pc' = [pc EXCEPT ![p] = "release"]
    /\ UNCHANGED <<calls, key, joined, ret>>

\* The deferred cleanup, second half: c.wg.Done(); then makeCall returns
\* and DoEx returns c.val, true, c.err (or the panic goes on).
deferDone(p) ==
    LET c == joined[p] IN
    /\ pc[p] = "release"
    /\ calls' = [calls EXCEPT ![c] = wgDone(@)]
    /\ pc' = [pc EXCEPT ![p] = "done"]
    /\ ret' = IF ret[p].err = "panic" THEN ret
              ELSE [ret EXCEPT ![p] = [val |-> calls[c].val, fresh |-> TRUE,
                                       err |-> calls[c].err]]
    /\ UNCHANGED <<m, key, joined>>

\* c.wg.Wait() returns once the counter is zero; DoEx returns c.val,
\* false, c.err.
waitReturns(p) ==
    LET c == joined[p] IN
    /\ pc[p] = "wait"
    /\ calls[c].wg = 0
    /\ pc' = [pc EXCEPT ![p] = "done"]
    /\ ret' = [ret EXCEPT ![p] = [val |-> calls[c].val, fresh |-> FALSE,
                                  err |-> calls[c].err]]
    /\ UNCHANGED <<m, calls, key, joined>>

Next ==
    \E p \in Procs :
        \/ \E k \in Keys : doExJoin(p, k) \/ doExLead(p, k)
        \/ \E outcome \in Outcomes : fnReturns(p, outcome)
        \/ deferDelete(p) \/ deferDone(p) \/ waitReturns(p)

\* fn ends (every use in this repository does network I/O with a
\* deadline) and the goroutines are scheduled: each step a caller has
\* started is eventually taken.
Fairness ==
    \A p \in Procs :
        /\ WF_vars(\E outcome \in Outcomes : fnReturns(p, outcome))
        /\ WF_vars(deferDelete(p)) /\ WF_vars(deferDone(p))
        /\ WF_vars(waitReturns(p))

Spec == Init /\ [][Next]_vars
FairSpec == Spec /\ Fairness

-----------------------------------------------------------------------------
Running == {"lead", "defer", "release", "wait"}

\* Type invariant.
TypeOK ==
    /\ m \in [Keys -> 0..Len(calls)]
    /\ \A c \in DOMAIN calls : /\ calls[c].key \in Keys
                               /\ calls[c].wg \in 0..1
                               /\ calls[c].val \in {Nil, c}
                               /\ calls[c].err \in {"nil", "error"}
    /\ pc \in [Procs -> Running \cup {"idle", "done"}]
    /\ key \in [Procs -> Keys]
    /\ joined \in [Procs -> 0..Len(calls)]

\* At most one invocation of fn per key is in flight (spec 5, "Per SFGroup
\* key: at-most-one in-flight invocation"): no two leaders of one key run
\* fn at the same time.
OneFlightPerKey ==
    \A p, q \in Procs :
        (p # q /\ pc[p] = "lead" /\ pc[q] = "lead") => key[p] # key[q]

\* Every caller that returned as a follower (fresh = false) holds what the
\* leader's fn returned, never a value read before fn was done (spec 8:
\* all other callers receive the leader's result).
FollowersShareResult ==
    \A p \in Procs :
        (pc[p] = "done" /\ ~ret[p].fresh) =>
            /\ calls[joined[p]].returned
            /\ ret[p].val = calls[joined[p]].val
            /\ ret[p].err = calls[joined[p]].err

\* The assumption of Cache.Take's unchecked val.([]byte): a caller that
\* gets no error from DoEx also gets a value.
NilErrorHasValue ==
    \A p \in Procs : (pc[p] = "done" /\ ret[p].err = "nil") => ret[p].val # Nil

\* Every caller of DoEx returns: the leader's deferred Done releases every
\* follower waiting on the call.
EveryCallReturns ==
    \A p \in Procs : pc[p] \in Running ~> pc[p] = "done"
=============================================================================
