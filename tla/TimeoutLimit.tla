---------------------------- MODULE TimeoutLimit ----------------------------
(***************************************************************************)
(* TimeoutLimit of lib/syncx/timeoutlimit.go with its Cond (cond.go) and   *)
(* Limit, as mongo.Model uses it: TakeSession borrows with a timeout, the  *)
(* caller works with the session, PutSession returns it.                   *)
(*                                                                         *)
(* Limit (NewLimit, TryBorrow, Return, ErrReturn) is not among the sources *)
(* and is taken from its test: a counter of at most n borrows.  Cond's     *)
(* signal channel is unbuffered, so Signal hands its token to a goroutine  *)
(* blocked in WaitWithTimeout's select, or to nobody.  The timer is not    *)
(* measured: a wait may time out at any moment, and a wait ended by a      *)
(* signal has time left unless the timer was due as well.                  *)
(***************************************************************************)
EXTENDS Integers, FiniteSets

CONSTANTS
    Procs,  \* goroutines calling TakeSession then PutSession, once each
    Slots   \* n of NewTimeoutLimit(n) (the model's concurrency option)

ASSUME Slots \in Nat \ {0}

VARIABLES
    count,  \* the Limit's borrows outstanding
    pc      \* pc[p]: "idle", "loop" (about to wait), "waiting" (in the
            \* select), "woken" (got the signal), "holding", "timedOut", "done"

vars == <<count, pc>>

\* A mutant of Limit.TryBorrow that admits one borrow too many.
tryBorrowOffByOne(c) == c <= Slots

\* Limit.TryBorrow: succeeds while fewer than n are out.
tryBorrow(c) == c < Slots

\* A mutant of Limit.Return that gives nothing back.
limitReturnNot(c) == c

\* Limit.Return: ErrReturn (and no change) when nothing is out.
limitReturn(c) == IF c = 0 THEN c ELSE c - 1

\* Cond.Signal: select with a default; the token goes to one goroutine
\* waiting in the select, if there is one, else it is dropped.
signal(pcs) ==
    LET waiting == {q \in Procs : pcs[q] = "waiting"}
    IN  IF waiting = {} THEN {pcs}
        ELSE {[pcs EXCEPT ![q] = "woken"] : q \in waiting}

-----------------------------------------------------------------------------
Init ==
    /\ count = 0
    /\ pc = [p \in Procs |-> "idle"]

\* Borrow: TryBorrow first; on failure enter the loop.
Borrow(p) ==
    /\ pc[p] = "idle"
    /\ IF tryBorrow(count)
       THEN count' = count + 1 /\ pc' = [pc EXCEPT ![p] = "holding"]
       ELSE pc' = [pc EXCEPT ![p] = "loop"] /\ UNCHANGED count

\* The loop calls cond.WaitWithTimeout(timeout) and blocks in its select.
waitWithTimeout(p) ==
    /\ pc[p] = "loop"
    /\ pc' = [pc EXCEPT ![p] = "waiting"]
    /\ UNCHANGED count

\* The timer fires first: (0, false), so remainTimeout <= 0: ErrTimeout.
timerFires(p) ==
    /\ pc[p] = "waiting"
    /\ pc' = [pc EXCEPT ![p] = "timedOut"]
    /\ UNCHANGED count

\* After the signal: ok && TryBorrow() returns nil; else the loop goes
\* round again while time remains, and returns ErrTimeout when none does.
woken(p) ==
    /\ pc[p] = "woken"
    /\ IF tryBorrow(count)
       THEN count' = count + 1 /\ pc' = [pc EXCEPT ![p] = "holding"]
       ELSE /\ \E next \in {"loop", "timedOut"} : pc' = [pc EXCEPT ![p] = next]
            /\ UNCHANGED count

\* PutSession: limit.Return (ErrReturn only logged), then cond.Signal.
Return(p) ==
    /\ pc[p] = "holding"
    /\ count' = limitReturn(count)
    /\ pc' \in signal([pc EXCEPT ![p] = "done"])

Next ==
    \E p \in Procs :
        \/ Borrow(p) \/ waitWithTimeout(p) \/ timerFires(p) \/ woken(p) \/ Return(p)

\* Goroutines are scheduled and a waiter's timer fires.
Fairness ==
    \A p \in Procs :
        /\ WF_vars(waitWithTimeout(p)) /\ WF_vars(timerFires(p))
        /\ WF_vars(woken(p)) /\ WF_vars(Return(p))

Spec == Init /\ [][Next]_vars
FairSpec == Spec /\ Fairness

-----------------------------------------------------------------------------
\* Type invariant.
TypeOK ==
    /\ count \in 0..Slots
    /\ pc \in [Procs -> {"idle", "loop", "waiting", "woken", "holding", "timedOut", "done"}]

\* The Limit counts exactly the sessions out: every successful Borrow is
\* matched by one count, every Return gives back one, never more than n.
BorrowsMatchHolders == count = Cardinality({p \in Procs : pc[p] = "holding"})

\* Spec 5: Borrow(d) waits "waking on any release": a borrower gives up
\* with ErrTimeout only while no slot is free, counting a slot freed by a
\* Return whose signal woke another borrower as that borrower's.
TimeoutOnlyWhenFull ==
    [][\A p \in Procs :
         (pc[p] # "timedOut" /\ pc'[p] = "timedOut") =>
             count + Cardinality({q \in Procs : pc[q] = "woken"}) >= Slots]_vars
=============================================================================
