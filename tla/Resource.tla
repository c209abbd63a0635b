------------------------------ MODULE Resource ------------------------------
(***************************************************************************)
(* Resource of lib/syncx/resource.go: a reference count whose final Clean  *)
(* runs the cleanup.  Holders call Use and, when it succeeded, Clean; each *)
(* method runs under rc.lock, so each is one step.                         *)
(***************************************************************************)
EXTENDS Integers

CONSTANTS Procs  \* holders, each calling Use then Clean once

VARIABLES
    ref,       \* rc.ref
    cleaned,   \* rc.cleaned
    cleanups,  \* times rc.clean() ran
    pc         \* pc[p]: "idle", "holding", "refused" (ErrUseOfCleaned), "released"

vars == <<ref, cleaned, cleanups, pc>>

\* A mutant of Clean's test that cleans up while one holder remains.
lastReleaseOffByOne(r) == r <= 1

\* Clean's test after the decrement: the last holder is gone.
lastRelease(r) == r = 0

Init ==
    /\ ref = 0
    /\ cleaned = FALSE
    /\ cleanups = 0
    /\ pc = [p \in Procs |-> "idle"]

\* Use: ErrUseOfCleaned once cleaned, else one more reference.
Use(p) ==
    /\ pc[p] = "idle"
    /\ IF cleaned
       THEN pc' = [pc EXCEPT ![p] = "refused"] /\ UNCHANGED ref
       ELSE ref' = ref + 1 /\ pc' = [pc EXCEPT ![p] = "holding"]
    /\ UNCHANGED <<cleaned, cleanups>>

\* Clean: nothing once cleaned; else drop the reference and run the
\* cleanup when it was the last.
Clean(p) ==
    /\ pc[p] = "holding"
    /\ pc' = [pc EXCEPT ![p] = "released"]
    /\ IF cleaned THEN UNCHANGED <<ref, cleaned, cleanups>>
       ELSE /\ ref' = ref - 1
            /\ IF lastRelease(ref - 1)
               THEN cleaned' = TRUE /\ cleanups' = cleanups + 1
               ELSE UNCHANGED <<cleaned, cleanups>>

Next == \E p \in Procs : Use(p) \/ Clean(p)

Spec == Init /\ [][Next]_vars

-----------------------------------------------------------------------------
\* Type invariant.
TypeOK ==
    /\ ref \in Int /\ cleaned \in BOOLEAN /\ cleanups \in Nat
    /\ pc \in [Procs -> {"idle", "holding", "refused", "released"}]

\* Spec 5: "the final Clean runs the cleanup exactly once": the cleanup
\* never runs while a holder still holds the resource, runs at most once,
\* and has run as soon as every holder that got it has let it go.
CleanupOnceAtLastRelease ==
    /\ cleanups = IF cleaned THEN 1 ELSE 0
    /\ cleaned => \A p \in Procs : pc[p] # "holding"
    /\ ((\E p \in Procs : pc[p] = "released") /\ (\A p \in Procs : pc[p] # "holding"))
           => cleaned
=============================================================================
