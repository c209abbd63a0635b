--------------------------- MODULE BreakerRegistry ---------------------------
(***************************************************************************)
(* The named-breaker registry of lib/breaker/breakers.go: do() looks the   *)
(* name up under the read lock and, on a miss, again under the write lock  *)
(* before it creates a default breaker; SetBreaker and NoBreakFor replace  *)
(* the entry.  Breakers are numbered by creation (instances[n] is the      *)
(* kind of breaker n); what a breaker does with the request is Breaker's.  *)
(***************************************************************************)
EXTENDS Integers, Sequences, FiniteSets

CONSTANTS
    Procs,           \* goroutines calling Do (or a sibling) once each
    Names,           \* breaker names
    MaxReplacements  \* bound: SetBreaker and NoBreakFor calls

VARIABLES
    breakers,   \* name -> breaker number, 0 when absent
    instances,  \* instances[n]: "default" (NewBreaker), "settings", "noop"
    pc,         \* pc[p]: "idle", "miss" (after RUnlock), "execute", "done"
    name,       \* name[p]: the name p asked for
    got,          \* got[p]: the breaker p executes with
    replacements  \* SetBreaker and NoBreakFor calls so far

vars == <<breakers, instances, pc, name, got, replacements>>

\* The entry for name n set to a new breaker of the given kind.
store(n, kind) ==
    /\ instances' = Append(instances, [kind |-> kind, name |-> n])
    /\ breakers' = [breakers EXCEPT ![n] = Len(instances) + 1]

\* A mutant of do's miss path that creates without looking again.
createOnMissNoRecheck(p) ==
    /\ store(name[p], "default")
    /\ got' = [got EXCEPT ![p] = Len(instances) + 1]

\* do's miss path under lock.Lock(): use the entry another caller stored
\* since the read lock was released, else create and store a default.
createOnMiss(p) ==
    IF breakers[name[p]] # 0
    THEN got' = [got EXCEPT ![p] = breakers[name[p]]] /\ UNCHANGED <<breakers, instances>>
    ELSE /\ store(name[p], "default")
         /\ got' = [got EXCEPT ![p] = Len(instances) + 1]

-----------------------------------------------------------------------------
Init ==
    /\ breakers = [n \in Names |-> 0]
    /\ instances = <<>>
    /\ pc = [p \in Procs |-> "idle"]
    /\ name = [p \in Procs |-> CHOOSE n \in Names : TRUE]
    /\ got = [p \in Procs |-> 0]
    /\ replacements = 0

\* do(name, execute): the lookup under lock.RLock().
lookup(p, n) ==
    /\ pc[p] = "idle"
    /\ name' = [name EXCEPT ![p] = n]
    /\ IF breakers[n] # 0
       THEN pc' = [pc EXCEPT ![p] = "execute"] /\ got' = [got EXCEPT ![p] = breakers[n]]
       ELSE pc' = [pc EXCEPT ![p] = "miss"] /\ UNCHANGED got
    /\ UNCHANGED <<breakers, instances, replacements>>

\* The miss path under lock.Lock().
miss(p) ==
    /\ pc[p] = "miss"
    /\ createOnMiss(p)
    /\ pc' = [pc EXCEPT ![p] = "execute"]
    /\ UNCHANGED <<name, replacements>>

\* execute(b): the breaker's Do runs the request and returns.
execute(p) ==
    /\ pc[p] = "execute"
    /\ pc' = [pc EXCEPT ![p] = "done"]
    /\ UNCHANGED <<breakers, instances, name, got, replacements>>

\* SetBreaker(settings) or NoBreakFor(name): a new breaker for the name.
replace(n, kind) ==
    /\ replacements < MaxReplacements
    /\ store(n, kind)
    /\ replacements' = replacements + 1
    /\ UNCHANGED <<pc, name, got>>

Next ==
    \/ \E p \in Procs : \/ \E n \in Names : lookup(p, n)
                        \/ miss(p) \/ execute(p)
    \/ \E n \in Names, kind \in {"settings", "noop"} : replace(n, kind)

Spec == Init /\ [][Next]_vars

-----------------------------------------------------------------------------
\* Type invariant.
TypeOK ==
    /\ breakers \in [Names -> 0..Len(instances)]
    /\ \A i \in DOMAIN instances :
          instances[i].kind \in {"default", "settings", "noop"} /\ instances[i].name \in Names
    /\ pc \in [Procs -> {"idle", "miss", "execute", "done"}]
    /\ got \in [Procs -> 0..Len(instances)]

\* Spec 5: the registry is "double-checked on miss to avoid creating
\* duplicates": however many callers miss the same name at once, do()
\* creates at most one default breaker per name, and every caller of a
\* name executes a breaker that was registered under it.
NoDuplicateBreaker ==
    /\ \A n \in Names :
          Cardinality({i \in DOMAIN instances :
                         instances[i] = [kind |-> "default", name |-> n]}) <= 1
    /\ \A p \in Procs : pc[p] = "execute" => instances[got[p]].name = name[p]
=============================================================================
