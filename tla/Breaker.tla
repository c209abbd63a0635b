------------------------------ MODULE Breaker ------------------------------
(***************************************************************************)
(* The circuit breaker of lib/breaker/breaker.go: a three-state machine    *)
(* (closed, half-open, open) guarded by one mutex, shared by concurrent    *)
(* callers of doReq (Do, DoWithAcceptable, DoWithFallback...) and of the   *)
(* two-step form (TwoStepCircuitBreaker.Allow and its done callback).      *)
(*                                                                         *)
(* Each caller is a process that runs beforeRequest, then the guarded      *)
(* request, then afterRequest with the generation it captured.  Both       *)
(* halves hold the breaker mutex, so each is one atomic step.  The request *)
(* itself runs outside the lock, so any number of outcomes of any          *)
(* generation can arrive in any order.                                     *)
(*                                                                         *)
(* Time is abstracted to the position of the breaker's expiry relative to  *)
(* now: "zero" (time.Time{}), "future" or "past".  The environment step    *)
(* TimePasses moves a future expiry into the past.                         *)
(***************************************************************************)
EXTENDS Integers, FiniteSets

CONSTANTS
    Procs,            \* concurrent callers of one breaker
    MaxRequests,      \* cb.maxRequests (probes admitted while half-open)
    FailuresToBreak,  \* defaultConsecutiveFailuresToBreak of readyToTrip
    MaxCount          \* bound: requests admitted in one generation

ASSUME MaxRequests \in Nat \ {0}
ASSUME FailuresToBreak \in Nat
ASSUME MaxCount \in Nat /\ MaxCount > FailuresToBreak

StateClosed   == "closed"
StateHalfOpen == "halfopen"
StateOpen     == "open"
States == {StateClosed, StateHalfOpen, StateOpen}

VARIABLES
    cb,            \* [state, generation, counts, expiry] of the CircuitBreaker
    pc,            \* pc[p]: "idle" or "running" (between before/afterRequest)
    gen,           \* gen[p]: the generation p captured in beforeRequest
    admittedInGen  \* history: requests admitted in the current generation

vars == <<cb, pc, gen, admittedInGen>>

CountFields == {"requests", "totalSuccesses", "totalFailures",
                "consecutiveSuccesses", "consecutiveFailures"}

\* Counts.clear
countsClear == [f \in CountFields |-> 0]

\* Counts.onRequest
countsOnRequest(c) == [c EXCEPT !.requests = @ + 1]

\* Counts.onSuccess
countsOnSuccess(c) ==
    [c EXCEPT !.totalSuccesses = @ + 1,
              !.consecutiveSuccesses = @ + 1,
              !.consecutiveFailures = 0]

\* A mutant of Counts.onFailure that forgets TotalFailures.
countsOnFailureNoTotal(c) ==
    [c EXCEPT !.consecutiveFailures = @ + 1,
              !.consecutiveSuccesses = 0]

\* Counts.onFailure
countsOnFailure(c) ==
    [c EXCEPT !.totalFailures = @ + 1,
              !.consecutiveFailures = @ + 1,
              !.consecutiveSuccesses = 0]

\* readyToTrip: default trip condition, strictly more than the threshold.
readyToTrip(c) == c.consecutiveFailures > FailuresToBreak

\* toNewGeneration: bump the generation, clear the counts and set the
\* expiry for the (new) state.  withSettings never leaves interval at 0,
\* so a closed breaker always gets a future expiry.
toNewGeneration(b) ==
    [b EXCEPT !.generation = @ + 1,
              !.counts = countsClear,
              !.expiry = IF b.state = StateHalfOpen THEN "zero" ELSE "future"]

\* setState: no-op if already in the state, else a new generation.
\* onStateChange is nil for every breaker the library creates.
setState(b, s) ==
    IF b.state = s THEN b ELSE toNewGeneration([b EXCEPT !.state = s])

\* currentState: closed breakers start a new generation when the interval
\* has passed; open breakers become half-open when the timeout has passed.
currentState(b) ==
    CASE b.state = StateClosed /\ b.expiry = "past" -> toNewGeneration(b)
      [] b.state = StateOpen /\ b.expiry = "past"   -> setState(b, StateHalfOpen)
      [] OTHER                                       -> b

\* A mutant of rejects: the half-open quota checked with > instead of >=.
rejectsOffByOne(b) ==
    \/ b.state = StateOpen
    \/ b.state = StateHalfOpen /\ b.counts.requests > MaxRequests

\* The two early returns of beforeRequest: ErrOpenState, ErrTooManyRequests.
rejects(b) ==
    \/ b.state = StateOpen
    \/ b.state = StateHalfOpen /\ b.counts.requests >= MaxRequests

\* A mutant of probesSucceeded that needs one success too many.
probesSucceededOffByOne(c) == c.consecutiveSuccesses > MaxRequests

\* The condition under which a half-open breaker closes again.
probesSucceeded(c) == c.consecutiveSuccesses >= MaxRequests

\* onSuccess (of the CircuitBreaker, holding the mutex)
onSuccess(b) ==
    CASE b.state = StateClosed ->
            [b EXCEPT !.counts = countsOnSuccess(@)]
      [] b.state = StateHalfOpen ->
            LET c == [b EXCEPT !.counts = countsOnSuccess(@)]
            IN  IF probesSucceeded(c.counts) THEN setState(c, StateClosed) ELSE c
      [] OTHER -> b

\* onFailure (of the CircuitBreaker, holding the mutex)
onFailure(b) ==
    CASE b.state = StateClosed ->
            LET c == [b EXCEPT !.counts = countsOnFailure(@)]
            IN  IF readyToTrip(c.counts) THEN setState(c, StateOpen) ELSE c
      [] b.state = StateHalfOpen -> setState(b, StateOpen)
      [] OTHER -> b

stale(b, before) == b.generation # before

\* The history variable after a step that leads from cb to b and admits
\* `admits` requests.
nextAdmitted(b, admits) ==
    (IF b.generation = cb.generation THEN admittedInGen ELSE 0) + admits

-----------------------------------------------------------------------------
Init ==
    \* NewBreaker: withSettings, then toNewGeneration from the zero value.
    /\ cb = toNewGeneration([state |-> StateClosed, generation |-> 0,
                             counts |-> countsClear, expiry |-> "zero"])
    /\ pc = [p \in Procs |-> "idle"]
    /\ gen = [p \in Procs |-> 0]
    /\ admittedInGen = 0

\* beforeRequest under the mutex, rejecting: the state refresh of
\* currentState persists, the caller gets ErrOpenState or
\* ErrTooManyRequests (and runs its fallback, if any).
beforeRequestRejected(p) ==
    LET b == currentState(cb) IN
    /\ pc[p] = "idle"
    /\ rejects(b)
    /\ cb' = b
    /\ admittedInGen' = nextAdmitted(b, 0)
    /\ UNCHANGED <<pc, gen>>

\* beforeRequest under the mutex, admitting: count the request and hand
\* the current generation to the caller, which then runs req().
beforeRequestAdmitted(p) ==
    LET b == currentState(cb) IN
    /\ pc[p] = "idle"
    /\ ~rejects(b)
    /\ b.counts.requests < MaxCount
    /\ cb' = [b EXCEPT !.counts = countsOnRequest(@)]
    /\ pc' = [pc EXCEPT ![p] = "running"]
    /\ gen' = [gen EXCEPT ![p] = b.generation]
    /\ admittedInGen' = nextAdmitted(b, 1)

\* req() returned (or panicked) and afterRequest runs under the mutex;
\* success is acceptable(err), false for a panic.
afterRequest(p, success) ==
    LET b == currentState(cb) IN
    /\ pc[p] = "running"
    /\ cb' = CASE stale(b, gen[p]) -> b
               [] success          -> onSuccess(b)
               [] OTHER            -> onFailure(b)
    /\ pc' = [pc EXCEPT ![p] = "idle"]
    /\ admittedInGen' = nextAdmitted(cb', 0)
    /\ UNCHANGED gen

\* The wall clock passes the breaker's expiry.
TimePasses ==
    /\ cb.expiry = "future"
    /\ cb' = [cb EXCEPT !.expiry = "past"]
    /\ UNCHANGED <<pc, gen, admittedInGen>>

Next ==
    \/ \E p \in Procs :
          \/ beforeRequestRejected(p)
          \/ beforeRequestAdmitted(p)
          \/ \E success \in BOOLEAN : afterRequest(p, success)
    \/ TimePasses

\* Every admitted request eventually returns: the RPC client installs a
\* deadline on every call (buildClientTimeoutInterceptor), so req() ends.
Fairness == \A p \in Procs : WF_vars(\E success \in BOOLEAN : afterRequest(p, success))

Spec == Init /\ [][Next]_vars
FairSpec == Spec /\ Fairness

-----------------------------------------------------------------------------
\* Type invariant; the counters also keep their consecutive runs within
\* their totals, as the Counts methods maintain them.
TypeOK ==
    /\ cb.state \in States
    /\ cb.generation \in Nat
    /\ cb.counts \in [CountFields -> 0..MaxCount]
    /\ cb.counts.consecutiveSuccesses <= cb.counts.totalSuccesses
    /\ cb.counts.consecutiveFailures <= cb.counts.totalFailures
    /\ cb.expiry \in {"zero", "future", "past"}
    /\ pc \in [Procs -> {"idle", "running"}]
    /\ gen \in [Procs -> Nat]
    /\ admittedInGen \in Nat

HalfOpenAdmissionBound ==
    cb.state = StateHalfOpen => admittedInGen <= MaxRequests

\* A half-open breaker whose probe quota is used up does not stay
\* half-open: once its probes return, onSuccess closes it or onFailure
\* opens it (otherwise it would reject every request forever).
ProbesResolve ==
    (cb.state = StateHalfOpen /\ cb.counts.requests = MaxRequests)
        ~> cb.state # StateHalfOpen
=============================================================================
