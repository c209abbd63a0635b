---------------------------- MODULE MCComponents ----------------------------
(***************************************************************************)
(* The components that do not depend on one another, side by side in one   *)
(* model: the circuit breaker and the named-breaker registry, the          *)
(* single-flight and locked call groups, the bounded borrow with its       *)
(* condition, the reference-counted resource, the etcd publisher, the      *)
(* periodical executor, the routine pool and the sql connection manager.  *)
(* The initial state picks one component and only that one moves, so the  *)
(* reachable states are those of the ten models checked one after the    *)
(* other.                                                                  *)
(***************************************************************************)
EXTENDS Integers, Sequences, TLC

CONSTANTS
    Procs, Keys, Names, None,
    MaxRequests, FailuresToBreak, MaxCount,  \* Breaker
    MaxCalls,                                \* SharedCalls
    MaxReplacements,                         \* BreakerRegistry
    Slots,                                   \* TimeoutLimit
    MaxTriggers, MaxPauses,                  \* Publisher
    MaxTasks, FlushAt,                       \* PeriodicalExecutor
    MaxIdle, PoolTasks,                      \* RoutinePool
    SqlProcs, Servers,                       \* ConnManager
    MaxConns, ConnCalls

VARIABLES
    comp,
    bCb, bPc, bGen, bAdmitted,
    rBreakers, rInstances, rPc, rName, rGot, rReplacements,
    sM, sCalls, sPc, sKey, sJoined, sRet,
    lM, lWgs, lPc, lKey, lWg,
    tCount, tPc,
    xRef, xCleaned, xCleanups, xPc,
    pS, pQuit, pPausing, pResuming, pPauses, pTriggers, pProc, pStarted,
    eContainer, eBatch, eExecuted, eNextTask, ePc, eCommanded,
    oPool, oWpc, oReused, oTask, oRan, oSubmitted, oCpc, oTarget, oCtask,
    csM, csCalls, csStores, csConns, csOnce, csPc, csKey, csJoined, csRet, csCrashed

\* The variables of each component.
bVars == <<bCb, bPc, bGen, bAdmitted>>
rVars == <<rBreakers, rInstances, rPc, rName, rGot, rReplacements>>
sVars == <<sM, sCalls, sPc, sKey, sJoined, sRet>>
lVars == <<lM, lWgs, lPc, lKey, lWg>>
tVars == <<tCount, tPc>>
xVars == <<xRef, xCleaned, xCleanups, xPc>>
pVars == <<pS, pQuit, pPausing, pResuming, pPauses, pTriggers, pProc, pStarted>>
eVars == <<eContainer, eBatch, eExecuted, eNextTask, ePc, eCommanded>>
oVars == <<oPool, oWpc, oReused, oTask, oRan, oSubmitted, oCpc, oTarget, oCtask>>
csVars == <<csM, csCalls, csStores, csConns, csOnce, csPc, csKey, csJoined, csRet, csCrashed>>

compVars == <<bVars, rVars, sVars, lVars, tVars, xVars, pVars, eVars, oVars, csVars>>

\* The components.
Components == {"breaker", "registry", "sharedCalls", "lockedCalls", "timeoutLimit",
               "resource", "publisher", "executor", "routinePool", "sqlConns"}

allVars == <<comp, compVars>>

B  == INSTANCE Breaker WITH cb <- bCb, pc <- bPc, gen <- bGen, admittedInGen <- bAdmitted
R  == INSTANCE BreakerRegistry WITH breakers <- rBreakers, instances <- rInstances,
         pc <- rPc, name <- rName, got <- rGot, replacements <- rReplacements
SC == INSTANCE SharedCalls WITH m <- sM, calls <- sCalls, pc <- sPc, key <- sKey,
         joined <- sJoined, ret <- sRet
LC == INSTANCE LockedCalls WITH m <- lM, wgs <- lWgs, pc <- lPc, key <- lKey, wg <- lWg
TL == INSTANCE TimeoutLimit WITH count <- tCount, pc <- tPc
RS == INSTANCE Resource WITH ref <- xRef, cleaned <- xCleaned, cleanups <- xCleanups, pc <- xPc
P  == INSTANCE Publisher WITH s <- pS, quit <- pQuit, pausing <- pPausing,
         resuming <- pResuming, pauses <- pPauses, triggers <- pTriggers,
         proc <- pProc, started <- pStarted
E  == INSTANCE PeriodicalExecutor WITH container <- eContainer, batch <- eBatch,
         executed <- eExecuted, nextTask <- eNextTask, pc <- ePc, commanded <- eCommanded
RP == INSTANCE RoutinePool WITH Callers <- Procs, MaxTasks <- PoolTasks, pool <- oPool,
         wpc <- oWpc, reused <- oReused, task <- oTask, ran <- oRan,
         submitted <- oSubmitted, cpc <- oCpc, target <- oTarget, ctask <- oCtask
CS == INSTANCE ConnManager WITH Procs <- SqlProcs, Kind <- "sql", MaxCalls <- ConnCalls,
         m <- csM, calls <- csCalls, stores <- csStores, conns <- csConns, once <- csOnce,
         pc <- csPc, key <- csKey, joined <- csJoined, ret <- csRet, crashed <- csCrashed

Init ==
    /\ comp \in Components
    /\ B!Init /\ R!Init /\ SC!Init /\ LC!Init /\ TL!Init /\ RS!Init /\ P!Init
    /\ E!Init /\ RP!Init /\ CS!Init

\* A step of component c: the others keep their variables (UNCHANGED of
\* a tuple written out, so that TLC can assign the primed variables).
Step(c, A, others) ==
    /\ comp = c
    /\ A
    /\ UNCHANGED others
    /\ UNCHANGED comp

breakerStep(A) == Step("breaker", A,
    <<rVars, sVars, lVars, tVars, xVars, pVars, eVars, oVars, csVars>>)
registryStep(A) == Step("registry", A,
    <<bVars, sVars, lVars, tVars, xVars, pVars, eVars, oVars, csVars>>)
sharedCallsStep(A) == Step("sharedCalls", A,
    <<bVars, rVars, lVars, tVars, xVars, pVars, eVars, oVars, csVars>>)
lockedCallsStep(A) == Step("lockedCalls", A,
    <<bVars, rVars, sVars, tVars, xVars, pVars, eVars, oVars, csVars>>)
timeoutLimitStep(A) == Step("timeoutLimit", A,
    <<bVars, rVars, sVars, lVars, xVars, pVars, eVars, oVars, csVars>>)
resourceStep(A) == Step("resource", A,
    <<bVars, rVars, sVars, lVars, tVars, pVars, eVars, oVars, csVars>>)
publisherStep(A) == Step("publisher", A,
    <<bVars, rVars, sVars, lVars, tVars, xVars, eVars, oVars, csVars>>)
executorStep(A) == Step("executor", A,
    <<bVars, rVars, sVars, lVars, tVars, xVars, pVars, oVars, csVars>>)
routinePoolStep(A) == Step("routinePool", A,
    <<bVars, rVars, sVars, lVars, tVars, xVars, pVars, eVars, csVars>>)
sqlConnsStep(A) == Step("sqlConns", A,
    <<bVars, rVars, sVars, lVars, tVars, xVars, pVars, eVars, oVars>>)

Next ==
    \/ breakerStep(B!Next)
    \/ registryStep(R!Next)
    \/ sharedCallsStep(SC!Next)
    \/ lockedCallsStep(LC!Next)
    \/ timeoutLimitStep(TL!Next)
    \/ resourceStep(RS!Next)
    \/ publisherStep(P!Next)
    \/ executorStep(E!Next)
    \/ routinePoolStep(RP!Next)
    \/ sqlConnsStep(CS!Next)

\* The executor's ticker runs from NewPeriodicalExecutor on: its tick is
\* enabled in the initial state, so its fairness is stated for the
\* behaviours in which the executor is picked.
executorTick == executorStep(E!tick)

\* Each component's own fairness.  Every other action made fair needs a
\* step of its component to become enabled, so in the behaviours where
\* another component runs it is never enabled and constrains nothing.
Fairness ==
    /\ B!Fairness /\ SC!Fairness /\ LC!Fairness /\ TL!Fairness /\ P!Fairness
    /\ E!StepFairness /\ WF_allVars(executorTick) /\ RP!Fairness
    /\ CS!Fairness

FairSpec == Init /\ [][Next]_allVars /\ Fairness

\* Breaker generations are only compared for equality: states that differ
\* by a shift of every generation number are identified.
View ==
    <<comp, [bCb EXCEPT !.generation = 0], bPc,
      [p \in Procs |-> IF bPc[p] = "running" THEN bGen[p] = bCb.generation ELSE TRUE],
      bAdmitted, Tail(compVars)>>

-----------------------------------------------------------------------------
\* Type invariant of every component.
TypeOK ==
    /\ B!TypeOK /\ R!TypeOK /\ SC!TypeOK /\ LC!TypeOK /\ TL!TypeOK /\ RS!TypeOK /\ P!TypeOK
    /\ E!TypeOK /\ RP!TypeOK /\ CS!TypeOK

HalfOpenAdmissionBound == B!HalfOpenAdmissionBound

\* Breaker: a half-open breaker whose quota is used up closes or opens
\* once its probes return.
ProbesResolve == B!ProbesResolve

\* Registry: the double-checked miss path of do() creates at most one
\* default breaker per name, and callers execute a breaker of their name.
NoDuplicateBreaker == R!NoDuplicateBreaker

\* Single flight: at most one fn invocation per key is in flight.
OneFlightPerKey == SC!OneFlightPerKey

\* Single flight: a follower returns the result of the leader's fn.
FollowersShareResult == SC!FollowersShareResult

\* Single flight: every DoEx caller returns.
EveryCallReturns == SC!EveryCallReturns

\* Locked calls: lockedGroup.Do implements a lock per key (KeyedLock).
RefinesKeyedLock == LC!RefinesKeyedLock

\* Locked calls: every Do returns.
EveryLockedCallReturns == LC!EveryLockedCallReturns

\* Bounded borrow: the Limit counts exactly the sessions out.
BorrowsMatchHolders == TL!BorrowsMatchHolders

\* Resource: the cleanup runs once, at the last holder's Clean.
CleanupOnceAtLastRelease == RS!CleanupOnceAtLastRelease

\* Publisher: only the current lease is ever kept alive.
OneRenewedLease == P!OneRenewedLease

\* Publisher: after Stop or a signal the keys leave the store.
StopRemovesKey == P!StopRemovesKey

\* Executor: with ForceFlush racing the background flush, each task added
\* is in the container, in one batch, or executed once.
TasksAccounted == E!TasksAccounted

\* Executor: every task added is eventually executed.
EveryTaskExecuted == E!EveryTaskExecuted

\* Executor: an Add blocked on the commander eventually returns.
EveryAddReturns == E!EveryAddReturns

\* Routine pool: the channels in workerPool are those of distinct parked
\* workers, each taken by at most one Run.
PoolHoldsParkedWorkers == RP!PoolHoldsParkedWorkers

\* Routine pool: every task given to Run runs exactly once.
EveryTaskRuns == RP!EveryTaskRuns

\* SQL connection manager: every goroutine asking for a connection returns
\* (or the process died of the map race), released in turn by the
\* leader's wg.Done and by the Ping run under the connection's Once.
EveryGetReturns == CS!EveryGetReturns

=============================================================================
